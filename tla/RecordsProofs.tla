--------------------------- MODULE RecordsProofs ---------------------------
(* Theorems about Records, for any number of operations and any limits: what  *)
(* a client that watches the events or follows a log gets, what the tail of a *)
(* log shows, that no output of a service is lost, and what of the failures   *)
(* can be read after a fault.                                                 *)
EXTENDS Records, SequenceTheorems, WellFoundedInduction, TLAPS

\* The store holds the last events made, without a gap.
Store ==
  /\ made \in Nat /\ events \in Seq(Nat)
  /\ Len(events) <= made
  /\ \A i \in 1..Len(events) : events[i] = made - Len(events) + i

Watches == [on : BOOLEAN, queue : Seq(Nat), backlog : Seq(Nat), sent : Seq(Nat), dropped : SUBSET Nat]

\* What a stream has sent and has yet to send, to which a new event is newer.
Got(w) == w.sent \o w.backlog \o w.queue
Stream(got, dropped, last) ==
  /\ got \in Seq(Nat) /\ \A i \in 1..Len(got) : got[i] <= last
  /\ \A i \in 1..(Len(got) - 1) : got[i] < got[i + 1]
  /\ got # <<>> => (got[1])..last \subseteq {got[i] : i \in 1..Len(got)} \cup dropped
Watching == watch \in Watches /\ (watch.on => Stream(Got(watch), watch.dropped, made))

\* An output is where a reader can find it, or was removed by an operator.
InFile(k) == file # NoFile /\ \E i \in DOMAIN file : file[i].k = k
InArchive(k) == \E a \in DOMAIN archives : \E i \in DOMAIN archives[a] : archives[a][i].k = k
LogType ==
  /\ cells \in Nat /\ starts \in Nat /\ archives \in Seq(Seq(Cell))
  /\ file = NoFile \/ file \in Seq(Cell)
  /\ attach \in {"idle", "copied", "archived", "running"}

\* A copied log is removed only because an archive has it; a service has a log to write to.
Attached ==
  /\ attach = "running" => file # NoFile
  /\ attach = "copied" => file # NoFile /\ \A i \in DOMAIN file : file[i].k \in cleared \/ InArchive(file[i].k)

Logs == LogType /\ Attached /\ NothingLost
IInv == Store /\ Watching /\ Logs

LEMMA InitInv == ASSUME Init PROVE IInv
<1> USE RecordsOK DEF Init
<1>1. Store  BY DEF Store
<1>2. Watching  BY DEF Watching, Watches, NoWatch
<1>3. Logs  BY DEF Logs, LogType, Attached, NothingLost
<1> QED BY <1>1, <1>2, <1>3 DEF IInv
-----------------------------------------------------------------------------
(* The event stream                                                        *)

\* What is kept of a sequence is its end.
LEMMA NewestIsTheEnd ==
  ASSUME NEW s \in Seq(Nat), NEW n \in Nat \ {0}
  PROVE  /\ Newest(s, n) \in Seq(Nat) /\ Len(Newest(s, n)) <= Len(s)
         /\ \A i \in 1..Len(Newest(s, n)) : Newest(s, n)[i] = s[Len(s) - Len(Newest(s, n)) + i]
<1>0. Len(s) \in Nat  BY LenProperties
<1>1. CASE Len(s) > n
  <2> DEFINE m == Len(s) - n + 1
  <2>1. m \in Int /\ Len(s) \in Int /\ \A i \in m..Len(s) : s[i] \in Nat  BY <1>0, <1>1, ElementOfSeq
  <2>2. Newest(s, n) = SubSeq(s, m, Len(s))  BY <1>1 DEF Newest
  <2>3. /\ SubSeq(s, m, Len(s)) \in Seq(Nat) /\ Len(SubSeq(s, m, Len(s))) = n
        /\ \A i \in 1..n : SubSeq(s, m, Len(s))[i] = s[m + i - 1]
    <3>1. /\ SubSeq(s, m, Len(s)) \in Seq(Nat)
          /\ Len(SubSeq(s, m, Len(s))) = IF m <= Len(s) THEN Len(s) - m + 1 ELSE 0
          /\ \A i \in 1..(Len(s) - m + 1) : SubSeq(s, m, Len(s))[i] = s[m + i - 1]
      BY <2>1, SubSeqProperties
    <3>2. Len(s) - m + 1 = n /\ m <= Len(s)  BY <1>0
    <3> QED BY <3>1, <3>2
  <2>4. \A i \in 1..n : m + i - 1 = Len(s) - n + i  BY <1>0
  <2>5. Newest(s, n) \in Seq(Nat) /\ Len(Newest(s, n)) = n  BY <2>2, <2>3
  <2>6. \A i \in 1..n : Newest(s, n)[i] = s[Len(s) - n + i]  BY <2>2, <2>3, <2>4
  <2> QED BY <1>0, <1>1, <2>5, <2>6
<1>2. CASE ~(Len(s) > n)
  <2>1. \A i \in 1..Len(s) : Len(s) - Len(s) + i = i  BY <1>0
  <2> QED BY <1>0, <1>2, <2>1 DEF Newest
<1> QED BY <1>1, <1>2

\* A recorded event is the newest of the store.
LEMMA RecordKeepsStore ==
  ASSUME Store, made' = made + 1, events' = Newest(Append(events, made + 1), EventLimit)
  PROVE  Store'
<1> DEFINE a == Append(events, made + 1)
<1>0. made \in Nat /\ made + 1 \in Nat /\ events \in Seq(Nat) /\ EventLimit \in Nat \ {0} /\ Len(events) \in Nat
  BY RecordsOK, LenProperties DEF Store
<1>1. a \in Seq(Nat) /\ Len(a) = Len(events) + 1 /\ (\A i \in 1..Len(events) : a[i] = events[i]) /\ a[Len(events) + 1] = made + 1
  BY <1>0, AppendProperties
<1>2. \A i \in 1..Len(a) : a[i] = made' - Len(a) + i
  <2> SUFFICES ASSUME NEW i \in 1..Len(a) PROVE a[i] = made' - Len(a) + i
    OBVIOUS
  <2>1. CASE i = Len(events) + 1  BY <1>0, <1>1, <2>1
  <2>2. CASE i \in 1..Len(events)
    <3>1. events[i] = made - Len(events) + i  BY <2>2 DEF Store
    <3> QED BY <1>0, <1>1, <2>2, <3>1
  <2> QED BY <1>0, <1>1, <2>1, <2>2
<1> HIDE DEF a
<1>3. /\ events' \in Seq(Nat) /\ Len(events') <= Len(a)
      /\ \A i \in 1..Len(events') : events'[i] = a[Len(a) - Len(events') + i]
  BY <1>0, <1>1, NewestIsTheEnd DEF a
<1>4. Len(events') \in Nat /\ Len(a) \in Nat /\ Len(a) <= made'
  BY <1>0, <1>1, <1>3, LenProperties DEF Store
<1>5. ASSUME NEW i \in 1..Len(events') PROVE events'[i] = made' - Len(events') + i
  <2>1. Len(a) - Len(events') + i \in 1..Len(a)  BY <1>3, <1>4
  <2>2. events'[i] = made' - Len(a) + (Len(a) - Len(events') + i)  BY <1>2, <1>3, <2>1
  <2> QED BY <1>0, <1>4, <2>2
<1> QED BY <1>0, <1>3, <1>4, <1>5 DEF Store

\* A stream takes a new event at its end, or loses it to a full channel.
LEMMA StreamTakes ==
  ASSUME NEW got, NEW dropped, NEW last \in Nat, Stream(got, dropped, last)
  PROVE  /\ Stream(Append(got, last + 1), dropped, last + 1)
         /\ Stream(got, dropped \cup {last + 1}, last + 1)
<1> DEFINE a == Append(got, last + 1)
<1>0. got \in Seq(Nat) /\ Len(got) \in Nat /\ \A i \in 1..Len(got) : got[i] \in Nat
  BY LenProperties, ElementOfSeq DEF Stream
<1>1. a \in Seq(Nat) /\ Len(a) = Len(got) + 1 /\ (\A i \in 1..Len(got) : a[i] = got[i]) /\ a[Len(got) + 1] = last + 1
  BY <1>0, AppendProperties
<1>2. \A i \in 1..Len(got) : got[i] <= last  BY DEF Stream
<1>3. Stream(got, dropped \cup {last + 1}, last + 1)
  <2>1. \A i \in 1..Len(got) : got[i] <= last + 1  BY <1>0, <1>2
  <2>2. got # <<>> => got[1] \in Nat  BY <1>0, EmptySeq
  <2>3. got # <<>> => (got[1])..(last + 1) \subseteq (got[1])..last \cup {last + 1}  BY <2>2
  <2> QED BY <1>0, <2>1, <2>3 DEF Stream
<1>4. Stream(a, dropped, last + 1)
  <2> HIDE DEF a
  <2>1. ASSUME NEW i \in 1..Len(a) PROVE a[i] <= last + 1
    <3>1. CASE i = Len(got) + 1  BY <1>1, <3>1
    <3>2. CASE i \in 1..Len(got)
      <4>1. a[i] = got[i]  BY <1>1, <3>2
      <4>2. got[i] <= last + 1  BY <1>0, <1>2, <3>2
      <4> QED BY <4>1, <4>2
    <3> QED BY <1>0, <1>1, <3>1, <3>2
  <2>2. \A i \in 1..(Len(a) - 1) : a[i] < a[i + 1]
    <3> SUFFICES ASSUME NEW i \in 1..(Len(a) - 1) PROVE a[i] < a[i + 1]
      OBVIOUS
    <3>1. CASE i = Len(got)  BY <1>0, <1>1, <1>2, <3>1
    <3>2. CASE i \in 1..(Len(got) - 1)
      <4>1. got[i] < got[i + 1] /\ i + 1 \in 1..Len(got) /\ i \in 1..Len(got)  BY <1>0, <3>2 DEF Stream
      <4> QED BY <1>1, <4>1
    <3> QED BY <1>0, <1>1, <3>1, <3>2
  <2>3. ASSUME NEW x \in (a[1])..(last + 1) PROVE x \in {a[i] : i \in 1..Len(a)} \cup dropped
    <3>1. CASE x = last + 1  BY <1>0, <1>1, <3>1
    <3>2. CASE x # last + 1
      <4>1. got # <<>>
        <5>1. got = <<>> => Len(got) = 0  OBVIOUS
        <5> QED BY <1>0, <1>1, <2>3, <3>2, <5>1
      <4>2. 1 \in 1..Len(got)  BY <1>0, <4>1, EmptySeq
      <4>3. x \in (got[1])..last  BY <1>0, <1>1, <2>3, <3>2, <4>2
      <4>4. x \in {got[i] : i \in 1..Len(got)} \cup dropped  BY <4>1, <4>3 DEF Stream
      <4>5. ASSUME NEW i \in 1..Len(got), x = got[i] PROVE x \in {a[k] : k \in 1..Len(a)}
        BY <1>0, <1>1, <4>5
      <4> QED BY <4>4, <4>5
    <3> QED BY <3>1, <3>2
  <2> QED BY <1>1, <2>1, <2>2, <2>3 DEF Stream
<1> QED BY <1>3, <1>4

\* The backlog is a stream: the store has no gap.
LEMMA StoreIsStream ==
  ASSUME Store PROVE Stream(events, {}, made)
<1>0. events \in Seq(Nat) /\ Len(events) \in Nat /\ made \in Nat /\ Len(events) <= made
      /\ \A i \in 1..Len(events) : events[i] = made - Len(events) + i
  BY LenProperties DEF Store
<1>1. \A i \in 1..Len(events) : events[i] <= made  BY <1>0
<1>2. ASSUME NEW i \in 1..(Len(events) - 1) PROVE events[i] < events[i + 1]
  <2>1. i \in 1..Len(events) /\ i + 1 \in 1..Len(events)  BY <1>0
  <2>2. events[i] = made - Len(events) + i /\ events[i + 1] = made - Len(events) + (i + 1)  BY <1>0, <2>1
  <2> QED BY <1>0, <2>2
<1>3. ASSUME events # <<>>, NEW x \in (events[1])..made PROVE x \in {events[i] : i \in 1..Len(events)}
  <2>1. 1 \in 1..Len(events)  BY <1>0, <1>3, EmptySeq
  <2>2. events[1] = made - Len(events) + 1  BY <1>0, <2>1
  <2>3. x - (made - Len(events)) \in 1..Len(events)  BY <1>0, <1>3, <2>2
  <2>4. events[x - (made - Len(events))] = x  BY <1>0, <1>3, <2>3
  <2> QED BY <2>3, <2>4
<1> QED BY <1>0, <1>1, <1>2, <1>3 DEF Stream

\* Sending moves the head of one part of a stream to the end of the part before.
LEMMA MoveHead ==
  ASSUME NEW s \in Seq(Nat), NEW b \in Seq(Nat), b # <<>>
  PROVE  Append(s, Head(b)) \o Tail(b) = s \o b
<1> DEFINE x == Append(s, Head(b)) \o Tail(b)
           y == s \o b
<1>0. Len(s) \in Nat /\ Len(b) \in Nat /\ Len(b) # 0  BY LenProperties, EmptySeq
<1>1. /\ Head(b) \in Nat /\ Tail(b) \in Seq(Nat) /\ Len(Tail(b)) = Len(b) - 1
      /\ \A i \in 1..Len(Tail(b)) : Tail(b)[i] = b[i + 1]
  BY HeadTailProperties
<1>2. Head(b) = b[1]  OBVIOUS
<1>3. /\ Append(s, Head(b)) \in Seq(Nat) /\ Len(Append(s, Head(b))) = Len(s) + 1
      /\ \A i \in 1..Len(s) : Append(s, Head(b))[i] = s[i]
      /\ Append(s, Head(b))[Len(s) + 1] = Head(b)
  BY <1>1, AppendProperties
<1>4. /\ x \in Seq(Nat) /\ Len(x) = Len(s) + Len(b)
      /\ \A i \in 1..Len(s) + Len(b) : x[i] = IF i <= Len(s) + 1 THEN Append(s, Head(b))[i] ELSE Tail(b)[i - (Len(s) + 1)]
  <2>1. /\ x \in Seq(Nat) /\ Len(x) = Len(Append(s, Head(b))) + Len(Tail(b))
        /\ \A i \in 1..Len(Append(s, Head(b))) + Len(Tail(b)) :
             x[i] = IF i <= Len(Append(s, Head(b))) THEN Append(s, Head(b))[i] ELSE Tail(b)[i - Len(Append(s, Head(b)))]
    BY <1>1, <1>3, ConcatProperties
  <2>2. Len(Append(s, Head(b))) + Len(Tail(b)) = Len(s) + Len(b)  BY <1>0, <1>1, <1>3
  <2> QED BY <1>3, <2>1, <2>2
<1>5. /\ y \in Seq(Nat) /\ Len(y) = Len(s) + Len(b)
      /\ \A i \in 1..Len(s) + Len(b) : y[i] = IF i <= Len(s) THEN s[i] ELSE b[i - Len(s)]
  BY ConcatProperties
<1> HIDE DEF x, y
<1>6. ASSUME NEW i \in 1..Len(s) + Len(b) PROVE x[i] = y[i]
  <2>1. CASE i \in 1..Len(s)
    <3>1. i <= Len(s) /\ i <= Len(s) + 1  BY <1>0, <2>1
    <3> QED BY <1>3, <1>4, <1>5, <2>1, <3>1
  <2>2. CASE i = Len(s) + 1
    <3>1. ~(i <= Len(s)) /\ i <= Len(s) + 1 /\ i - Len(s) = 1  BY <1>0, <2>2
    <3>2. x[i] = Head(b)  BY <1>3, <1>4, <2>2, <3>1
    <3>3. y[i] = b[1]  BY <1>5, <3>1
    <3> QED BY <1>2, <3>2, <3>3
  <2>3. CASE i > Len(s) + 1
    <3>1. i - (Len(s) + 1) \in 1..Len(Tail(b))  BY <1>0, <1>1, <2>3
    <3>2. i - (Len(s) + 1) + 1 = i - Len(s)  BY <1>0
    <3> QED BY <1>0, <1>1, <1>4, <1>5, <2>3, <3>1, <3>2
  <2> QED BY <1>0, <2>1, <2>2, <2>3
<1>7. x = y  BY <1>4, <1>5, <1>6, SeqEqual
<1> QED BY <1>7 DEF x, y

\* What is appended to the last part of a stream is appended to the stream.
LEMMA AppendLast ==
  ASSUME NEW s \in Seq(Nat), NEW q \in Seq(Nat), NEW e \in Nat
  PROVE  s \o Append(q, e) = Append(s \o q, e)
<1>y. PICK y \in Seq(Nat) : y = s \o q  BY ConcatProperties
<1>a. PICK a \in Seq(Nat) : a = Append(q, e)  BY AppendProperties
<1> DEFINE z == Append(y, e)
           x == s \o a
<1>0. Len(s) \in Nat /\ Len(q) \in Nat  BY LenProperties
<1>1. a \in Seq(Nat) /\ Len(a) = Len(q) + 1 /\ (\A i \in 1..Len(q) : a[i] = q[i]) /\ a[Len(q) + 1] = e
  BY <1>a, AppendProperties
<1>2. /\ y \in Seq(Nat) /\ Len(y) = Len(s) + Len(q)
      /\ \A i \in 1..Len(s) + Len(q) : y[i] = IF i <= Len(s) THEN s[i] ELSE q[i - Len(s)]
  BY <1>y, ConcatProperties
<1>3. z \in Seq(Nat) /\ Len(z) = Len(y) + 1 /\ (\A i \in 1..Len(y) : z[i] = y[i]) /\ z[Len(y) + 1] = e
  BY AppendProperties
<1>4. /\ x \in Seq(Nat) /\ Len(x) = Len(s) + Len(a)
      /\ \A i \in 1..Len(s) + Len(a) : x[i] = IF i <= Len(s) THEN s[i] ELSE a[i - Len(s)]
  BY <1>1, ConcatProperties
<1> HIDE DEF x, z
<1>5. Len(x) = Len(z) /\ Len(x) = Len(s) + Len(q) + 1  BY <1>0, <1>1, <1>2, <1>3, <1>4
<1>6. ASSUME NEW i \in 1..Len(x) PROVE x[i] = z[i]
  <2>0. i \in 1..Len(s) + Len(a)  BY <1>4
  <2>1. CASE i = Len(s) + Len(q) + 1
    <3>1. ~(i <= Len(s)) /\ i - Len(s) = Len(q) + 1 /\ i = Len(y) + 1  BY <1>0, <1>2, <2>1
    <3> QED BY <1>1, <1>3, <1>4, <2>0, <3>1
  <2>2. CASE i \in 1..Len(s)
    <3>1. i <= Len(s) /\ i \in 1..Len(s) + Len(q) /\ i \in 1..Len(y)  BY <1>0, <1>2, <2>2
    <3> QED BY <1>2, <1>3, <1>4, <2>0, <3>1
  <2>3. CASE i \in (Len(s) + 1)..(Len(s) + Len(q))
    <3>1. ~(i <= Len(s)) /\ i \in 1..Len(s) + Len(q) /\ i \in 1..Len(y) /\ i - Len(s) \in 1..Len(q)
      BY <1>0, <1>2, <2>3
    <3> QED BY <1>1, <1>2, <1>3, <1>4, <2>0, <3>1
  <2>4. i \in 1..(Len(s) + Len(q) + 1)  BY <1>5
  <2>5. i = Len(s) + Len(q) + 1 \/ i \in 1..Len(s) \/ i \in (Len(s) + 1)..(Len(s) + Len(q))
    <3>1. \A m, n \in Nat : \A k \in 1..(m + n + 1) : k = m + n + 1 \/ k \in 1..m \/ k \in (m + 1)..(m + n)  OBVIOUS
    <3> QED BY <1>0, <2>4, <3>1
  <2> QED BY <2>1, <2>2, <2>3, <2>5
<1>7. x = z  BY <1>3, <1>4, <1>5, <1>6, SeqEqual
<1> QED BY <1>7, <1>a, <1>y DEF x, z

\* A stream under way that records nothing is as it was, in the same order.
LEMMA SendKeepsStream ==
  ASSUME IInv, WatchSend PROVE watch' \in Watches /\ (watch'.on => Stream(Got(watch'), watch'.dropped, made))
<1>0. /\ watch \in Watches /\ watch.on /\ Stream(Got(watch), watch.dropped, made)
      /\ watch.sent \in Seq(Nat) /\ watch.backlog \in Seq(Nat) /\ watch.queue \in Seq(Nat)
  BY DEF WatchSend, IInv, Watching, Watches
<1>1. CASE /\ watch.backlog # <<>>
           /\ watch' = [watch EXCEPT !.backlog = Tail(@), !.sent = Append(@, Head(watch.backlog))]
  <2>1. Head(watch.backlog) \in Nat /\ Tail(watch.backlog) \in Seq(Nat)  BY <1>0, <1>1, HeadTailProperties
  <2>2. Append(watch.sent, Head(watch.backlog)) \in Seq(Nat)  BY <1>0, <2>1, AppendProperties
  <2>3. /\ watch'.sent = Append(watch.sent, Head(watch.backlog)) /\ watch'.backlog = Tail(watch.backlog)
        /\ watch'.queue = watch.queue /\ watch'.dropped = watch.dropped
    BY <1>0, <1>1 DEF Watches
  <2>4. watch' \in Watches  BY <1>0, <1>1, <2>1, <2>2 DEF Watches
  <2>m. Append(watch.sent, Head(watch.backlog)) \o Tail(watch.backlog) = watch.sent \o watch.backlog
    BY <1>0, <1>1, MoveHead
  <2>5. Got(watch') = Got(watch)  BY <2>3, <2>m DEF Got
  <2> QED BY <1>0, <2>3, <2>4, <2>5
<1>2. CASE /\ watch.backlog = <<>> /\ watch.queue # <<>>
           /\ watch' = [watch EXCEPT !.queue = Tail(@), !.sent = Append(@, Head(watch.queue))]
  <2>1. Head(watch.queue) \in Nat /\ Tail(watch.queue) \in Seq(Nat)  BY <1>0, <1>2, HeadTailProperties
  <2>2. Append(watch.sent, Head(watch.queue)) \in Seq(Nat)  BY <1>0, <2>1, AppendProperties
  <2>3. /\ watch'.sent = Append(watch.sent, Head(watch.queue)) /\ watch'.queue = Tail(watch.queue)
        /\ watch'.backlog = <<>> /\ watch'.dropped = watch.dropped
    BY <1>0, <1>2 DEF Watches
  <2>4. watch' \in Watches  BY <1>0, <1>2, <2>1, <2>2 DEF Watches
  <2>5. watch.sent \o <<>> = watch.sent /\ watch'.sent \o <<>> = watch'.sent  BY <1>0, <2>2, <2>3, ConcatEmptySeq
  <2>6. Got(watch') = watch'.sent \o watch'.queue /\ Got(watch) = watch.sent \o watch.queue
    BY <1>2, <2>3, <2>5 DEF Got
  <2>7. Got(watch') = Got(watch)  BY <1>0, <1>2, <2>3, <2>6, MoveHead
  <2> QED BY <1>0, <2>3, <2>4, <2>7
<1> QED BY <1>1, <1>2 DEF WatchSend

LEMMA RecordKeepsWatch ==
  ASSUME IInv, made' = made + 1, watch' = Publish(watch, made + 1) PROVE Watching'
<1>0. /\ watch \in Watches /\ made \in Nat /\ made + 1 \in Nat
      /\ watch.sent \in Seq(Nat) /\ watch.backlog \in Seq(Nat) /\ watch.queue \in Seq(Nat)
  BY DEF IInv, Watching, Watches, Store
<1>1. CASE ~watch.on  BY <1>0, <1>1 DEF Publish, Watching
<1>2. CASE watch.on /\ watch' = [watch EXCEPT !.queue = Append(@, made + 1)]
  <2>1. Append(watch.queue, made + 1) \in Seq(Nat)  BY <1>0, AppendProperties
  <2>2. watch' \in Watches  BY <1>0, <1>2, <2>1 DEF Watches
  <2>3. /\ watch'.sent = watch.sent /\ watch'.backlog = watch.backlog /\ watch'.dropped = watch.dropped
        /\ watch'.queue = Append(watch.queue, made + 1)
    BY <1>0, <1>2 DEF Watches
  <2>4. PICK front \in Seq(Nat) : front = watch.sent \o watch.backlog  BY <1>0, ConcatProperties
  <2>5. front \o Append(watch.queue, made + 1) = Append(front \o watch.queue, made + 1)
    BY <1>0, <2>4, AppendLast
  <2>6. Got(watch') = Append(Got(watch), made + 1)  BY <2>3, <2>4, <2>5 DEF Got
  <2>7. Stream(Got(watch), watch.dropped, made)  BY <1>2 DEF IInv, Watching
  <2>8. Stream(Append(Got(watch), made + 1), watch.dropped, made + 1)  BY <1>0, <2>7, StreamTakes
  <2> QED BY <2>2, <2>3, <2>6, <2>8 DEF Watching
<1>3. CASE watch.on /\ watch' = [watch EXCEPT !.dropped = @ \cup {made + 1}]
  <2>1. watch' \in Watches  BY <1>0, <1>3 DEF Watches
  <2>2. /\ watch'.sent = watch.sent /\ watch'.backlog = watch.backlog /\ watch'.queue = watch.queue
        /\ watch'.dropped = watch.dropped \cup {made + 1}
    BY <1>0, <1>3 DEF Watches
  <2>3. Got(watch') = Got(watch)  BY <2>2 DEF Got
  <2>4. Stream(Got(watch), watch.dropped, made)  BY <1>3 DEF IInv, Watching
  <2>5. Stream(Got(watch), watch.dropped \cup {made + 1}, made + 1)  BY <1>0, <2>4, StreamTakes
  <2> QED BY <2>1, <2>2, <2>3, <2>5 DEF Watching
<1> QED BY <1>1, <1>2, <1>3 DEF Publish

LEMMA EventSteps ==
  ASSUME IInv, [Next]_vars PROVE Store' /\ Watching'
<1>0. Store /\ Watching  BY DEF IInv
<1>1. ASSUME UNCHANGED <<made, events, watch>> PROVE Store' /\ Watching'
  BY <1>0, <1>1 DEF Store, Watching
<1>2. ASSUME NEW g \in Operations, NEW success \in BOOLEAN, Audit(g, success) PROVE Store' /\ Watching'
  BY <1>0, <1>2, RecordKeepsStore, RecordKeepsWatch DEF Audit, EventRecord
<1>3. CASE SubscribeAndList
  <2>1. Store' /\ made' = made  BY <1>0, <1>3 DEF SubscribeAndList, Store
  <2>2. watch' = [on |-> TRUE, queue |-> <<>>, backlog |-> events, sent |-> <<>>, dropped |-> {}]
    BY <1>3 DEF SubscribeAndList, NoWatch, Backlog
  <2>3. events \in Seq(Nat)  BY <1>0 DEF Store
  <2>4. watch' \in Watches  BY <2>2, <2>3 DEF Watches
  <2>5. Got(watch') = events  BY <2>2, <2>3, ConcatEmptySeq DEF Got
  <2>6. Stream(events, {}, made)  BY <1>0, StoreIsStream
  <2> QED BY <2>1, <2>2, <2>4, <2>5, <2>6 DEF Watching
<1>4. CASE WatchSend
  <2>1. UNCHANGED <<made, events>>  BY <1>4 DEF WatchSend
  <2> QED BY <1>0, <1>4, <2>1, SendKeepsStream DEF Store, Watching
<1>5. CASE Unsubscribe
  BY <1>0, <1>5 DEF Unsubscribe, Store, Watching, Watches, NoWatch
<1>6. CASE Crash
  BY <1>0, <1>6 DEF Crash, Store, Watching, Watches, NoWatch
<1>7. ASSUME NEW g \in Operations,
             JournalRecord(g) \/ JournalFull(g) \/ CompactTruncate(g) \/ CompactRewrite(g) \/ CompactFull(g)
      PROVE  Store' /\ Watching'
  BY <1>1, <1>7 DEF JournalRecord, JournalFull, CompactTruncate, CompactRewrite, CompactFull
<1>8. ASSUME UNCHANGED recordVars PROVE Store' /\ Watching'  BY <1>1, <1>8 DEF recordVars
<1>9. ASSUME NEW nl \in BOOLEAN, Write(nl) PROVE Store' /\ Watching'  BY <1>8, <1>9 DEF Write
<1>10. CASE ServiceExits \/ ArchiveLog \/ RemoveSource \/ InitLogFile
  BY <1>8, <1>10 DEF ServiceExits, ArchiveLog, RemoveSource, InitLogFile
<1>11. CASE DeleteLogArchive \/ ClearLogArchives
  BY <1>8, <1>11 DEF DeleteLogArchive, ClearLogArchives, RemoveArchives
<1>12. CASE WatchLogs \/ FollowPoll \/ FollowEnds
  BY <1>8, <1>12 DEF WatchLogs, FollowPoll, FollowEnds
<1>13. CASE UNCHANGED vars  BY <1>8, <1>13 DEF vars
<1> QED BY <1>2, <1>3, <1>4, <1>5, <1>6, <1>7, <1>9, <1>10, <1>11, <1>12, <1>13 DEF Next
-----------------------------------------------------------------------------
(* The service log                                                         *)

Kept(k) == k \in cleared \/ InFile(k) \/ InArchive(k)

\* A step that adds no output and keeps what was found somewhere loses nothing.
LEMMA StillKept ==
  ASSUME IInv, cells' = cells, \A k \in Nat : Kept(k) => Kept(k)' PROVE NothingLost'
<1>1. ASSUME NEW k \in 1..cells PROVE Kept(k)'
  <2>1. k \in Nat /\ Kept(k)  BY DEF IInv, Logs, LogType, NothingLost, Kept, InFile, InArchive
  <2> QED BY <2>1
<1> QED BY <1>1 DEF NothingLost, Kept, InFile, InArchive

\* An archive added is one more, and the others are as they were.
LEMMA ArchiveAdded ==
  ASSUME Logs, file # NoFile, archives' = Append(archives, file)
  PROVE  /\ archives' \in Seq(Seq(Cell))
         /\ \A k : InArchive(k) => InArchive(k)'
         /\ \A k : InFile(k) => InArchive(k)'
<1>0. file \in Seq(Cell) /\ archives \in Seq(Seq(Cell)) /\ Len(archives) \in Nat  BY LenProperties DEF Logs, LogType
<1>1. /\ archives' \in Seq(Seq(Cell)) /\ Len(archives') = Len(archives) + 1
      /\ \A a \in 1..Len(archives) : archives'[a] = archives[a]
      /\ archives'[Len(archives) + 1] = file
  BY <1>0, AppendProperties
<1>2. DOMAIN archives = 1..Len(archives) /\ DOMAIN archives' = 1..(Len(archives) + 1)
  BY <1>0, <1>1, LenProperties
<1>3. DOMAIN archives \subseteq DOMAIN archives' /\ Len(archives) + 1 \in DOMAIN archives'  BY <1>0, <1>2
<1>4. \A k : InArchive(k) => InArchive(k)'  BY <1>1, <1>2, <1>3 DEF InArchive
<1>5. \A k : InFile(k) => InArchive(k)'  BY <1>1, <1>3 DEF InFile, InArchive
<1> QED BY <1>1, <1>4, <1>5

LEMMA ArchiveSteps ==
  ASSUME IInv, ArchiveLog \/ RemoveSource \/ InitLogFile PROVE Logs'
<1>0. Logs /\ LogType /\ Attached  BY DEF IInv, Logs
<1>1. CASE ArchiveLog
  <2>0. UNCHANGED <<cells, starts, cleared>>  BY <1>1 DEF ArchiveLog
  <2>1. CASE file \in {NoFile, <<>>} /\ file' = NoFile /\ archives' = archives /\ attach' = "archived"
    <3>1. \A k : ~InFile(k)
      <4>1. CASE file = NoFile  BY <4>1 DEF InFile
      <4>2. CASE file = <<>>  BY <4>2 DEF InFile
      <4> QED BY <2>1, <4>1, <4>2
    <3>2. \A k \in Nat : Kept(k) => Kept(k)'  BY <2>0, <2>1, <3>1 DEF Kept, InArchive
    <3> QED BY <1>0, <2>0, <2>1, <3>2, StillKept DEF Logs, LogType, Attached
  <2>2. CASE file # NoFile /\ file' = NoFile /\ archives' = Append(archives, file) /\ attach' = "archived"
    <3>1. \A k \in Nat : Kept(k) => Kept(k)'  BY <1>0, <2>0, <2>2, ArchiveAdded DEF Kept
    <3> QED BY <1>0, <2>0, <2>2, <3>1, StillKept, ArchiveAdded DEF Logs, LogType, Attached
  <2>3. CASE file # NoFile /\ file' = file /\ archives' = Append(archives, file) /\ attach' = "copied"
    <3>1. /\ archives' \in Seq(Seq(Cell))
          /\ \A k : InArchive(k) => InArchive(k)'
          /\ \A k : InFile(k) => InArchive(k)'
      BY <1>0, <2>3, ArchiveAdded
    <3>2. \A k \in Nat : Kept(k) => Kept(k)'  BY <2>0, <3>1 DEF Kept
    <3>3. ASSUME NEW i \in DOMAIN file PROVE InArchive(file[i].k)'
      <4>1. InFile(file[i].k)  BY <2>3 DEF InFile
      <4>2. \A k : k = file[i].k => InArchive(k)'  BY <3>1, <4>1
      <4> QED BY <2>3, <4>2 DEF InArchive
    <3>4. LogType' /\ Attached'  BY <1>0, <2>0, <2>3, <3>1, <3>3 DEF LogType, Attached
    <3> QED BY <2>0, <3>2, <3>4, StillKept DEF Logs
  <2>4. CASE file # NoFile /\ file' = file /\ archives' = archives /\ attach' = "archived"
    <3>1. \A k \in Nat : Kept(k) => Kept(k)'  BY <2>0, <2>4 DEF Kept, InFile, InArchive
    <3> QED BY <1>0, <2>0, <2>4, <3>1, StillKept DEF Logs, LogType, Attached
  <2> QED BY <1>1, <2>1, <2>2, <2>3, <2>4 DEF ArchiveLog, CopyAndDelete, Moved
<1>2. CASE RemoveSource
  <2>0. /\ attach = "copied" /\ attach' = "archived" /\ UNCHANGED <<cells, archives, starts, cleared>>
        /\ file' = NoFile \/ file' = file
    BY <1>2 DEF RemoveSource
  <2>1. \A k : InFile(k) => k \in cleared \/ InArchive(k)  BY <1>0, <2>0 DEF Attached, InFile
  <2>2. \A k \in Nat : Kept(k) => Kept(k)'  BY <2>0, <2>1 DEF Kept, InArchive
  <2> QED BY <1>0, <2>0, <2>2, StillKept DEF Logs, LogType, Attached
<1>3. CASE InitLogFile
  <2>0. /\ attach' = "running" /\ UNCHANGED <<cells, archives, cleared>>
        /\ file' = (IF file = NoFile THEN <<>> ELSE file) /\ starts' = (IF file = NoFile THEN starts + 1 ELSE starts)
    BY <1>3 DEF InitLogFile
  <2>e. <<>> \in Seq(Cell)  BY EmptySeq
  <2>1. <<>> \in Seq(Cell) /\ <<>> # NoFile  BY <2>e, RecordsOK, Zenon
  <2>2. file' # NoFile /\ file' \in Seq(Cell) /\ starts' \in Nat  BY <1>0, <2>0, <2>1 DEF LogType
  <2>3. \A k \in Nat : Kept(k) => Kept(k)'  BY <2>0, <2>2 DEF Kept, InFile, InArchive
  <2> QED BY <1>0, <2>0, <2>2, <2>3, StillKept DEF Logs, LogType, Attached
<1> QED BY <1>1, <1>2, <1>3

\* What an operator removes is counted as removed, and nothing else changes.
LEMMA RemovalSteps ==
  ASSUME IInv, NEW ids, ids \subseteq DOMAIN archives, RemoveArchives(ids) PROVE Logs'
<1>0. Logs /\ LogType /\ Attached  BY DEF IInv, Logs
<1>1. /\ cleared' = cleared \cup UNION {{archives[i][j].k : j \in DOMAIN archives[i]} : i \in ids}
      /\ archives' = [i \in DOMAIN archives |-> IF i \in ids THEN <<>> ELSE archives[i]]
      /\ UNCHANGED <<cells, file, starts, attach>>
  BY DEF RemoveArchives
<1>2. archives' \in Seq(Seq(Cell))
  <2>1. archives \in Seq(Seq(Cell)) /\ DOMAIN archives = 1..Len(archives) /\ Len(archives) \in Nat
    BY <1>0, LenProperties DEF LogType
  <2>2. \A i \in 1..Len(archives) : (IF i \in ids THEN <<>> ELSE archives[i]) \in Seq(Cell)
    BY <2>1, ElementOfSeq
  <2> QED BY <1>1, <2>1, <2>2
<1>3. \A k : InArchive(k) => k \in cleared' \/ InArchive(k)'
  <2> SUFFICES ASSUME NEW k, NEW a \in DOMAIN archives, NEW i \in DOMAIN archives[a], archives[a][i].k = k
               PROVE  k \in cleared' \/ InArchive(k)'
    BY DEF InArchive
  <2>1. CASE a \in ids  BY <1>1, <2>1
  <2>2. CASE a \notin ids
    <3>1. a \in DOMAIN archives' /\ archives'[a] = archives[a]  BY <1>1, <2>2
    <3> QED BY <3>1 DEF InArchive
  <2> QED BY <2>1, <2>2
<1>4. cleared \subseteq cleared'  BY <1>1
<1>5. \A k \in Nat : Kept(k) => Kept(k)'  BY <1>1, <1>3, <1>4 DEF Kept, InFile
<1>6. Attached'
  <2>1. attach' = "running" => file' # NoFile  BY <1>0, <1>1 DEF Attached
  <2>2. ASSUME attach' = "copied", NEW i \in DOMAIN file' PROVE (file[i].k \in cleared \/ InArchive(file[i].k))'
    <3>1. file[i].k \in cleared \/ InArchive(file[i].k)  BY <1>0, <1>1, <2>2 DEF Attached
    <3>2. \A k : k = file[i].k => k \in cleared' \/ InArchive(k)'  BY <1>3, <1>4, <3>1
    <3> QED BY <1>1, <3>2 DEF InArchive
  <2>3. attach' = "copied" => file' # NoFile  BY <1>0, <1>1 DEF Attached
  <2> QED BY <2>1, <2>2, <2>3 DEF Attached
<1> QED BY <1>0, <1>1, <1>2, <1>5, <1>6, StillKept DEF Logs, LogType

LEMMA LogSteps ==
  ASSUME IInv, [Next]_vars PROVE Logs'
<1>0. Logs /\ LogType /\ Attached  BY DEF IInv, Logs
<1>1. ASSUME UNCHANGED <<cells, file, archives, starts, attach, cleared>> PROVE Logs'
  BY <1>0, <1>1 DEF Logs, LogType, Attached, NothingLost, InArchive
<1>2. ASSUME UNCHANGED logVars PROVE Logs'  BY <1>1, <1>2 DEF logVars
<1>3. ASSUME NEW g \in Operations, NEW success \in BOOLEAN, Audit(g, success) PROVE Logs'  BY <1>2, <1>3 DEF Audit
<1>4. CASE SubscribeAndList \/ WatchSend \/ Unsubscribe  BY <1>2, <1>4 DEF SubscribeAndList, WatchSend, Unsubscribe
<1>5. ASSUME NEW g \in Operations,
             JournalRecord(g) \/ JournalFull(g) \/ CompactTruncate(g) \/ CompactRewrite(g) \/ CompactFull(g)
      PROVE  Logs'
  BY <1>2, <1>5 DEF JournalRecord, JournalFull, CompactTruncate, CompactRewrite, CompactFull
<1>6. CASE Crash
  <2>1. UNCHANGED <<cells, file, archives, starts, cleared>> /\ attach' = (IF attach = "running" THEN "running" ELSE "idle")
    BY <1>6 DEF Crash
  <2> QED BY <1>0, <2>1 DEF Logs, LogType, Attached, NothingLost
<1>7. ASSUME NEW nl \in BOOLEAN, Write(nl) PROVE Logs'
  <2> DEFINE c == [k |-> cells + 1, nl |-> nl, f |-> starts]
  <2>0. /\ attach = "running" /\ cells' = cells + 1 /\ file' = Append(file, c)
        /\ UNCHANGED <<archives, starts, attach, cleared>>
    BY <1>7 DEF Write
  <2>1. file # NoFile /\ file \in Seq(Cell) /\ Len(file) \in Nat /\ DOMAIN file = 1..Len(file)
    BY <1>0, <2>0, LenProperties DEF LogType, Attached
  <2>2. c \in Cell /\ c.k = cells + 1  BY <1>0 DEF Cell, LogType
  <2> HIDE DEF c
  <2>3. /\ file' \in Seq(Cell) /\ Len(file') = Len(file) + 1
        /\ (\A i \in 1..Len(file) : file'[i] = file[i]) /\ file'[Len(file) + 1] = c
    BY <2>0, <2>1, <2>2, AppendProperties
  <2>4. file' # NoFile /\ DOMAIN file' = 1..(Len(file) + 1)  BY <2>3, RecordsOK, LenProperties
  <2>5. \A k : InFile(k) => InFile(k)'  BY <2>1, <2>3, <2>4 DEF InFile
  <2>6. \A k : k = cells + 1 => InFile(k)'
    <3>1. Len(file) + 1 \in DOMAIN file'  BY <2>1, <2>4
    <3> QED BY <2>2, <2>3, <2>4, <3>1 DEF InFile
  <2>7. ASSUME NEW k \in 1..cells' PROVE k \in cleared' \/ InFile(k)' \/ InArchive(k)'
    <3>1. CASE k = cells + 1  BY <2>6, <3>1
    <3>2. CASE k # cells + 1
      <4>1. k \in 1..cells  BY <1>0, <2>0, <3>2 DEF LogType
      <4>2. k \in cleared \/ InFile(k) \/ InArchive(k)  BY <1>0, <4>1 DEF Logs, NothingLost, InFile, InArchive
      <4> QED BY <2>0, <2>5, <4>2 DEF InArchive
    <3> QED BY <3>1, <3>2
  <2>8. NothingLost'  BY <2>7 DEF NothingLost, InFile, InArchive
  <2>9. LogType' /\ Attached'  BY <1>0, <2>0, <2>3, <2>4 DEF LogType, Attached
  <2> QED BY <2>8, <2>9 DEF Logs
<1>8. CASE ServiceExits
  <2>1. UNCHANGED <<cells, file, archives, starts, cleared>> /\ attach' = "idle"  BY <1>8 DEF ServiceExits
  <2> QED BY <1>0, <2>1 DEF Logs, LogType, Attached, NothingLost
<1>9. CASE ArchiveLog \/ RemoveSource \/ InitLogFile  BY <1>9, ArchiveSteps
<1>10. CASE DeleteLogArchive
  <2>1. PICK i \in DOMAIN archives : RemoveArchives({i})  BY <1>10 DEF DeleteLogArchive
  <2> QED BY <2>1, RemovalSteps
<1>11. CASE ClearLogArchives
  <2>1. PICK ids \in SUBSET ListArchives : RemoveArchives(ids)  BY <1>11 DEF ClearLogArchives
  <2> QED BY <2>1, RemovalSteps DEF ListArchives
<1>12. CASE WatchLogs \/ FollowPoll \/ FollowEnds
  BY <1>1, <1>12 DEF WatchLogs, FollowPoll, FollowEnds
<1>13. CASE UNCHANGED vars  BY <1>2, <1>13 DEF vars
<1> QED BY <1>3, <1>4, <1>5, <1>6, <1>7, <1>8, <1>9, <1>10, <1>11, <1>12, <1>13 DEF Next

-----------------------------------------------------------------------------
(* Loops over places                                                       *)

\* What holds first, and at each place if it holds at the one before, holds at all of them:
\* the least place where it does not would follow one where it does.
LEMMA PlaceByPlace ==
  ASSUME NEW N \in Nat, NEW G, 0 \in G, \A n \in 1..N : n - 1 \in G => n \in G
  PROVE  \A n \in 0..N : n \in G
<1> DEFINE Bad == (0..N) \ G
<1> SUFFICES ASSUME Bad # {} PROVE FALSE  OBVIOUS
<1>1. IsWellFoundedOn(OpToRel(<, Nat), Nat)  BY NatLessThanWellFounded
<1>2. Bad \subseteq Nat  OBVIOUS
<1> HIDE DEF Bad
<1>3. PICK n \in Bad : \A m \in Bad : ~(<<m, n>> \in OpToRel(<, Nat))  BY <1>1, <1>2, WFMin
<1>4. \A m \in Bad : ~(m < n)
  <2>1. \A m, k \in Nat : m < k => <<m, k>> \in OpToRel(<, Nat)  BY DEF OpToRel
  <2> QED BY <1>2, <1>3, <2>1
<1>5. n \in 1..N /\ n \notin G
  <2>1. n \in 0..N /\ n \notin G /\ n # 0  BY <1>3 DEF Bad
  <2> QED BY <2>1
<1>6. n - 1 \in 0..N /\ n - 1 < n  BY <1>5
<1> QED BY <1>4, <1>5, <1>6 DEF Bad

\* A loop over a list's places, from a value, has a value after each of them.
Runs(N, V, base, step) == \E g \in [0..N -> V] : g[0] = base /\ \A n \in 1..N : g[n] = step[n][g[n - 1]]
LEMMA LoopRuns ==
  ASSUME NEW N \in Nat, NEW V, NEW base \in V, NEW step,
         \A n \in 1..N, v \in V : step[n][v] \in V
  PROVE  Runs(N, V, base, step)
<1> DEFINE R(m) == \E g \in [0..m -> V] : g[0] = base /\ \A n \in 1..m : g[n] = step[n][g[n - 1]]
           G == {m \in 0..N : R(m)}
<1>1. R(0)
  <2> DEFINE g == [n \in 0..0 |-> base]
  <2>1. g \in [0..0 -> V] /\ g[0] = base /\ \A n \in 1..0 : g[n] = step[n][g[n - 1]]  OBVIOUS
  <2> QED BY <2>1
<1>2. ASSUME NEW m \in 1..N, R(m - 1) PROVE R(m)
  <2>1. PICK g \in [0..(m - 1) -> V] : g[0] = base /\ \A n \in 1..(m - 1) : g[n] = step[n][g[n - 1]]  BY <1>2
  <2>2. m - 1 \in 0..(m - 1) /\ 0 \in 0..(m - 1) /\ 0 # m /\ m \in 0..m  OBVIOUS
  <2>3. g[m - 1] \in V /\ step[m][g[m - 1]] \in V  BY <2>2
  <2> DEFINE h == [n \in 0..m |-> IF n = m THEN step[m][g[m - 1]] ELSE g[n]]
  <2>4. \A n \in 0..m : n # m => n \in 0..(m - 1)  OBVIOUS
  <2>5. h \in [0..m -> V]  BY <2>3, <2>4
  <2>6. h[0] = base /\ h[m] = step[m][g[m - 1]] /\ \A n \in 0..(m - 1) : h[n] = g[n]  BY <2>1, <2>2
  <2> HIDE DEF h
  <2>7. ASSUME NEW n \in 1..m PROVE h[n] = step[n][h[n - 1]]
    <3>1. n - 1 \in 0..(m - 1) /\ (n # m => n \in 1..(m - 1) /\ n \in 0..(m - 1))  OBVIOUS
    <3> QED BY <2>1, <2>6, <3>1
  <2> QED BY <2>5, <2>6, <2>7
<1>3. 0 \in G  BY <1>1
<1>4. ASSUME NEW n \in 1..N, n - 1 \in G PROVE n \in G
  <2>1. R(n - 1)  BY <1>4
  <2>2. R(n)  BY <1>2, <2>1
  <2> QED BY <2>2
<1>5. N \in G
  <2> HIDE DEF G
  <2>1. N \in 0..N  OBVIOUS
  <2> QED BY <1>3, <1>4, <2>1, PlaceByPlace
<1> QED BY <1>5 DEF Runs

-----------------------------------------------------------------------------
(* What a scan finds                                                       *)

Scan(S, n, u) == u[0] = <<>> /\ \A i \in 1..n : u[i] = IF i \in S THEN Append(u[i - 1], i) ELSE u[i - 1]

\* The scan over n places has a value after each of them, and Chosen is the last.
LEMMA ChosenScans ==
  ASSUME NEW S, NEW n \in Nat PROVE \E u \in [0..n -> Seq(Nat)] : Scan(S, n, u) /\ Chosen(S, n) = u[n]
<1> DEFINE Body(u) == [i \in 0..n |-> IF i = 0 THEN <<>> ELSE IF i \in S THEN Append(u[i - 1], i) ELSE u[i - 1]]
           upto == CHOOSE u : u = Body(u)
           step == [i \in 1..n |-> [v \in Seq(Nat) |-> IF i \in S THEN Append(v, i) ELSE v]]
<1>1. Chosen(S, n) = upto[n]  BY DEF Chosen
<1>2. \A i \in 1..n, v \in Seq(Nat) : step[i][v] = (IF i \in S THEN Append(v, i) ELSE v) /\ step[i][v] \in Seq(Nat)
  <2>1. \A i \in 1..n, v \in Seq(Nat) : Append(v, i) \in Seq(Nat)  BY AppendProperties
  <2> QED BY <2>1
<1> HIDE DEF step
<1>3. PICK w \in [0..n -> Seq(Nat)] : w[0] = <<>> /\ \A i \in 1..n : w[i] = step[i][w[i - 1]]
  <2> DEFINE none == <<>>
             V == Seq(Nat)
  <2>1. none \in V  BY EmptySeq
  <2>2. \A i \in 1..n, v \in V : step[i][v] \in V  BY <1>2
  <2> HIDE DEF none, V
  <2>3. Runs(n, V, none, step)  BY <2>1, <2>2, LoopRuns
  <2> QED BY <2>3 DEF Runs, none, V
<1>4. \A i \in 0..n : i = 0 \/ (i \in 1..n /\ i - 1 \in 0..n)  OBVIOUS
<1>5. \A i \in 0..n : w[i] = IF i = 0 THEN <<>> ELSE IF i \in S THEN Append(w[i - 1], i) ELSE w[i - 1]
  <2> SUFFICES ASSUME NEW i \in 0..n PROVE w[i] = IF i = 0 THEN <<>> ELSE IF i \in S THEN Append(w[i - 1], i) ELSE w[i - 1]
    OBVIOUS
  <2>1. CASE i = 0  BY <1>3, <2>1
  <2>2. CASE i # 0
    <3>1. i \in 1..n /\ w[i - 1] \in Seq(Nat) /\ w[i] = step[i][w[i - 1]]  BY <1>3, <1>4, <2>2
    <3> QED BY <1>2, <2>2, <3>1
  <2> QED BY <2>1, <2>2
<1>6. w = Body(w)  BY <1>5
<1>7. upto = Body(upto)  BY <1>6
<1>8. \A i \in 0..n : upto[i] = IF i = 0 THEN <<>> ELSE IF i \in S THEN Append(upto[i - 1], i) ELSE upto[i - 1]  BY <1>7
<1> HIDE DEF upto
<1>9. \A i \in 0..n : upto[i] = w[i]
  <2> DEFINE G == {i \in 0..n : upto[i] = w[i]}
  <2>1. 0 \in G  BY <1>5, <1>8
  <2>2. ASSUME NEW i \in 1..n, i - 1 \in G PROVE i \in G
    <3>1. i \in 0..n /\ i # 0 /\ upto[i - 1] = w[i - 1]  BY <2>2
    <3> QED BY <1>5, <1>8, <3>1
  <2>3. \A i \in 0..n : i \in G
    <3> HIDE DEF G
    <3> QED BY <2>1, <2>2, PlaceByPlace
  <2> QED BY <2>3
<1>10. Scan(S, n, w)
  <2>1. \A i \in 1..n : i \in 0..n /\ i # 0  OBVIOUS
  <2> QED BY <1>3, <1>5, <2>1 DEF Scan
<1>11. n \in 0..n  OBVIOUS
<1> QED BY <1>1, <1>9, <1>10, <1>11

Agree(S, T, n) == \A i \in 1..n : i \in S <=> i \in T

\* Two scans agree as far as the places they look for agree.
LEMMA ScansAgree ==
  ASSUME NEW S, NEW T, NEW n \in Nat, NEW u, NEW v, Scan(S, n, u), Scan(T, n, v), Agree(S, T, n)
  PROVE  u[n] = v[n]
<1> DEFINE G == {i \in 0..n : u[i] = v[i]}
<1>1. 0 \in G  BY DEF Scan
<1>2. ASSUME NEW i \in 1..n, i - 1 \in G PROVE i \in G
  <2>1. i \in 0..n /\ u[i - 1] = v[i - 1]  BY <1>2
  <2> QED BY <2>1 DEF Scan, Agree
<1>3. n \in 0..n  OBVIOUS
<1>4. n \in G
  <2> HIDE DEF G
  <2> QED BY <1>1, <1>2, <1>3, PlaceByPlace
<1> QED BY <1>4

\* The next place.
LEMMA ChosenNext ==
  ASSUME NEW S, NEW T, NEW n \in Nat, Agree(S, T, n)
  PROVE  /\ Chosen(S, 0) = <<>> /\ Chosen(S, n) \in Seq(Nat)
         /\ Chosen(S, n + 1) = IF n + 1 \in S THEN Append(Chosen(T, n), n + 1) ELSE Chosen(T, n)
<1>0. n + 1 \in Nat  OBVIOUS
<1>1. PICK u \in [0..(n + 1) -> Seq(Nat)] : Scan(S, n + 1, u) /\ Chosen(S, n + 1) = u[n + 1]
  <2> DEFINE m == n + 1
  <2> HIDE DEF m
  <2>1. \E u \in [0..m -> Seq(Nat)] : Scan(S, m, u) /\ Chosen(S, m) = u[m]  BY <1>0, ChosenScans DEF m
  <2> QED BY <2>1 DEF m
<1>2. PICK v \in [0..n -> Seq(Nat)] : Scan(T, n, v) /\ Chosen(T, n) = v[n]  BY ChosenScans
<1>3. PICK w \in [0..n -> Seq(Nat)] : Scan(S, n, w) /\ Chosen(S, n) = w[n]  BY ChosenScans
<1>4. Scan(S, n, u)  BY <1>1 DEF Scan
<1>5. u[n] = v[n]  BY <1>2, <1>4, ScansAgree
<1>6. u[n + 1] = IF n + 1 \in S THEN Append(u[n], n + 1) ELSE u[n]
  <2>1. n + 1 \in 1..(n + 1) /\ (n + 1) - 1 = n  OBVIOUS
  <2> QED BY <1>1, <2>1 DEF Scan
<1>7. PICK z \in [0..0 -> Seq(Nat)] : Scan(S, 0, z) /\ Chosen(S, 0) = z[0]  BY ChosenScans
<1>8. Chosen(S, 0) = <<>>  BY <1>7 DEF Scan
<1>9. w[n] \in Seq(Nat)
  <2>1. n \in 0..n  OBVIOUS
  <2> QED BY <1>3, <2>1
<1> QED BY <1>1, <1>2, <1>3, <1>5, <1>6, <1>8, <1>9

\* A scan finds all of the set and nothing else, in order.
Lists(e, S, n) ==
  /\ e \in Seq(Nat) /\ \A i \in 1..Len(e) : e[i] \in S /\ e[i] \in 1..n
  /\ \A i, j \in 1..Len(e) : i < j => e[i] < e[j]
  /\ \A k \in 1..n : k \in S => \E i \in 1..Len(e) : e[i] = k
LEMMA ChosenLists == ASSUME NEW S, NEW n \in Nat PROVE Lists(Chosen(S, n), S, n)
<1> DEFINE G == {i \in 0..n : Lists(Chosen(S, i), S, i)}
<1>1. 0 \in G
  <2>1. Chosen(S, 0) = <<>>
    <3>1. Agree(S, S, 0)  BY DEF Agree
    <3> QED BY <3>1, ChosenNext
  <2>2. Lists(<<>>, S, 0)  BY EmptySeq DEF Lists
  <2> QED BY <2>1, <2>2
<1>2. ASSUME NEW m \in 1..n, m - 1 \in G PROVE m \in G
  <2> DEFINE e == Chosen(S, m - 1)
             d == Chosen(S, m)
  <2>1. Lists(e, S, m - 1) /\ m - 1 \in Nat /\ (m - 1) + 1 = m  BY <1>2
  <2>2. d = IF m \in S THEN Append(e, m) ELSE e
    <3> DEFINE p == m - 1
    <3>1. Agree(S, S, p)  BY DEF Agree
    <3>2. p \in Nat /\ p + 1 = m /\ e = Chosen(S, p)  BY <2>1
    <3> HIDE DEF p
    <3>3. Chosen(S, p + 1) = IF p + 1 \in S THEN Append(Chosen(S, p), p + 1) ELSE Chosen(S, p)
      BY <3>1, <3>2, ChosenNext
    <3> QED BY <3>2, <3>3
  <2> HIDE DEF e, d
  <2>3. e \in Seq(Nat) /\ Len(e) \in Nat /\ \A i \in 1..Len(e) : e[i] \in S /\ e[i] \in 1..(m - 1)
    BY <2>1, LenProperties DEF Lists
  <2>4. CASE m \notin S
    <3>1. \A i \in 1..Len(e) : e[i] \in 1..m  BY <2>3
    <3>2. \A k \in 1..m : k \in S => k \in 1..(m - 1)  BY <2>4
    <3>3. Lists(e, S, m)  BY <2>1, <3>1, <3>2 DEF Lists
    <3> QED BY <2>2, <2>4, <3>3 DEF d
  <2>5. CASE m \in S
    <3>1. /\ d \in Seq(Nat) /\ Len(d) = Len(e) + 1 /\ d[Len(e) + 1] = m
          /\ \A i \in 1..Len(e) : d[i] = e[i]
      BY <2>2, <2>3, <2>5, AppendProperties
    <3>2. \A i \in 1..Len(d) : d[i] \in S /\ d[i] \in 1..m
      <4>1. \A i \in 1..Len(d) : i = Len(e) + 1 \/ i \in 1..Len(e)  BY <2>3, <3>1
      <4>2. m \in 1..m /\ \A k \in 1..(m - 1) : k \in 1..m  OBVIOUS
      <4>3. \A i \in 1..Len(e) : d[i] \in S /\ d[i] \in 1..m  BY <2>3, <3>1, <4>2
      <4>4. d[Len(e) + 1] \in S /\ d[Len(e) + 1] \in 1..m  BY <2>5, <3>1, <4>2
      <4> QED BY <4>1, <4>3, <4>4
    <3>3. ASSUME NEW i \in 1..Len(d), NEW j \in 1..Len(d), i < j PROVE d[i] < d[j]
      <4>1. i \in 1..Len(e)
        <5>1. Len(e) \in Nat /\ Len(d) = Len(e) + 1  BY <2>3, <3>1
        <5> QED BY <3>3, <5>1
      <4>2. CASE j \in 1..Len(e)  BY <2>1, <3>1, <3>3, <4>1, <4>2 DEF Lists
      <4>3. CASE j = Len(e) + 1
        <5>1. d[i] \in 1..(m - 1) /\ d[j] = m  BY <2>3, <3>1, <4>1, <4>3
        <5> QED BY <5>1
      <4> QED BY <2>3, <3>1, <4>2, <4>3
    <3>4. ASSUME NEW k \in 1..m, k \in S PROVE \E i \in 1..Len(d) : d[i] = k
      <4>1. CASE k = m
        <5>1. Len(e) + 1 \in 1..Len(d)  BY <2>3, <3>1
        <5> QED BY <3>1, <4>1, <5>1
      <4>2. CASE k # m
        <5>1. k \in 1..(m - 1)  BY <4>2
        <5>2. PICK i \in 1..Len(e) : e[i] = k  BY <2>1, <3>4, <5>1 DEF Lists
        <5>3. i \in 1..Len(d)  BY <2>3, <3>1
        <5> QED BY <3>1, <5>2, <5>3
      <4> QED BY <4>1, <4>2
    <3>5. Lists(d, S, m)  BY <3>1, <3>2, <3>3, <3>4 DEF Lists
    <3> QED BY <3>5 DEF d
  <2> QED BY <2>4, <2>5
<1>3. n \in 0..n  OBVIOUS
<1>4. n \in G
  <2> HIDE DEF G
  <2> QED BY <1>1, <1>2, <1>3, PlaceByPlace
<1> QED BY <1>4

-----------------------------------------------------------------------------
(* The failure journal                                                     *)

JournalLine == [id : Nat, nl : BOOLEAN]
Entries(s) == s \in Seq(Nat) /\ \A i \in 1..Len(s) : s[i] > 0
Marks == {"idle", "append", "truncate", "rewrite"}
RecordOK(r) == /\ r = [pc |-> r.pc, id |-> r.id, kept |-> r.kept] /\ r.pc \in Marks /\ r.id \in Nat /\ Entries(r.kept)
               /\ r.pc = "append" => r.id > 0

\* The failures recorded after the first of s are the newest of those read, up to the limit.
Recalls(s, read) ==
  \A j \in 0..(JournalLimit - 1) : j < Len(s) - 1 => j < Len(read) /\ read[Len(read) - j] = s[Len(s) - j]

\* One goroutine compacts at a time.  Between calls, and while the journal is compacted, what
\* was recorded since the last fault can be read: in the journal, or in what is to be written.
Compacts(r) == r.pc \in {"truncate", "rewrite"}
JournalType ==
  /\ journal \in Seq(JournalLine) /\ Entries(since) /\ made \in Nat
  /\ DOMAIN rec = Operations /\ rec = [g \in Operations |-> rec[g]] /\ \A g \in Operations : RecordOK(rec[g])
Readable == since # <<>> => Terminated(journal) /\ Recalls(since, ReadLocked(journal))
JournalInv ==
  /\ JournalType
  /\ \A g, h \in Operations : Compacts(rec[g]) /\ Compacts(rec[h]) => g = h
  /\ \A g \in Operations : /\ rec[g].pc = "truncate" => Readable
                           /\ rec[g].pc = "rewrite" => (since # <<>> => Recalls(since, rec[g].kept))
  /\ JournalFree => Readable

\* What is read of a journal is what its lines decode to; a whole line more is an entry more.
LEMMA ReadEntries ==
  ASSUME NEW lines \in Seq(JournalLine) PROVE Entries(ReadLocked(lines))
<1> DEFINE S == {i \in DOMAIN lines : lines[i].id > 0}
           d == Chosen(S, Len(lines))
<1>1. Len(lines) \in Nat /\ DOMAIN lines = 1..Len(lines) /\ \A i \in 1..Len(lines) : lines[i].id \in Nat
  <2>1. Len(lines) \in Nat /\ DOMAIN lines = 1..Len(lines)  BY LenProperties
  <2>2. \A i \in 1..Len(lines) : lines[i] \in JournalLine  BY ElementOfSeq
  <2> QED BY <2>1, <2>2 DEF JournalLine
<1>2. ReadLocked(lines) = [n \in DOMAIN d |-> lines[d[n]].id]  BY DEF ReadLocked
<1>3. Lists(d, S, Len(lines))
  <2> HIDE DEF S
  <2> QED BY <1>1, ChosenLists
<1> HIDE DEF d
<1>4. d \in Seq(Nat) /\ Len(d) \in Nat /\ DOMAIN d = 1..Len(d)  BY <1>3, LenProperties DEF Lists
<1>5. \A n \in 1..Len(d) : lines[d[n]].id \in Nat /\ lines[d[n]].id > 0  BY <1>1, <1>3 DEF Lists
<1>6. ReadLocked(lines) \in [1..Len(d) -> Nat]  BY <1>2, <1>4, <1>5
<1>7. ReadLocked(lines) \in Seq(Nat) /\ Len(ReadLocked(lines)) = Len(d)  BY <1>4, <1>6, IsASeq
<1> QED BY <1>2, <1>4, <1>5, <1>7 DEF Entries

LEMMA ReadAppended ==
  ASSUME NEW lines \in Seq(JournalLine), NEW id \in Nat, id > 0
  PROVE  ReadLocked(Append(lines, Line(id, TRUE))) = Append(ReadLocked(lines), id)
<1> DEFINE more == Append(lines, Line(id, TRUE))
           n == Len(lines)
           S == {i \in DOMAIN lines : lines[i].id > 0}
           T == {i \in DOMAIN more : more[i].id > 0}
           d == Chosen(S, n)
           e == Chosen(T, n + 1)
<1>1. n \in Nat /\ DOMAIN lines = 1..n /\ Line(id, TRUE) \in JournalLine /\ Line(id, TRUE).id = id
  BY LenProperties DEF JournalLine, Line
<1>2. /\ Len(more) = n + 1 /\ DOMAIN more = 1..(n + 1) /\ more[n + 1].id = id
      /\ \A i \in 1..n : more[i] = lines[i]
  <2>1. /\ more \in Seq(JournalLine) /\ Len(more) = n + 1 /\ more[n + 1] = Line(id, TRUE)
        /\ \A i \in 1..n : more[i] = lines[i]
    <3> DEFINE l == Line(id, TRUE)
               a == Append(lines, l)
    <3>1. l \in JournalLine  BY <1>1
    <3> HIDE DEF l
    <3>2. /\ a \in Seq(JournalLine) /\ Len(a) = Len(lines) + 1 /\ a[Len(lines) + 1] = l
          /\ \A i \in 1..Len(lines) : a[i] = lines[i]
      BY <3>1, AppendProperties
    <3> HIDE DEF a
    <3>3. more = a  BY DEF a, l
    <3> QED BY <3>2, <3>3 DEF l
  <2>2. DOMAIN more = 1..Len(more)  BY <2>1, LenProperties
  <2>3. more[n + 1].id = id  BY <1>1, <2>1
  <2> HIDE DEF more, n
  <2>4. Len(more) = n + 1 /\ \A i \in 1..n : more[i] = lines[i]  BY <2>1
  <2>5. DOMAIN more = 1..(n + 1)  BY <2>2, <2>4
  <2> QED BY <2>3, <2>4, <2>5
<1> HIDE DEF more
<1>3. Agree(T, S, n) /\ n + 1 \in T  BY <1>1, <1>2 DEF Agree
<1>4. ReadLocked(lines) = [i \in DOMAIN d |-> lines[d[i]].id] /\ ReadLocked(more) = [i \in DOMAIN e |-> more[e[i]].id]
  BY <1>1, <1>2 DEF ReadLocked
<1> HIDE DEF S, T
<1>5. e = Append(d, n + 1)  BY <1>1, <1>3, ChosenNext
<1>6. Lists(d, S, n)  BY <1>1, ChosenLists
<1> HIDE DEF d, e
<1>7. d \in Seq(Nat) /\ Len(d) \in Nat /\ DOMAIN d = 1..Len(d) /\ \A i \in 1..Len(d) : d[i] \in 1..n
  BY <1>6, LenProperties DEF Lists
<1>8. /\ DOMAIN e = 1..(Len(d) + 1) /\ e[Len(d) + 1] = n + 1
      /\ \A i \in 1..Len(d) : e[i] = d[i]
  BY <1>1, <1>5, <1>7, AppendProperties, LenProperties
<1>9. Entries(ReadLocked(lines))  BY ReadEntries
<1>10. Len(ReadLocked(lines)) = Len(d)
  <2>1. ReadLocked(lines) \in Seq(Nat) /\ DOMAIN ReadLocked(lines) = 1..Len(d)  BY <1>4, <1>7, <1>9 DEF Entries
  <2>2. Len(ReadLocked(lines)) \in Nat /\ DOMAIN ReadLocked(lines) = 1..Len(ReadLocked(lines))  BY <2>1, LenProperties
  <2> QED BY <1>7, <2>1, <2>2
<1> DEFINE a == Append(ReadLocked(lines), id)
<1>11. /\ a = [i \in 1..(Len(d) + 1) |-> a[i]] /\ a[Len(d) + 1] = id
       /\ \A i \in 1..Len(d) : a[i] = ReadLocked(lines)[i]
  <2>1. a \in Seq(Nat) /\ Len(a) = Len(d) + 1  BY <1>9, <1>10, AppendProperties DEF Entries
  <2>2. a = [i \in 1..Len(a) |-> a[i]]
    <3> HIDE DEF a
    <3> QED BY <2>1
  <2> QED BY <1>9, <1>10, <2>1, <2>2, AppendProperties DEF Entries
<1> HIDE DEF a
<1>12. \A i \in 1..(Len(d) + 1) : more[e[i]].id = a[i]
  <2>1. \A i \in 1..Len(d) : more[e[i]].id = a[i]
    <3>1. \A i \in 1..Len(d) : more[e[i]] = lines[d[i]]  BY <1>2, <1>7, <1>8
    <3>2. \A i \in 1..Len(d) : ReadLocked(lines)[i] = lines[d[i]].id  BY <1>4, <1>7
    <3> QED BY <1>11, <3>1, <3>2
  <2>2. more[e[Len(d) + 1]].id = a[Len(d) + 1]  BY <1>2, <1>8, <1>11
  <2>3. \A i \in 1..(Len(d) + 1) : i \in 1..Len(d) \/ i = Len(d) + 1  BY <1>7
  <2> QED BY <2>1, <2>2, <2>3
<1>13. ReadLocked(more) = a
  <2>1. ReadLocked(more) = [i \in 1..(Len(d) + 1) |-> more[e[i]].id]  BY <1>4, <1>8
  <2> QED BY <1>11, <1>12, <2>1
<1> QED BY <1>13 DEF a, more

Counts(c, n) == c \in Seq(Nat) /\ Len(c) = n /\ \A i \in 1..n : c[i] = i

\* A compacted journal reads as what was kept.
LEMMA ReadWhole ==
  ASSUME NEW ids, Entries(ids) PROVE ReadLocked(Whole(ids)) = ids /\ Whole(ids) \in Seq(JournalLine) /\ Terminated(Whole(ids))
<1> DEFINE N == Len(ids)
           lines == Whole(ids)
           S == {i \in DOMAIN lines : lines[i].id > 0}
           G == {n \in 0..N : Counts(Chosen(S, n), n)}
<1>1. N \in Nat /\ ids \in Seq(Nat) /\ DOMAIN ids = 1..N /\ ids = [i \in 1..N |-> ids[i]] /\ \A i \in 1..N : ids[i] \in Nat /\ ids[i] > 0
  <2>1. ids \in Seq(Nat)  BY DEF Entries
  <2>2. N \in Nat /\ DOMAIN ids = 1..N  BY <2>1, LenProperties
  <2>3. ids = [i \in 1..N |-> ids[i]]  BY <2>1, <2>2
  <2>4. \A i \in 1..N : ids[i] \in Nat  BY <2>1, <2>2, ElementOfSeq
  <2> QED BY <2>1, <2>2, <2>3, <2>4 DEF Entries
<1>2. lines = [i \in 1..N |-> [id |-> ids[i], nl |-> TRUE]]  BY <1>1 DEF Whole, Line
<1>3. lines \in [1..N -> JournalLine]  BY <1>1, <1>2 DEF JournalLine
<1>4. lines \in Seq(JournalLine) /\ Len(lines) = N /\ DOMAIN lines = 1..N  BY <1>1, <1>3, IsASeq
<1>5. \A i \in 1..N : lines[i].id = ids[i] /\ lines[i].nl = TRUE  BY <1>2
<1> HIDE DEF lines, N
<1>6. \A i \in 1..N : i \in S  BY <1>1, <1>4, <1>5
<1>7. ReadLocked(lines) = [n \in DOMAIN Chosen(S, N) |-> lines[Chosen(S, N)[n]].id]  BY <1>4 DEF ReadLocked
<1> HIDE DEF S
<1>8. 0 \in G
  <2>1. Agree(S, S, 0)  BY DEF Agree
  <2>2. Chosen(S, 0) = <<>>  BY <2>1, ChosenNext
  <2>3. Counts(<<>>, 0)  BY EmptySeq DEF Counts
  <2> QED BY <1>1, <2>2, <2>3
<1>9. ASSUME NEW n \in 1..N, n - 1 \in G PROVE n \in G
  <2> DEFINE m == n - 1
             c == Chosen(S, m)
             a == Append(c, n)
  <2>1. m \in Nat /\ m + 1 = n /\ Counts(c, m) /\ n \in Nat /\ n \in 0..N  BY <1>1, <1>9
  <2>2. Agree(S, S, m)  BY DEF Agree
  <2> HIDE DEF m
  <2>3. Chosen(S, m + 1) = a  BY <1>6, <2>1, <2>2, ChosenNext
  <2> HIDE DEF c
  <2>4. /\ a \in Seq(Nat) /\ Len(a) = n /\ a[n] = n
        /\ \A i \in 1..m : a[i] = c[i]
    BY <2>1, AppendProperties DEF Counts
  <2>5. \A i \in 1..n : i = n \/ i \in 1..m  BY <1>1, <2>1
  <2> HIDE DEF a
  <2>6. Counts(a, n)  BY <2>1, <2>4, <2>5 DEF Counts
  <2> QED BY <2>1, <2>3, <2>6
<1>10. Counts(Chosen(S, N), N)
  <2>1. N \in 0..N  BY <1>1
  <2>2. N \in G
    <3> HIDE DEF G
    <3> QED BY <1>1, <1>8, <1>9, <2>1, PlaceByPlace
  <2> QED BY <2>2
<1>11. ReadLocked(lines) = [i \in 1..N |-> ids[i]]
  <2> DEFINE c == Chosen(S, N)
  <2>1. ReadLocked(lines) = [i \in DOMAIN c |-> lines[c[i]].id]  BY <1>7
  <2> HIDE DEF c
  <2>2. c \in Seq(Nat) /\ Len(c) = N /\ \A i \in 1..N : c[i] = i  BY <1>10 DEF c, Counts
  <2>3. DOMAIN c = 1..N  BY <2>2, LenProperties
  <2> QED BY <1>5, <2>1, <2>2, <2>3
<1>12. Terminated(lines)
  <2>1. CASE N = 0  BY <1>4, <2>1 DEF Terminated
  <2>2. CASE N # 0
    <3>1. N \in 1..N  BY <1>1, <2>2
    <3> QED BY <1>4, <1>5, <3>1 DEF Terminated
  <2> QED BY <2>1, <2>2
<1> QED BY <1>1, <1>4, <1>11, <1>12 DEF lines

\* A line appended, and what an interrupted write may leave.
LEMMA AppendedLines ==
  ASSUME NEW lines \in Seq(JournalLine), NEW l \in JournalLine
  PROVE  /\ Appended(lines, l) \in Seq(JournalLine) /\ (l.nl => Terminated(Appended(lines, l)))
         /\ Terminated(lines) => Appended(lines, l) = Append(lines, l)
<1>1. Len(lines) \in Nat  BY LenProperties
<1>2. ASSUME NEW s \in Seq(JournalLine), NEW x \in JournalLine
      PROVE  Append(s, x) \in Seq(JournalLine) /\ (x.nl => Terminated(Append(s, x)))
  <2>1. /\ Append(s, x) \in Seq(JournalLine) /\ Len(Append(s, x)) = Len(s) + 1
        /\ Append(s, x)[Len(s) + 1] = x
    BY <1>2, AppendProperties
  <2> QED BY <2>1 DEF Terminated
<1>3. CASE Terminated(lines)  BY <1>2, <1>3 DEF Appended
<1>4. CASE ~Terminated(lines)
  <2>1. Len(lines) - 1 \in Int /\ \A i \in 1..(Len(lines) - 1) : lines[i] \in JournalLine  BY <1>1, ElementOfSeq
  <2>2. Front(lines) \in Seq(JournalLine)  BY <2>1, SubSeqProperties DEF Front
  <2>3. Line(0, l.nl) \in JournalLine /\ Line(0, l.nl).nl = l.nl  BY DEF Line, JournalLine
  <2>4. Appended(lines, l) = Append(Front(lines), Line(0, l.nl))  BY <1>4 DEF Appended
  <2> QED BY <1>2, <1>4, <2>2, <2>3, <2>4
<1> QED BY <1>3, <1>4

LEMMA InterruptedLines ==
  ASSUME NEW lines \in Seq(JournalLine), NEW id \in Nat PROVE Interrupted(lines, id) \subseteq Seq(JournalLine)
<1>1. Line(0, FALSE) \in JournalLine /\ Line(id, FALSE) \in JournalLine  BY DEF Line, JournalLine
<1> QED BY <1>1, AppendedLines DEF Interrupted

LEMMA RewrittenLines ==
  ASSUME NEW kept, Entries(kept) PROVE Rewritten(kept) \subseteq Seq(JournalLine)
<1>1. kept \in Seq(Nat) /\ Len(kept) \in Nat  BY LenProperties DEF Entries
<1> SUFFICES ASSUME NEW i \in 0..(Len(kept) - 1) PROVE Interrupted(Whole(SubSeq(kept, 1, i)), kept[i + 1]) \subseteq Seq(JournalLine)
  BY DEF Rewritten
<1> DEFINE s == SubSeq(kept, 1, i)
<1>2. i \in 0..Len(kept) /\ i + 1 \in 1..Len(kept)  BY <1>1
<1>3. Entries(s) /\ kept[i + 1] \in Nat
  <2>1. \A j \in 1..i : kept[j] \in Nat /\ kept[j] > 0  BY <1>1, <1>2, ElementOfSeq DEF Entries
  <2>2. s \in [1..i -> Nat] /\ \A j \in 1..i : s[j] = kept[j]
    <3>1. /\ SubSeq(kept, 1, i) \in Seq(Nat) /\ Len(SubSeq(kept, 1, i)) = (IF 1 <= i THEN i - 1 + 1 ELSE 0)
          /\ \A j \in 1..(i - 1 + 1) : SubSeq(kept, 1, i)[j] = kept[1 + j - 1]
      BY <1>2, <2>1, SubSeqProperties
    <3>2. Len(s) = i /\ s \in Seq(Nat)  BY <1>2, <3>1
    <3>3. \A j \in 1..i : 1 + j - 1 = j /\ j \in 1..(i - 1 + 1)  BY <1>2
    <3>4. DOMAIN s = 1..i /\ s = [j \in 1..i |-> s[j]]  BY <3>2
    <3> HIDE DEF s
    <3> QED BY <2>1, <3>1, <3>3, <3>4 DEF s
  <2>3. s \in Seq(Nat) /\ Len(s) = i
    <3> HIDE DEF s
    <3> QED BY <1>2, <2>2, IsASeq
  <2> HIDE DEF s
  <2> QED BY <1>1, <1>2, <2>1, <2>2, <2>3, ElementOfSeq DEF Entries
<1> HIDE DEF s
<1>4. Whole(s) \in Seq(JournalLine)  BY <1>3, ReadWhole
<1> QED BY <1>3, <1>4, InterruptedLines DEF s

\* How many are kept.
LEMMA NewestCounts ==
  ASSUME NEW s \in Seq(Nat), NEW n \in Nat
  PROVE  Len(Newest(s, n)) = IF Len(s) > n THEN n ELSE Len(s)
<1>1. Len(s) \in Nat  BY LenProperties
<1>2. CASE Len(s) > n
  <2> DEFINE k == Len(s) - n + 1
  <2>1. k \in Int /\ k \in 1..(Len(s) + 1) /\ Len(s) - k + 1 = n  BY <1>1, <1>2
  <2>2. \A i \in k..Len(s) : s[i] \in Nat
    <3>1. \A i \in k..Len(s) : i \in 1..Len(s)  BY <1>1, <2>1
    <3> QED BY <3>1, ElementOfSeq
  <2>3. Newest(s, n) = SubSeq(s, k, Len(s))  BY <1>2 DEF Newest
  <2> HIDE DEF k
  <2>4. Len(SubSeq(s, k, Len(s))) = IF k <= Len(s) THEN Len(s) - k + 1 ELSE 0  BY <1>1, <2>1, <2>2, SubSeqProperties
  <2> QED BY <1>1, <1>2, <2>1, <2>3, <2>4
<1>3. CASE ~(Len(s) > n)  BY <1>3 DEF Newest
<1> QED BY <1>2, <1>3

\* What is kept of some entries recalls what they do.
LEMMA KeptRecalls ==
  ASSUME NEW s, Entries(s), NEW read, Entries(read)
  PROVE  Entries(Newest(read, JournalLimit)) /\ (Recalls(s, read) => Recalls(s, Newest(read, JournalLimit)))
<1> DEFINE new == Newest(read, JournalLimit)
<1>1. read \in Seq(Nat) /\ Len(read) \in Nat /\ JournalLimit \in Nat \ {0} /\ Len(s) \in Nat
  BY RecordsOK, LenProperties DEF Entries
<1>2. /\ new \in Seq(Nat) /\ Len(new) \in Nat /\ Len(new) <= Len(read)
      /\ \A i \in 1..Len(new) : new[i] = read[Len(read) - Len(new) + i]
  BY <1>1, NewestIsTheEnd, LenProperties
<1>3. Len(new) = IF Len(read) > JournalLimit THEN JournalLimit ELSE Len(read)  BY <1>1, NewestCounts
<1> HIDE DEF new
<1>4. Entries(new)
  <2>1. \A i \in 1..Len(new) : Len(read) - Len(new) + i \in 1..Len(read)  BY <1>1, <1>2
  <2> QED BY <1>2, <2>1 DEF Entries
<1>5. ASSUME Recalls(s, read), NEW j \in 0..(JournalLimit - 1), j < Len(s) - 1
      PROVE  j < Len(new) /\ new[Len(new) - j] = s[Len(s) - j]
  <2>1. j < Len(read) /\ read[Len(read) - j] = s[Len(s) - j]  BY <1>5 DEF Recalls
  <2>2. j < Len(new)  BY <1>1, <1>3, <2>1
  <2>3. Len(new) - j \in 1..Len(new) /\ Len(read) - Len(new) + (Len(new) - j) = Len(read) - j  BY <1>1, <1>2, <2>2
  <2>4. new[Len(new) - j] = read[Len(read) - Len(new) + (Len(new) - j)]  BY <1>2, <2>3
  <2> QED BY <2>1, <2>2, <2>3, <2>4
<1>6. Recalls(s, read) => Recalls(s, new)  BY <1>5 DEF Recalls
<1> QED BY <1>4, <1>6 DEF new

\* An entry more in both.
LEMMA RecallsMore ==
  ASSUME NEW s, Entries(s), NEW read, Entries(read), NEW id \in Nat, id > 0, Recalls(s, read)
  PROVE  Recalls(Append(s, id), Append(read, id))
<1>1. s \in Seq(Nat) /\ Len(s) \in Nat /\ read \in Seq(Nat) /\ Len(read) \in Nat /\ JournalLimit \in Nat \ {0}
  BY RecordsOK, LenProperties DEF Entries
<1>2. /\ Len(Append(s, id)) = Len(s) + 1 /\ Append(s, id)[Len(s) + 1] = id /\ \A i \in 1..Len(s) : Append(s, id)[i] = s[i]
      /\ Len(Append(read, id)) = Len(read) + 1 /\ Append(read, id)[Len(read) + 1] = id
      /\ \A i \in 1..Len(read) : Append(read, id)[i] = read[i]
  BY <1>1, AppendProperties
<1> DEFINE t == Append(s, id)
           more == Append(read, id)
<1> HIDE DEF t, more
<1>3. ASSUME NEW j \in 0..(JournalLimit - 1), j < Len(s) PROVE j < Len(read) + 1 /\ more[Len(read) + 1 - j] = t[Len(s) + 1 - j]
  <2>1. CASE j = 0
    <3>1. Len(read) + 1 - j = Len(read) + 1 /\ Len(s) + 1 - j = Len(s) + 1 /\ j < Len(read) + 1  BY <1>1, <2>1
    <3> QED BY <1>2, <3>1 DEF t, more
  <2>2. CASE j # 0
    <3>1. j - 1 \in 0..(JournalLimit - 1) /\ j - 1 < Len(s) - 1  BY <1>1, <1>3, <2>2
    <3>2. j - 1 < Len(read) /\ read[Len(read) - (j - 1)] = s[Len(s) - (j - 1)]  BY <3>1 DEF Recalls
    <3>3. /\ Len(read) - (j - 1) = Len(read) + 1 - j /\ Len(s) - (j - 1) = Len(s) + 1 - j
          /\ Len(read) + 1 - j \in 1..Len(read) /\ Len(s) + 1 - j \in 1..Len(s) /\ j < Len(read) + 1
      BY <1>1, <1>3, <2>2, <3>2
    <3>4. more[Len(read) + 1 - j] = read[Len(read) + 1 - j] /\ t[Len(s) + 1 - j] = s[Len(s) + 1 - j]
      BY <1>2, <3>3 DEF t, more
    <3> QED BY <3>2, <3>3, <3>4
  <2> QED BY <2>1, <2>2
<1>4. \A j \in 0..(JournalLimit - 1) : j < Len(t) - 1 => j < Len(s)  BY <1>1, <1>2 DEF t
<1> QED BY <1>2, <1>3, <1>4 DEF Recalls, t, more

LEMMA JournalSteps == ASSUME JournalInv, [Next]_vars PROVE JournalInv'
<1>0. /\ journal \in Seq(JournalLine) /\ Entries(since) /\ made \in Nat
      /\ DOMAIN rec = Operations /\ rec = [g \in Operations |-> rec[g]] /\ \A g \in Operations : RecordOK(rec[g])
      /\ \A g, h \in Operations : Compacts(rec[g]) /\ Compacts(rec[h]) => g = h
      /\ \A g \in Operations : /\ rec[g].pc = "truncate" => Readable
                               /\ rec[g].pc = "rewrite" => (since # <<>> => Recalls(since, rec[g].kept))
      /\ JournalFree => Readable
  BY DEF JournalInv, JournalType
<1>e. Entries(<<>>)  BY EmptySeq DEF Entries
<1>i. RecordOK(Idle) /\ Idle.pc = "idle"  BY <1>e DEF RecordOK, Idle, Marks
<1>1. ASSUME UNCHANGED <<journal, rec, since>>, made' \in Nat PROVE JournalInv'
  BY <1>1 DEF JournalInv, JournalType, Readable, JournalFree
\* One operation goes on.
<1>2. ASSUME NEW g \in Operations, NEW r, RecordOK(r), rec' = [rec EXCEPT ![g] = r]
      PROVE  /\ DOMAIN rec' = Operations /\ rec' = [h \in Operations |-> rec'[h]] /\ rec'[g] = r
             /\ \A h \in Operations : RecordOK(rec'[h]) /\ (h # g => rec'[h] = rec[h])
  BY <1>0, <1>2
<1>3. ASSUME NEW g \in Operations, NEW success \in BOOLEAN, Audit(g, success) PROVE JournalInv'
  <2> DEFINE r == IF success THEN Idle ELSE [Idle EXCEPT !.pc = "append", !.id = made + 1]
  <2>1. /\ rec[g].pc = "idle" /\ made' = made + 1 /\ UNCHANGED <<journal, since>>
        /\ rec' = [rec EXCEPT ![g] = r]
    BY <1>3 DEF Audit
  <2>2. RecordOK(r) /\ r.pc \in {"idle", "append"}
    <3> DEFINE q == [pc |-> "append", id |-> made + 1, kept |-> <<>>]
    <3>1. [Idle EXCEPT !.pc = "append", !.id = made + 1] = q
      <4> DEFINE y == [Idle EXCEPT !.pc = "append"]
      <4>1. y = [pc |-> "append", id |-> 0, kept |-> <<>>]  BY DEF Idle
      <4>2. [Idle EXCEPT !.pc = "append", !.id = made + 1] = [y EXCEPT !.id = made + 1]  OBVIOUS
      <4> HIDE DEF y
      <4> QED BY <4>1, <4>2
    <3>2. RecordOK(q)  BY <1>0, <1>e DEF RecordOK, Marks
    <3> QED BY <1>i, <3>1, <3>2
  <2> HIDE DEF r
  <2>3. /\ DOMAIN rec' = Operations /\ rec' = [h \in Operations |-> rec'[h]] /\ rec'[g] = r
        /\ \A h \in Operations : RecordOK(rec'[h]) /\ (h # g => rec'[h] = rec[h])
    BY <1>2, <2>1, <2>2
  <2>4. JournalType'  BY <1>0, <2>1, <2>3 DEF JournalType
  <2>5. JournalFree' => JournalFree  BY <2>1, <2>3 DEF JournalFree
  <2>6. Readable' = Readable  BY <2>1 DEF Readable
  <2>7. \A h \in Operations : h # g \/ rec'[h].pc \in {"idle", "append"}  BY <2>2, <2>3
  <2> QED BY <1>0, <2>1, <2>3, <2>4, <2>5, <2>6, <2>7 DEF JournalInv, Compacts
<1>4. ASSUME NEW g \in Operations, JournalRecord(g) PROVE JournalInv'
  <2> DEFINE id == rec[g].id
             r == IF NeedsCompaction(journal') THEN [rec[g] EXCEPT !.pc = "truncate"] ELSE Idle
             line == Line(id, TRUE)
  <2>1. /\ rec[g].pc = "append" /\ JournalFree /\ journal' = Appended(journal, line)
        /\ since' = Append(since, id) /\ rec' = [rec EXCEPT ![g] = r] /\ made' = made
    BY <1>4 DEF JournalRecord
  <2>2. id \in Nat /\ id > 0 /\ line \in JournalLine /\ line.nl  BY <1>0, <2>1 DEF RecordOK, Line, JournalLine
  <2>3. RecordOK(r) /\ r.pc \in {"idle", "truncate"}
    <3>1. RecordOK([rec[g] EXCEPT !.pc = "truncate"]) /\ [rec[g] EXCEPT !.pc = "truncate"].pc = "truncate"
      BY <1>0 DEF RecordOK, Marks
    <3> QED BY <1>i, <3>1
  <2> HIDE DEF r, line
  <2>4. /\ DOMAIN rec' = Operations /\ rec' = [h \in Operations |-> rec'[h]] /\ rec'[g] = r
        /\ \A h \in Operations : RecordOK(rec'[h]) /\ (h # g => rec'[h] = rec[h])
    BY <1>2, <2>1, <2>3
  <2>5. journal' \in Seq(JournalLine) /\ Terminated(journal') /\ (Terminated(journal) => journal' = Append(journal, line))
    BY <1>0, <2>1, <2>2, AppendedLines
  <2> HIDE DEF id
  <2>6. Entries(since') /\ Len(since') = Len(since) + 1 /\ Len(since) \in Nat
    <3>1. since \in Seq(Nat) /\ Len(since) \in Nat /\ \A i \in 1..Len(since) : since[i] > 0  BY <1>0, LenProperties DEF Entries
    <3>2. /\ since' \in Seq(Nat) /\ Len(since') = Len(since) + 1 /\ since'[Len(since) + 1] = id
          /\ \A i \in 1..Len(since) : since'[i] = since[i]
      BY <2>1, <2>2, <3>1, AppendProperties
    <3>3. \A i \in 1..Len(since') : i = Len(since) + 1 \/ i \in 1..Len(since)  BY <3>1, <3>2
    <3> QED BY <2>2, <3>1, <3>2, <3>3 DEF Entries
  <2>7. JournalType'  BY <1>0, <2>1, <2>4, <2>5, <2>6 DEF JournalType
  <2>8. Readable'
    <3>1. CASE since = <<>>
      <4>1. Len(since') = 1  BY <2>6, <3>1
      <4>2. \A read : Recalls(since', read)  BY <4>1 DEF Recalls
      <4> QED BY <2>5, <4>2 DEF Readable
    <3>2. CASE since # <<>>
      <4>1. Terminated(journal) /\ Recalls(since, ReadLocked(journal))  BY <1>0, <2>1, <3>2 DEF Readable
      <4>2. journal' = Append(journal, Line(id, TRUE))  BY <2>5, <4>1 DEF line
      <4>3. ReadLocked(journal') = Append(ReadLocked(journal), id)  BY <1>0, <2>2, <4>2, ReadAppended
      <4>4. Entries(ReadLocked(journal))  BY <1>0, ReadEntries
      <4>5. Recalls(since', ReadLocked(journal'))  BY <1>0, <2>1, <2>2, <4>1, <4>3, <4>4, RecallsMore
      <4> QED BY <2>5, <4>5 DEF Readable
    <3> QED BY <3>1, <3>2
  <2>9. \A h \in Operations : h # g => rec'[h].pc \in {"idle", "append"}  BY <2>1, <2>4 DEF JournalFree
  <2> QED BY <2>3, <2>4, <2>7, <2>8, <2>9 DEF JournalInv, Compacts
<1>5. ASSUME NEW g \in Operations, CompactTruncate(g) PROVE JournalInv'
  <2> DEFINE kept == Recent(journal, JournalLimit)
             r == [rec[g] EXCEPT !.pc = "rewrite", !.kept = kept]
  <2>1. /\ rec[g].pc = "truncate" /\ rec' = [rec EXCEPT ![g] = r] /\ journal' = <<>> /\ UNCHANGED <<made, since>>
    <3>1. rec' = [rec EXCEPT ![g].pc = "rewrite", ![g].kept = kept]  BY <1>5 DEF CompactTruncate
    <3> HIDE DEF kept
    <3>2. rec' = [rec EXCEPT ![g] = r]  BY <1>0, <3>1
    <3> QED BY <1>5, <3>2 DEF CompactTruncate
  <2>2. Entries(kept) /\ (since # <<>> => Recalls(since, kept))
    <3>1. Entries(ReadLocked(journal))  BY <1>0, ReadEntries
    <3>2. since # <<>> => Recalls(since, ReadLocked(journal))  BY <1>0, <2>1 DEF Readable
    <3> QED BY <1>0, <3>1, <3>2, KeptRecalls DEF Recent
  <2> HIDE DEF kept
  <2>3. RecordOK(r) /\ r.pc = "rewrite" /\ r.kept = kept
    <3>1. rec[g] = [pc |-> rec[g].pc, id |-> rec[g].id, kept |-> rec[g].kept] /\ rec[g].id \in Nat  BY <1>0 DEF RecordOK
    <3>2. r = [pc |-> "rewrite", id |-> rec[g].id, kept |-> kept]
      <4> DEFINE x == rec[g]
                 y == [x EXCEPT !.pc = "rewrite"]
      <4>1. r = [y EXCEPT !.kept = kept]  OBVIOUS
      <4>2. x = [pc |-> x.pc, id |-> x.id, kept |-> x.kept]  BY <3>1
      <4> HIDE DEF x
      <4>3. y = [pc |-> "rewrite", id |-> x.id, kept |-> x.kept]  BY <4>2
      <4> HIDE DEF y
      <4> QED BY <4>1, <4>3 DEF x
    <3> HIDE DEF r
    <3> QED BY <2>2, <3>1, <3>2 DEF RecordOK, Marks
  <2> HIDE DEF r
  <2>4. /\ DOMAIN rec' = Operations /\ rec' = [h \in Operations |-> rec'[h]] /\ rec'[g] = r
        /\ \A h \in Operations : RecordOK(rec'[h]) /\ (h # g => rec'[h] = rec[h])
    BY <1>2, <2>1, <2>3
  <2>5. JournalType'  BY <1>0, <2>1, <2>4, EmptySeq DEF JournalType
  <2>6. ~JournalFree'  BY <2>3, <2>4 DEF JournalFree
  <2>7. \A h \in Operations : h # g => ~Compacts(rec'[h])  BY <1>0, <2>1, <2>4 DEF Compacts
  <2> QED BY <2>1, <2>2, <2>3, <2>4, <2>5, <2>6, <2>7 DEF JournalInv, Compacts
<1>6. ASSUME NEW g \in Operations, CompactRewrite(g) PROVE JournalInv'
  <2>1. /\ rec[g].pc = "rewrite" /\ journal' = Whole(rec[g].kept) /\ rec' = [rec EXCEPT ![g] = Idle]
        /\ UNCHANGED <<made, since>>
    BY <1>6 DEF CompactRewrite
  <2>2. /\ DOMAIN rec' = Operations /\ rec' = [h \in Operations |-> rec'[h]] /\ rec'[g] = Idle
        /\ \A h \in Operations : RecordOK(rec'[h]) /\ (h # g => rec'[h] = rec[h])
    BY <1>2, <1>i, <2>1
  <2>3. Entries(rec[g].kept) /\ (since # <<>> => Recalls(since, rec[g].kept))  BY <1>0, <2>1 DEF RecordOK
  <2>4. ReadLocked(journal') = rec[g].kept /\ journal' \in Seq(JournalLine) /\ Terminated(journal')  BY <2>1, <2>3, ReadWhole
  <2>5. JournalType'  BY <1>0, <2>1, <2>2, <2>4 DEF JournalType
  <2>6. Readable'  BY <2>1, <2>3, <2>4 DEF Readable
  <2>7. \A h \in Operations : ~Compacts(rec'[h])  BY <1>0, <1>i, <2>1, <2>2 DEF Compacts
  <2> QED BY <2>5, <2>6, <2>7 DEF JournalInv, Compacts
\* A fault.
<1>7. ASSUME since' = <<>>, journal' \in Seq(JournalLine), made' \in Nat,
             DOMAIN rec' = Operations, rec' = [h \in Operations |-> rec'[h]], \A h \in Operations : RecordOK(rec'[h]),
             \A g, h \in Operations : Compacts(rec'[g]) /\ Compacts(rec'[h]) => g = h
      PROVE  JournalInv'
  <2>1. JournalType' /\ Readable'  BY <1>7, <1>e DEF JournalType, Readable
  <2> QED BY <1>7, <2>1 DEF JournalInv
<1>8. ASSUME NEW g \in Operations, JournalFull(g) \/ CompactFull(g) PROVE JournalInv'
  <2>1. /\ rec' = [rec EXCEPT ![g] = Idle] /\ since' = <<>> /\ made' = made
        /\ journal' \in Interrupted(journal, rec[g].id) \/ journal' \in Rewritten(rec[g].kept)
    BY <1>8 DEF JournalFull, CompactFull
  <2>2. /\ DOMAIN rec' = Operations /\ rec' = [h \in Operations |-> rec'[h]] /\ rec'[g] = Idle
        /\ \A h \in Operations : RecordOK(rec'[h]) /\ (h # g => rec'[h] = rec[h])
    BY <1>2, <1>i, <2>1
  <2>3. rec[g].id \in Nat /\ Entries(rec[g].kept)  BY <1>0 DEF RecordOK
  <2>4. journal' \in Seq(JournalLine)  BY <1>0, <2>1, <2>3, InterruptedLines, RewrittenLines
  <2>5. \A h \in Operations : Compacts(rec'[h]) => h # g /\ Compacts(rec[h])  BY <1>i, <2>2 DEF Compacts
  <2> QED BY <1>0, <1>7, <2>1, <2>2, <2>4, <2>5
<1>9. CASE Crash
  <2> DEFINE A == UNION {Interrupted(journal, rec[g].id) : g \in {h \in Operations : rec[h].pc = "append" /\ JournalFree}}
             B == UNION {Rewritten(rec[g].kept) : g \in {h \in Operations : rec[h].pc = "rewrite"}}
  <2>1. /\ rec' = [g \in Operations |-> Idle] /\ since' = <<>> /\ made' = made
        /\ journal' \in {journal} \cup A \cup B
    BY <1>9 DEF Crash
  <2>2. \A g \in Operations : rec[g].id \in Nat /\ Entries(rec[g].kept)  BY <1>0 DEF RecordOK
  <2>3. journal' \in Seq(JournalLine)
    <3>1. CASE journal' = journal  BY <1>0, <3>1
    <3>2. ASSUME NEW g \in Operations, journal' \in Interrupted(journal, rec[g].id) PROVE journal' \in Seq(JournalLine)
      BY <1>0, <2>2, <3>2, InterruptedLines
    <3>3. ASSUME NEW g \in Operations, journal' \in Rewritten(rec[g].kept) PROVE journal' \in Seq(JournalLine)
      BY <2>2, <3>3, RewrittenLines
    <3>4. CASE journal' \in A  BY <3>2, <3>4
    <3>5. CASE journal' \in B  BY <3>3, <3>5
    <3> HIDE DEF A, B
    <3> QED BY <2>1, <3>1, <3>4, <3>5
  <2>4. DOMAIN rec' = Operations /\ \A h \in Operations : rec'[h] = Idle  BY <2>1
  <2> HIDE DEF Idle
  <2>5. rec' = [h \in Operations |-> rec'[h]]  BY <2>1
  <2> QED BY <1>0, <1>7, <1>i, <2>1, <2>3, <2>4, <2>5 DEF Compacts
<1>10. CASE SubscribeAndList \/ WatchSend \/ Unsubscribe
  BY <1>0, <1>1, <1>10 DEF SubscribeAndList, WatchSend, Unsubscribe
<1>11. ASSUME UNCHANGED recordVars PROVE JournalInv'  BY <1>0, <1>1, <1>11 DEF recordVars
<1>12. ASSUME NEW nl \in BOOLEAN, Write(nl) PROVE JournalInv'  BY <1>11, <1>12 DEF Write
<1>13. CASE ServiceExits \/ ArchiveLog \/ RemoveSource \/ InitLogFile
  BY <1>11, <1>13 DEF ServiceExits, ArchiveLog, RemoveSource, InitLogFile
<1>14. CASE DeleteLogArchive \/ ClearLogArchives
  BY <1>11, <1>14 DEF DeleteLogArchive, ClearLogArchives, RemoveArchives
<1>15. CASE WatchLogs \/ FollowPoll \/ FollowEnds  BY <1>11, <1>15 DEF WatchLogs, FollowPoll, FollowEnds
<1>16. CASE UNCHANGED vars  BY <1>11, <1>16 DEF vars
<1> QED BY <1>3, <1>4, <1>5, <1>6, <1>8, <1>9, <1>10, <1>12, <1>13, <1>14, <1>15, <1>16 DEF Next

-----------------------------------------------------------------------------
(* Following a log                                                         *)

\* x is what data has after its first a cells, up to b.
Cut(x, data, a, b) ==
  /\ x \in Seq(Cell) /\ a \in Nat /\ b \in Nat /\ a <= b /\ b <= Len(data)
  /\ Len(x) = b - a /\ \A i \in 1..(b - a) : x[i] = data[a + i]

LEMMA SubSeqCuts ==
  ASSUME NEW data \in Seq(Cell), NEW a \in Nat, NEW b \in Nat, a <= b, b <= Len(data)
  PROVE  Cut(SubSeq(data, a + 1, b), data, a, b)
<1> DEFINE m == a + 1
           x == SubSeq(data, m, b)
<1>1. Len(data) \in Nat /\ m \in Int /\ \A i \in m..b : i \in 1..Len(data)  BY LenProperties
<1>2. \A i \in m..b : data[i] \in Cell  BY <1>1, ElementOfSeq
<1> HIDE DEF m
<1>3. /\ x \in Seq(Cell) /\ Len(x) = (IF m <= b THEN b - m + 1 ELSE 0)
      /\ \A i \in 1..(b - m + 1) : x[i] = data[m + i - 1]
  BY <1>1, <1>2, SubSeqProperties
<1> HIDE DEF x
<1>4. Len(x) = b - a  BY <1>3 DEF m
<1>5. \A i \in 1..(b - a) : i \in 1..(b - m + 1) /\ m + i - 1 = a + i  BY DEF m
<1> QED BY <1>3, <1>4, <1>5 DEF Cut, m, x

\* Where the lines of data begin and end.
From(e, i) == IF i = 1 THEN 0 ELSE e[i - 1]
Stop(e) == IF e = <<>> THEN 0 ELSE e[Len(e)]
Splits(data, e) ==
  /\ e \in Seq(Nat) /\ Lines(data) \in Seq(Seq(Cell)) /\ Len(Lines(data)) = Len(e)
  /\ \A i \in 1..Len(e) : Cut(Lines(data)[i], data, From(e, i), e[i]) /\ e[i] <= Stop(e)
  /\ \A i, j \in 1..Len(e) : i < j => e[i] <= From(e, j)
  /\ Cut(Rest(data), data, Stop(e), Len(data))

\* The lines are cut from data one after the other, and the rest after them.
LEMMA LinesSplit == ASSUME NEW data \in Seq(Cell) PROVE Splits(data, Ends(data))
<1> DEFINE N == Len(data)
           S == {i \in DOMAIN data : data[i].nl}
           e == Ends(data)
           L == Lines(data)
<1>0. N \in Nat  BY LenProperties
<1>1. Lists(e, S, N)
  <2> HIDE DEF S, N
  <2>1. Lists(Chosen(S, N), S, N)  BY <1>0, ChosenLists
  <2> QED BY <2>1 DEF Ends, S, N
<1>2. L = [i \in DOMAIN e |-> SubSeq(data, From(e, i) + 1, e[i])]  BY DEF Lines, From
<1>3. Rest(data) = IF e = <<>> THEN data ELSE SubSeq(data, e[Len(e)] + 1, Len(data))  BY DEF Rest
<1> HIDE DEF e, L, S
<1>4. /\ e \in Seq(Nat) /\ Len(e) \in Nat /\ DOMAIN e = 1..Len(e) /\ (e # <<>> => Len(e) > 0)
      /\ \A i \in 1..Len(e) : e[i] \in 1..N
      /\ \A i, j \in 1..Len(e) : i < j => e[i] < e[j]
  BY <1>1, LenProperties, EmptySeq DEF Lists
<1>5. \A i, j \in 1..Len(e) : i < j => e[i] <= From(e, j)
  <2> SUFFICES ASSUME NEW i \in 1..Len(e), NEW j \in 1..Len(e), i < j PROVE e[i] <= e[j - 1]
    BY DEF From
  <2>1. j - 1 \in 1..Len(e) /\ (i = j - 1 \/ i < j - 1)  BY <1>4
  <2>2. CASE i = j - 1  BY <1>4, <2>1, <2>2
  <2>3. CASE i < j - 1
    <3>1. e[i] < e[j - 1] /\ e[i] \in 1..N /\ e[j - 1] \in 1..N  BY <1>4, <2>1, <2>3
    <3> QED BY <1>0, <3>1
  <2> QED BY <2>1, <2>2, <2>3
<1>6. ASSUME NEW i \in 1..Len(e) PROVE From(e, i) \in Nat /\ From(e, i) <= e[i] /\ e[i] \in Nat /\ e[i] <= N
  <2>1. e[i] \in Nat /\ e[i] <= N  BY <1>0, <1>4
  <2>2. CASE i = 1  BY <2>1, <2>2 DEF From
  <2>3. CASE i # 1
    <3>1. i - 1 \in 1..Len(e) /\ i - 1 < i  BY <1>4, <2>3
    <3>2. e[i - 1] < e[i] /\ e[i - 1] \in 1..N  BY <1>4, <3>1
    <3> QED BY <1>0, <2>1, <2>3, <3>2 DEF From
  <2> QED BY <2>2, <2>3
<1>7. ASSUME NEW i \in 1..Len(e) PROVE Cut(L[i], data, From(e, i), e[i]) /\ e[i] <= Stop(e)
  <2>1. Cut(SubSeq(data, From(e, i) + 1, e[i]), data, From(e, i), e[i])  BY <1>6, SubSeqCuts
  <2>2. L[i] = SubSeq(data, From(e, i) + 1, e[i])  BY <1>2, <1>4
  <2>3. e[i] <= Stop(e)
    <3>1. e # <<>> /\ Len(e) \in 1..Len(e) /\ (i = Len(e) \/ i < Len(e))
      <4>1. Len(e) \in Nat  BY <1>4
      <4>2. Len(e) \in 1..Len(e) /\ (i = Len(e) \/ i < Len(e)) /\ Len(e) # 0  BY <4>1
      <4>3. Len(<<>>) = 0  BY EmptySeq
      <4>4. e # <<>>  BY <4>2, <4>3
      <4> QED BY <4>2, <4>4
    <3>2. e[i] \in Nat /\ e[Len(e)] \in Nat  BY <1>6, <3>1
    <3>3. i < Len(e) => e[i] < e[Len(e)]  BY <1>4, <3>1
    <3> QED BY <3>1, <3>2, <3>3 DEF Stop
  <2> QED BY <2>1, <2>2, <2>3
<1>8. L \in Seq(Seq(Cell)) /\ Len(L) = Len(e)
  <2>1. \A i \in 1..Len(e) : L[i] \in Seq(Cell)  BY <1>7 DEF Cut
  <2>2. L = [i \in 1..Len(e) |-> L[i]]  BY <1>2, <1>4
  <2> DEFINE V == Seq(Cell)
  <2>3. L \in [1..Len(e) -> V]  BY <2>1, <2>2
  <2> HIDE DEF V
  <2>4. L \in Seq(V) /\ DOMAIN L = 1..Len(e)  BY <1>4, <2>3, IsASeq
  <2>5. Len(L) \in Nat /\ DOMAIN L = 1..Len(L)  BY <2>4, LenProperties
  <2>6. Len(L) = Len(e)  BY <1>4, <2>4, <2>5
  <2> QED BY <2>4, <2>6 DEF V
<1>9. Cut(Rest(data), data, Stop(e), Len(data))
  <2>1. CASE e = <<>>
    <3>1. Rest(data) = data /\ Stop(e) = 0  BY <1>3, <2>1 DEF Stop
    <3> QED BY <1>0, <3>1 DEF Cut
  <2>2. CASE e # <<>>
    <3>1. Len(e) \in 1..Len(e)  BY <1>4, <2>2
    <3>2. e[Len(e)] \in Nat /\ e[Len(e)] <= N  BY <1>6, <3>1
    <3> QED BY <1>0, <1>3, <2>2, <3>2, SubSeqCuts DEF Stop
  <2> QED BY <2>1, <2>2
<1> QED BY <1>4, <1>5, <1>7, <1>8, <1>9 DEF Splits, e, L

\* The order of the cells, one by one and from any to any.
Ordered(x) == \A i, j \in 1..Len(x) : i < j => x[i].k < x[j].k
Below(x, c) == \A i \in 1..Len(x) : x[i].k <= c

LEMMA CellsAreNumbered ==
  ASSUME NEW x \in Seq(Cell)
  PROVE  Len(x) \in Nat /\ DOMAIN x = 1..Len(x) /\ \A i \in 1..Len(x) : x[i] \in Cell /\ x[i].k \in Nat /\ x[i].f \in Nat
<1>1. \A i \in 1..Len(x) : x[i] \in Cell  BY ElementOfSeq
<1> QED BY <1>1, LenProperties DEF Cell

LEMMA OrderedIsInOrder == ASSUME NEW x \in Seq(Cell), Ordered(x) PROVE InOrder(x)
<1>1. Len(x) \in Nat  BY LenProperties
<1>2. \A i \in 1..(Len(x) - 1) : i \in 1..Len(x) /\ i + 1 \in 1..Len(x) /\ i < i + 1  BY <1>1
<1> QED BY <1>2 DEF Ordered, InOrder

\* What holds of the order and the file of data holds of what is cut from it.
LEMMA CutKeeps ==
  ASSUME NEW data \in Seq(Cell), NEW x, NEW a, NEW b, Cut(x, data, a, b)
  PROVE  /\ Ordered(data) => Ordered(x)
         /\ FromOneFile(data) => FromOneFile(x)
         /\ \A c : Below(data, c) => Below(x, c)
         /\ \A y \in Seq(Cell) : Precedes(y, data) => Precedes(y, x)
<1>1. /\ x \in Seq(Cell) /\ a \in Nat /\ b \in Nat /\ a <= b /\ b <= Len(data) /\ Len(x) = b - a /\ Len(data) \in Nat
      /\ DOMAIN x = 1..Len(x) /\ DOMAIN data = 1..Len(data)
  BY CellsAreNumbered DEF Cut
<1>2. \A i \in 1..Len(x) : a + i \in 1..Len(data) /\ x[i] = data[a + i]
  <2>1. \A i \in 1..(b - a) : a + i \in 1..Len(data)  BY <1>1
  <2> QED BY <1>1, <2>1 DEF Cut
<1>3. ASSUME Ordered(data), NEW i \in 1..Len(x), NEW j \in 1..Len(x), i < j PROVE x[i].k < x[j].k
  <2>1. a + i < a + j  BY <1>1, <1>3
  <2> QED BY <1>2, <1>3, <2>1 DEF Ordered
<1>4. ASSUME FromOneFile(data), NEW i \in 1..(Len(x) - 1) PROVE x[i + 1].k = x[i].k + 1 /\ x[i + 1].f = x[i].f
  <2>1. i \in 1..Len(x) /\ i + 1 \in 1..Len(x) /\ a + i \in 1..(Len(data) - 1) /\ a + (i + 1) = (a + i) + 1  BY <1>1
  <2>2. data[(a + i) + 1].k = data[a + i].k + 1 /\ data[(a + i) + 1].f = data[a + i].f  BY <1>4, <2>1 DEF FromOneFile
  <2> QED BY <1>2, <2>1, <2>2
<1>5. \A c : Below(data, c) => Below(x, c)  BY <1>2 DEF Below
<1>6. \A y \in Seq(Cell) : Precedes(y, data) => Precedes(y, x)  BY <1>1, <1>2 DEF Precedes
<1> QED BY <1>3, <1>4, <1>5, <1>6 DEF Ordered, FromOneFile

\* Of two cuts, what ends before the other begins precedes it.
LEMMA CutsFollow ==
  ASSUME NEW data \in Seq(Cell), Ordered(data), NEW x, NEW a, NEW b, Cut(x, data, a, b),
         NEW y, NEW c, NEW d, Cut(y, data, c, d), b <= c
  PROVE  Precedes(x, y)
<1>1. /\ a \in Nat /\ b \in Nat /\ c \in Nat /\ d \in Nat /\ b <= Len(data) /\ d <= Len(data) /\ Len(data) \in Nat
      /\ DOMAIN x = 1..(b - a) /\ DOMAIN y = 1..(d - c)
      /\ \A i \in 1..(b - a) : x[i] = data[a + i]
      /\ \A i \in 1..(d - c) : y[i] = data[c + i]
  BY CellsAreNumbered DEF Cut
<1>2. \A i \in 1..(b - a), j \in 1..(d - c) : a + i \in 1..Len(data) /\ c + j \in 1..Len(data) /\ a + i < c + j  BY <1>1
<1>3. ASSUME NEW i \in 1..(b - a), NEW j \in 1..(d - c) PROVE x[i].k < y[j].k
  <2>1. a + i \in 1..Len(data) /\ c + j \in 1..Len(data) /\ a + i < c + j  BY <1>2
  <2>2. data[a + i].k < data[c + j].k  BY <2>1 DEF Ordered
  <2> QED BY <1>1, <2>2
<1> QED BY <1>1, <1>3 DEF Precedes

\* A line that was cut short and what is read after it.
LEMMA Joined ==
  ASSUME NEW q \in Seq(Cell), NEW s \in Seq(Cell), Ordered(q), Ordered(s), Precedes(q, s)
  PROVE  /\ q \o s \in Seq(Cell) /\ Len(q \o s) = Len(q) + Len(s) /\ Ordered(q \o s)
         /\ \A c : Below(q, c) /\ Below(s, c) => Below(q \o s, c)
         /\ \A y \in Seq(Cell) : Precedes(y, q) /\ Precedes(y, s) => Precedes(y, q \o s)
         /\ (FromOneFile(q) /\ FromOneFile(s)
              /\ (q # <<>> /\ s # <<>> => s[1].k = q[Len(q)].k + 1 /\ s[1].f = q[Len(q)].f))
            => FromOneFile(q \o s)
<1> DEFINE x == q \o s
<1>1. /\ Len(q) \in Nat /\ DOMAIN q = 1..Len(q) /\ Len(s) \in Nat /\ DOMAIN s = 1..Len(s)
  BY LenProperties
<1>2. /\ x \in Seq(Cell) /\ Len(x) = Len(q) + Len(s)
      /\ \A i \in 1..(Len(q) + Len(s)) : x[i] = IF i <= Len(q) THEN q[i] ELSE s[i - Len(q)]
  BY ConcatProperties
<1> HIDE DEF x
<1>3. DOMAIN x = 1..Len(x)  BY <1>2, LenProperties
<1>4. ASSUME NEW i \in 1..Len(x)
      PROVE  \/ i \in 1..Len(q) /\ x[i] = q[i]
             \/ i - Len(q) \in 1..Len(s) /\ x[i] = s[i - Len(q)]
  <2>1. CASE i <= Len(q)
    <3>1. i \in 1..(Len(q) + Len(s)) /\ i \in 1..Len(q)  BY <1>1, <1>2, <2>1
    <3> QED BY <1>2, <2>1, <3>1
  <2>2. CASE ~(i <= Len(q))
    <3>1. i \in 1..(Len(q) + Len(s)) /\ i - Len(q) \in 1..Len(s)  BY <1>1, <1>2, <2>2
    <3> QED BY <1>2, <2>2, <3>1
  <2> QED BY <2>1, <2>2
<1>5. ASSUME NEW i \in 1..Len(x), NEW j \in 1..Len(x), i < j PROVE x[i].k < x[j].k
  <2>1. CASE i \in 1..Len(q) /\ x[i] = q[i] /\ j \in 1..Len(q) /\ x[j] = q[j]  BY <1>5, <2>1 DEF Ordered
  <2>2. CASE i \in 1..Len(q) /\ x[i] = q[i] /\ j - Len(q) \in 1..Len(s) /\ x[j] = s[j - Len(q)]
    BY <1>1, <2>2 DEF Precedes
  <2>3. CASE i - Len(q) \in 1..Len(s) /\ x[i] = s[i - Len(q)] /\ j - Len(q) \in 1..Len(s) /\ x[j] = s[j - Len(q)]
    <3>1. i - Len(q) < j - Len(q)  BY <1>1, <1>2, <1>5
    <3> QED BY <2>3, <3>1 DEF Ordered
  <2>4. ~(i - Len(q) \in 1..Len(s) /\ j \in 1..Len(q))  BY <1>1, <1>2, <1>5
  <2> QED BY <1>4, <2>1, <2>2, <2>3, <2>4
<1>6. \A c : Below(q, c) /\ Below(s, c) => Below(x, c)  BY <1>4 DEF Below
<1>7. \A y \in Seq(Cell) : Precedes(y, q) /\ Precedes(y, s) => Precedes(y, x)  BY <1>1, <1>3, <1>4 DEF Precedes
<1>8. ASSUME FromOneFile(q), FromOneFile(s), q # <<>> /\ s # <<>> => s[1].k = q[Len(q)].k + 1 /\ s[1].f = q[Len(q)].f,
             NEW i \in 1..(Len(x) - 1)
      PROVE  x[i + 1].k = x[i].k + 1 /\ x[i + 1].f = x[i].f
  <2>1. i \in Nat /\ 1 <= i /\ i + 1 <= Len(q) + Len(s) /\ i \in 1..(Len(q) + Len(s)) /\ i + 1 \in 1..(Len(q) + Len(s))
    BY <1>1, <1>2
  <2>2. CASE i + 1 <= Len(q)
    <3>1. x[i] = q[i] /\ x[i + 1] = q[i + 1] /\ i \in 1..(Len(q) - 1)  BY <1>1, <1>2, <2>1, <2>2
    <3> QED BY <1>8, <3>1 DEF FromOneFile
  <2>3. CASE i = Len(q)
    <3>1. ~(i + 1 <= Len(q)) /\ (i + 1) - Len(q) = 1 /\ Len(q) # 0 /\ Len(s) # 0 /\ i <= Len(q)  BY <1>1, <2>1, <2>3
    <3>2. x[i] = q[Len(q)] /\ x[i + 1] = s[1]  BY <1>2, <2>1, <2>3, <3>1
    <3>3. q # <<>> /\ s # <<>>
      <4>1. Len(<<>>) = 0  BY EmptySeq
      <4> QED BY <3>1, <4>1
    <3> QED BY <1>8, <3>2, <3>3
  <2>4. CASE i > Len(q)
    <3> DEFINE j == i - Len(q)
    <3>1. ~(i <= Len(q)) /\ ~(i + 1 <= Len(q)) /\ (i + 1) - Len(q) = j + 1 /\ j \in 1..(Len(s) - 1)  BY <1>1, <2>1, <2>4
    <3>2. x[i] = s[j] /\ x[i + 1] = s[j + 1]  BY <1>2, <2>1, <3>1
    <3> HIDE DEF j
    <3> QED BY <1>8, <3>1, <3>2 DEF FromOneFile
  <2>5. i + 1 <= Len(q) \/ i = Len(q) \/ i > Len(q)
    <3>1. i \in Int /\ Len(q) \in Int  BY <1>1, <2>1
    <3> DEFINE l == Len(q)
    <3> HIDE DEF l
    <3>2. l \in Int => i + 1 <= l \/ i = l \/ i > l  BY <3>1
    <3> QED BY <3>1, <3>2 DEF l
  <2> QED BY <2>2, <2>3, <2>4, <2>5
<1> QED BY <1>2, <1>5, <1>6, <1>7, <1>8 DEF Ordered, FromOneFile, x

\* A client of a log: what it was sent is in order, each line before the next and all of them
\* before the line that is not complete.
Streams == [on : BOOLEAN, offset : Nat, partial : Seq(Cell), emitted : Seq(Seq(Cell)), f : Nat, blind : BOOLEAN]
Sent(w) ==
  /\ Ordered(w.partial) /\ (~w.blind => FromOneFile(w.partial))
  /\ \A n \in 1..Len(w.emitted) :
       /\ Ordered(w.emitted[n]) /\ Precedes(w.emitted[n], w.partial) /\ (~w.blind => FromOneFile(w.emitted[n]))
       /\ \A m \in 1..(n - 1) : Precedes(w.emitted[m], w.emitted[n])
SentBelow(w, c) == Below(w.partial, c) /\ \A n \in 1..Len(w.emitted) : Below(w.emitted[n], c)

\* The lines of what is read are sent, and the rest is the line that is not complete.
LEMMA ReadOn ==
  ASSUME NEW w \in Streams, NEW v \in Streams, NEW data \in Seq(Cell), Sent(w), Ordered(data),
         \A n \in 1..Len(w.emitted) : Precedes(w.emitted[n], data),
         v.emitted = w.emitted \o Lines(data), v.partial = Rest(data),
         w.blind => v.blind, ~v.blind => FromOneFile(data)
  PROVE  Sent(v) /\ \A c : Below(data, c) /\ (\A n \in 1..Len(w.emitted) : Below(w.emitted[n], c)) => SentBelow(v, c)
<1> DEFINE e == Ends(data)
           new == Lines(data)
           old == w.emitted
           N == Len(old)
<1>1. Splits(data, e)  BY LinesSplit
<1> HIDE DEF e, new
<1>2. /\ old \in Seq(Seq(Cell)) /\ N \in Nat /\ \A n \in 1..N : old[n] \in Seq(Cell)
      /\ v.emitted \in Seq(Seq(Cell)) /\ Len(v.emitted) \in Nat
  BY LenProperties, ElementOfSeq DEF Streams
<1>3. /\ new \in Seq(Seq(Cell)) /\ Len(new) = Len(e) /\ Len(e) \in Nat
      /\ \A i \in 1..Len(e) : Cut(new[i], data, From(e, i), e[i]) /\ e[i] <= Stop(e)
      /\ \A i, j \in 1..Len(e) : i < j => e[i] <= From(e, j)
      /\ Cut(v.partial, data, Stop(e), Len(data))
  BY <1>1, LenProperties DEF Splits, new
<1>4. Len(v.emitted) = N + Len(new) /\ \A n \in 1..(N + Len(new)) : v.emitted[n] = IF n <= N THEN old[n] ELSE new[n - N]
  <2> DEFINE V == Seq(Cell)
  <2>1. old \in Seq(V) /\ new \in Seq(V)  BY <1>2, <1>3
  <2> HIDE DEF V
  <2>2. /\ Len(old \o new) = Len(old) + Len(new)
        /\ \A n \in 1..(Len(old) + Len(new)) : (old \o new)[n] = IF n <= Len(old) THEN old[n] ELSE new[n - Len(old)]
    BY <2>1, ConcatProperties
  <2> QED BY <2>2 DEF new
<1>5. ASSUME NEW n \in 1..Len(v.emitted)
      PROVE  \/ n \in 1..N /\ v.emitted[n] = old[n]
             \/ n - N \in 1..Len(e) /\ v.emitted[n] = new[n - N]
  <2>1. n \in 1..(N + Len(new))  BY <1>4
  <2> HIDE DEF N
  <2>2. CASE n <= N  BY <1>2, <1>4, <2>1, <2>2
  <2>3. CASE ~(n <= N)
    <3>1. n - N \in 1..Len(e)  BY <1>2, <1>3, <2>1, <2>3
    <3> QED BY <1>4, <2>1, <2>3, <3>1
  <2> QED BY <2>2, <2>3
<1>6. /\ Ordered(v.partial) /\ (~v.blind => FromOneFile(v.partial))
      /\ \A c : Below(data, c) => Below(v.partial, c)
      /\ \A n \in 1..N : Precedes(old[n], v.partial)
  BY <1>2, <1>3, CutKeeps
<1>7. ASSUME NEW i \in 1..Len(e)
      PROVE  /\ Ordered(new[i]) /\ (~v.blind => FromOneFile(new[i])) /\ Precedes(new[i], v.partial)
             /\ \A c : Below(data, c) => Below(new[i], c)
             /\ \A n \in 1..N : Precedes(old[n], new[i])
             /\ \A j \in 1..Len(e) : j < i => Precedes(new[j], new[i])
  <2>1. Cut(new[i], data, From(e, i), e[i]) /\ e[i] <= Stop(e)  BY <1>3
  <2>2. /\ Ordered(new[i]) /\ (~v.blind => FromOneFile(new[i]))
        /\ \A c : Below(data, c) => Below(new[i], c)
        /\ \A n \in 1..N : Precedes(old[n], new[i])
    BY <1>2, <2>1, CutKeeps
  <2>3. Precedes(new[i], v.partial)  BY <1>3, <2>1, CutsFollow
  <2>4. ASSUME NEW j \in 1..Len(e), j < i PROVE Precedes(new[j], new[i])
    <3>1. Cut(new[j], data, From(e, j), e[j]) /\ e[j] <= From(e, i)  BY <1>3, <2>4
    <3> QED BY <2>1, <3>1, CutsFollow
  <2> QED BY <2>2, <2>3, <2>4
<1>8. ASSUME NEW n \in 1..Len(v.emitted)
      PROVE  /\ Ordered(v.emitted[n]) /\ Precedes(v.emitted[n], v.partial) /\ (~v.blind => FromOneFile(v.emitted[n]))
             /\ \A m \in 1..(n - 1) : Precedes(v.emitted[m], v.emitted[n])
             /\ \A c : Below(data, c) /\ (\A k \in 1..N : Below(old[k], c)) => Below(v.emitted[n], c)
  <2>0. \A m \in 1..(n - 1) : m \in 1..Len(v.emitted) /\ m < n  BY <1>2
  <2>1. CASE n \in 1..N /\ v.emitted[n] = old[n]
    <3>1. \A m \in 1..(n - 1) : v.emitted[m] = old[m]
      <4>1. \A m \in 1..(n - 1) : m \in 1..(N + Len(new)) /\ m <= N  BY <1>2, <1>3, <2>1
      <4> QED BY <1>4, <4>1
    <3>2. /\ Ordered(old[n]) /\ (~w.blind => FromOneFile(old[n]))
          /\ \A m \in 1..(n - 1) : Precedes(old[m], old[n])
      BY <2>1 DEF Sent
    <3> QED BY <1>6, <2>1, <3>1, <3>2
  <2>2. CASE n - N \in 1..Len(e) /\ v.emitted[n] = new[n - N]
    <3> DEFINE i == n - N
    <3>1. i \in 1..Len(e) /\ v.emitted[n] = new[i]  BY <2>2
    <3>2. ASSUME NEW m \in 1..(n - 1) PROVE Precedes(v.emitted[m], new[i])
      <4>1. CASE m \in 1..N /\ v.emitted[m] = old[m]  BY <1>7, <3>1, <4>1
      <4>2. CASE m - N \in 1..Len(e) /\ v.emitted[m] = new[m - N]
        <5>1. m - N < i  BY <1>2, <2>0
        <5> QED BY <1>7, <3>1, <4>2, <5>1
      <4> QED BY <1>5, <2>0, <4>1, <4>2
    <3> HIDE DEF i
    <3> QED BY <1>7, <3>1, <3>2
  <2> QED BY <1>5, <2>1, <2>2
<1> QED BY <1>6, <1>8 DEF Sent, SentBelow

\* The log ends with the last cell the service wrote, and has what it wrote since the log was
\* opened.
Base == cells - Len(file)
LogCells == file # NoFile => Len(file) <= cells /\ \A i \in 1..Len(file) : file[i].k = Base + i /\ file[i].f = starts

\* How far a client has read: not further than the log it has seen goes, and not into one
\* that replaced it.  An incomplete line goes on where the client reads on.
ReadTo(w) == IF w.f = starts THEN Base + w.offset ELSE Base
Follows(w) ==
  /\ w.f <= starts /\ (w.offset = 0 => w.partial = <<>>) /\ SentBelow(w, cells)
  /\ file # NoFile =>
       /\ w.f = starts => w.offset <= Len(file)
       /\ SentBelow(w, ReadTo(w))
       /\ w.f = starts /\ ~w.blind /\ w.partial # <<>> =>
            w.partial[Len(w.partial)].k = ReadTo(w) /\ w.partial[Len(w.partial)].f = starts
FollowInv == LogCells /\ follow \in Streams /\ Sent(follow) /\ (follow.on => Follows(follow))

LEMMA NothingSent == NoFollow \in Streams /\ Sent(NoFollow) /\ ~NoFollow.on /\ \A c : SentBelow(NoFollow, c)
<1> DEFINE none == <<>>
<1>1. none \in Seq(Cell) /\ none \in Seq(Seq(Cell)) /\ Len(none) = 0  BY EmptySeq
<1>2. NoFollow = [on |-> FALSE, offset |-> 0, partial |-> none, emitted |-> none, f |-> 0, blind |-> FALSE]  BY DEF NoFollow
<1> HIDE DEF none
<1>3. NoFollow \in Streams /\ ~NoFollow.on /\ NoFollow.partial = none /\ NoFollow.emitted = none  BY <1>1, <1>2 DEF Streams
<1> QED BY <1>1, <1>3 DEF Sent, SentBelow, Ordered, FromOneFile, Below

\* Where a poll reads on.
LEMMA Positions ==
  ASSUME LogType, file # NoFile, NEW offset \in Nat, NEW partial
  PROVE  LET p == Position(offset, partial)
         IN  /\ p.offset \in Nat /\ p.offset <= Len(file)
             /\ offset <= Len(file) => p.offset >= offset
             /\ \/ p.partial = <<>>
                \/ p.partial = partial /\ p.offset = offset /\ offset <= Len(file)
<1> DEFINE from == IF Len(file) < offset THEN 0 ELSE offset
           burst == Len(file) - from > MaxRead
<1>1. Len(file) \in Nat /\ MaxRead \in Nat \ {0}  BY RecordsOK, LenProperties DEF LogType
<1>2. from \in Nat /\ from <= Len(file) /\ (offset <= Len(file) => from = offset)  BY <1>1
<1>3. Position(offset, partial) = [offset |-> IF burst THEN Len(file) - MaxRead ELSE from,
                                   partial |-> IF Len(file) < offset \/ burst THEN <<>> ELSE partial]
  BY DEF Position
<1> HIDE DEF from
<1>4. CASE burst  BY <1>1, <1>2, <1>3, <1>4
<1>5. CASE ~burst /\ Len(file) < offset  BY <1>1, <1>2, <1>3, <1>5
<1>6. CASE ~burst /\ ~(Len(file) < offset)  BY <1>1, <1>2, <1>3, <1>6
<1> QED BY <1>4, <1>5, <1>6

\* What a poll reads of the log goes on from what was sent.
LEMMA Reads ==
  ASSUME LogType, LogCells, file # NoFile, NEW w \in Streams, Sent(w), Follows(w),
         NEW blind, w.blind => blind, starts # w.f /\ w.offset > 0 /\ Len(file) >= w.offset => blind,
         NEW p, p = Position(w.offset, w.partial), NEW data, data = p.partial \o SubSeq(file, p.offset + 1, Len(file))
  PROVE  /\ data \in Seq(Cell) /\ Ordered(data) /\ Below(data, cells)
         /\ \A n \in 1..Len(w.emitted) : Precedes(w.emitted[n], data)
         /\ ~blind => FromOneFile(data)
         /\ ~blind /\ data # <<>> => data[Len(data)].k = cells /\ data[Len(data)].f = starts
         /\ Len(file) = 0 => data = <<>>
<1> DEFINE o == p.offset
           q == p.partial
           L == Len(file)
           s == SubSeq(file, o + 1, L)
<1>1. /\ file \in Seq(Cell) /\ L \in Nat /\ cells \in Nat /\ starts \in Nat /\ w.offset \in Nat /\ w.f \in Nat
      /\ w.partial \in Seq(Cell) /\ w.emitted \in Seq(Seq(Cell)) /\ L <= cells
  BY LenProperties DEF LogType, LogCells, Streams
<1>2. /\ o \in Nat /\ o <= L /\ (w.offset <= L => o >= w.offset)
      /\ q = <<>> \/ (q = w.partial /\ o = w.offset /\ w.offset <= L)
  BY <1>1, Positions
<1> HIDE DEF o, q
<1>3. Cut(s, file, o, L)  BY <1>1, <1>2, SubSeqCuts
<1>4. data = q \o s  BY DEF q, s, o
<1> HIDE DEF s
<1>5. s \in Seq(Cell) /\ Len(s) = L - o /\ DOMAIN s = 1..(L - o) /\ \A i \in 1..(L - o) : s[i].k = Base + o + i /\ s[i].f = starts
  <2>1. s \in Seq(Cell) /\ Len(s) = L - o /\ \A i \in 1..(L - o) : s[i] = file[o + i]  BY <1>3 DEF Cut
  <2>2. \A i \in 1..(L - o) : o + i \in 1..L /\ Base + (o + i) = Base + o + i  BY <1>1, <1>2 DEF Base
  <2>3. \A i \in 1..L : file[i].k = Base + i /\ file[i].f = starts  BY DEF LogCells
  <2>4. DOMAIN s = 1..(L - o)  BY <2>1, LenProperties
  <2>5. ASSUME NEW i \in 1..(L - o) PROVE s[i].k = Base + o + i /\ s[i].f = starts
    <3>1. s[i] = file[o + i] /\ o + i \in 1..L /\ Base + (o + i) = Base + o + i  BY <2>1, <2>2
    <3>2. file[o + i].k = Base + (o + i) /\ file[o + i].f = starts  BY <2>3, <3>1
    <3> QED BY <3>1, <3>2
  <2> QED BY <2>1, <2>4, <2>5
<1>6. Base \in Nat /\ Base + L = cells  BY <1>1 DEF Base
<1>7. Ordered(s) /\ FromOneFile(s) /\ Below(s, cells)
  <2>1. ASSUME NEW i \in 1..Len(s), NEW j \in 1..Len(s), i < j PROVE s[i].k < s[j].k
    <3>1. s[i].k = Base + o + i /\ s[j].k = Base + o + j  BY <1>5
    <3> QED BY <1>2, <1>6, <2>1, <3>1
  <2>2. ASSUME NEW i \in 1..(Len(s) - 1) PROVE s[i + 1].k = s[i].k + 1 /\ s[i + 1].f = s[i].f
    <3>1. i \in 1..(L - o) /\ i + 1 \in 1..(L - o)  BY <1>1, <1>2, <1>5
    <3>2. s[i].k = Base + o + i /\ s[i + 1].k = Base + o + (i + 1) /\ s[i + 1].f = s[i].f  BY <1>5, <3>1
    <3> QED BY <1>2, <1>6, <3>2
  <2>3. ASSUME NEW i \in 1..Len(s) PROVE s[i].k <= cells
    <3>1. s[i].k = Base + o + i /\ i \in 1..(L - o)  BY <1>5
    <3> QED BY <1>1, <1>2, <1>6, <3>1
  <2> QED BY <2>1, <2>2, <2>3 DEF Ordered, FromOneFile, Below
<1>8. ReadTo(w) \in Int /\ ReadTo(w) <= Base + o /\ SentBelow(w, ReadTo(w))
  BY <1>1, <1>2, <1>6 DEF Follows, ReadTo
\* What was sent is older than what is read.
<1>9. ASSUME NEW y \in Seq(Cell), Below(y, ReadTo(w)) PROVE Precedes(y, s)
  <2>1. DOMAIN y = 1..Len(y) /\ \A i \in 1..Len(y) : y[i].k \in Nat  BY CellsAreNumbered
  <2>2. ASSUME NEW i \in DOMAIN y, NEW j \in DOMAIN s PROVE y[i].k < s[j].k
    <3>1. y[i].k \in Nat /\ y[i].k <= ReadTo(w)  BY <1>9, <2>1 DEF Below
    <3>2. s[j].k = Base + o + j /\ j \in 1..(L - o)  BY <1>5
    <3> QED BY <1>1, <1>2, <1>6, <1>8, <3>1, <3>2
  <2> QED BY <2>2 DEF Precedes
<1>e. <<>> \in Seq(Cell) /\ Len(<<>>) = 0 /\ DOMAIN <<>> = {}
  <2>1. <<>> \in Seq(Cell) /\ Len(<<>>) = 0  BY EmptySeq
  <2> QED BY <2>1
<1>10. /\ q \in Seq(Cell) /\ Ordered(q) /\ Below(q, cells) /\ Precedes(q, s)
       /\ \A n \in 1..Len(w.emitted) : Precedes(w.emitted[n], q)
       /\ ~blind => FromOneFile(q)
  <2>1. CASE q = <<>>  BY <1>e, <2>1 DEF Ordered, Below, Precedes, FromOneFile
  <2>2. CASE q = w.partial
    <3>1. Ordered(q) /\ (~blind => FromOneFile(q)) /\ \A n \in 1..Len(w.emitted) : Precedes(w.emitted[n], q)  BY <2>2 DEF Sent
    <3>2. Below(q, cells) /\ Below(q, ReadTo(w))  BY <1>8, <2>2 DEF Follows, SentBelow
    <3> QED BY <1>1, <1>9, <2>2, <3>1, <3>2
  <2> QED BY <1>2, <2>1, <2>2
\* An incomplete line of the log is read on where it ends.
<1>11. ASSUME ~blind, q # <<>>
       PROVE  w.f = starts /\ o = w.offset /\ q[Len(q)].k = Base + o /\ q[Len(q)].f = starts
  <2>1. q = w.partial /\ o = w.offset /\ w.offset <= L /\ w.offset # 0  BY <1>2, <1>11 DEF Follows
  <2>2. w.f = starts  BY <1>1, <1>11, <2>1
  <2> QED BY <1>11, <2>1, <2>2 DEF Follows, ReadTo
<1>12. \A n \in 1..Len(w.emitted) : w.emitted[n] \in Seq(Cell) /\ Precedes(w.emitted[n], s)
  <2>1. \A n \in 1..Len(w.emitted) : w.emitted[n] \in Seq(Cell)  BY <1>1, ElementOfSeq
  <2> QED BY <1>8, <1>9, <2>1 DEF SentBelow
<1>13. (s # <<>> => 1 \in 1..(L - o)) /\ (s = <<>> => o = L)
  <2>1. s # <<>> => Len(s) # 0  BY <1>5, EmptySeq
  <2>2. L \in Nat /\ o \in Nat /\ o <= L /\ Len(s) = L - o  BY <1>1, <1>2, <1>5
  <2>3. L - o # 0 => 1 \in 1..(L - o)
    <3> HIDE DEF L
    <3> QED BY <2>2
  <2>4. L - o = 0 => o = L
    <3> HIDE DEF L
    <3> QED BY <2>2
  <2>5. s = <<>> => Len(s) = 0  BY <1>e
  <2> QED BY <2>1, <2>2, <2>3, <2>4, <2>5
<1>14. /\ data \in Seq(Cell) /\ Ordered(data) /\ Below(data, cells) /\ Len(data) = Len(q) + Len(s)
       /\ \A n \in 1..Len(w.emitted) : Precedes(w.emitted[n], data)
       /\ ~blind => FromOneFile(data)
  <2>1. ~blind => (q # <<>> /\ s # <<>> => s[1].k = q[Len(q)].k + 1 /\ s[1].f = q[Len(q)].f)
    <3> SUFFICES ASSUME ~blind, q # <<>>, s # <<>> PROVE s[1].k = q[Len(q)].k + 1 /\ s[1].f = q[Len(q)].f  OBVIOUS
    <3>1. s[1].k = Base + o + 1 /\ s[1].f = starts  BY <1>5, <1>13
    <3> QED BY <1>11, <3>1
  <2> DEFINE x == q \o s
  <2>2. /\ x \in Seq(Cell) /\ Len(x) = Len(q) + Len(s) /\ Ordered(x)
        /\ \A c : Below(q, c) /\ Below(s, c) => Below(x, c)
        /\ \A y \in Seq(Cell) : Precedes(y, q) /\ Precedes(y, s) => Precedes(y, x)
        /\ (FromOneFile(q) /\ FromOneFile(s)
             /\ (q # <<>> /\ s # <<>> => s[1].k = q[Len(q)].k + 1 /\ s[1].f = q[Len(q)].f))
           => FromOneFile(x)
    <3>1. q \in Seq(Cell) /\ s \in Seq(Cell) /\ Ordered(q) /\ Ordered(s) /\ Precedes(q, s)  BY <1>5, <1>7, <1>10
    <3> QED BY <3>1, Joined
  <2>3. x = data  BY <1>4
  <2> HIDE DEF x
  <2>4. Below(x, cells)  BY <1>7, <1>10, <2>2
  <2>5. \A n \in 1..Len(w.emitted) : Precedes(w.emitted[n], x)  BY <1>10, <1>12, <2>2
  <2>6. ~blind => FromOneFile(x)  BY <1>7, <1>10, <2>1, <2>2
  <2> QED BY <2>2, <2>3, <2>4, <2>5, <2>6
<1>15. ASSUME ~blind, data # <<>> PROVE data[Len(data)].k = cells /\ data[Len(data)].f = starts
  <2>0. Len(q) \in Nat /\ \A i \in 1..(Len(q) + Len(s)) : data[i] = IF i <= Len(q) THEN q[i] ELSE s[i - Len(q)]
    <3>1. q \in Seq(Cell) /\ s \in Seq(Cell)  BY <1>5, <1>10
    <3>2. \A i \in 1..(Len(q) + Len(s)) : (q \o s)[i] = IF i <= Len(q) THEN q[i] ELSE s[i - Len(q)]
      BY <3>1, ConcatProperties
    <3>3. Len(q) \in Nat  BY <3>1, LenProperties
    <3> QED BY <1>4, <3>2, <3>3
  <2>1. CASE s # <<>>
    <3>1. L - o \in 1..(L - o)  BY <1>1, <1>2, <1>13, <2>1
    <3>2. s[L - o].k = cells /\ s[L - o].f = starts
      <4>1. s[L - o].k = Base + o + (L - o) /\ s[L - o].f = starts  BY <1>5, <3>1
      <4>2. L \in Nat /\ o \in Nat /\ Base \in Nat /\ Base + L = cells  BY <1>1, <1>2, <1>6
      <4>3. Base + o + (L - o) = cells
        <5> HIDE DEF L
        <5> QED BY <4>2
      <4> QED BY <4>1, <4>3
    <3>3. Len(data) \in 1..(Len(q) + Len(s)) /\ ~(Len(data) <= Len(q)) /\ Len(data) - Len(q) = L - o
      <4> DEFINE l == Len(q)
                 k == Len(s)
                 d == Len(data)
      <4>1. l \in Nat /\ k \in Nat /\ k # 0 /\ d = l + k /\ k = L - o  BY <1>5, <1>14, <2>0, <2>1, EmptySeq
      <4> HIDE DEF l, k, d
      <4>2. d \in 1..(l + k) /\ ~(d <= l) /\ d - l = k  BY <4>1
      <4> QED BY <4>1, <4>2 DEF l, k, d
    <3> QED BY <2>0, <3>2, <3>3
  <2>2. CASE s = <<>>
    <3>1. o = L /\ Len(s) = 0  BY <1>13, <1>e, <2>2
    <3>2. data = q  BY <1>4, <1>10, <2>2, ConcatEmptySeq
    <3> QED BY <1>6, <1>11, <1>15, <3>1, <3>2
  <2> QED BY <2>1, <2>2
<1>16. ASSUME L = 0 PROVE data = <<>>
  <2>1. s = <<>>
    <3>1. ~(1 \in 1..(L - o))  BY <1>1, <1>2, <1>16
    <3> QED BY <1>13, <3>1
  <2>2. q = <<>>
    <3>1. q = w.partial /\ w.offset <= L => w.offset = 0  BY <1>1, <1>16
    <3> QED BY <1>2, <3>1 DEF Follows
  <2> QED BY <1>4, <1>e, <2>1, <2>2, ConcatEmptySeq
<1> QED BY <1>14, <1>15, <1>16

LEMMA PollKeeps ==
  ASSUME LogType, LogCells, follow \in Streams, Sent(follow), Follows(follow), FollowPoll
  PROVE  follow' \in Streams /\ Sent(follow') /\ Follows(follow)'
<1> DEFINE w == follow
           v == follow'
           r == ReadNewLines(w.offset, w.partial)
           u == Unnoticed
<1>1. /\ UNCHANGED <<cells, file, starts>>
      /\ v = [w EXCEPT !.offset = r.offset, !.partial = r.partial, !.emitted = @ \o r.lines, !.f = starts, !.blind = @ \/ u]
  BY DEF FollowPoll
<1>2. /\ w \in Streams /\ starts \in Nat /\ cells \in Nat /\ w.offset \in Nat /\ w.f \in Nat /\ w.partial \in Seq(Cell)
      /\ w.emitted \in Seq(Seq(Cell)) /\ \A n \in 1..Len(w.emitted) : w.emitted[n] \in Seq(Cell)
  <2>1. w.emitted \in Seq(Seq(Cell))  BY DEF Streams
  <2> QED BY <2>1, ElementOfSeq DEF Streams, LogType
<1>3. u \in BOOLEAN  BY DEF Unnoticed
<1>u. starts # w.f /\ w.offset > 0 /\ file # NoFile /\ Len(file) >= w.offset => u  BY DEF Unnoticed
<1>4. ASSUME NEW o \in Nat, NEW q \in Seq(Cell), NEW lines \in Seq(Seq(Cell)), r = [lines |-> lines, offset |-> o, partial |-> q]
      PROVE  /\ v \in Streams /\ v.offset = o /\ v.partial = q /\ v.emitted = w.emitted \o lines /\ v.f = starts
             /\ v.blind = (w.blind \/ u)
  <2> HIDE DEF r, u, w
  <2>1. r.offset = o /\ r.partial = q /\ r.lines = lines  BY <1>4
  <2> DEFINE V == Seq(Cell)
  <2>2. w.emitted \in Seq(V) /\ lines \in Seq(V)  BY <1>2, <1>4
  <2> HIDE DEF V
  <2>3. w.emitted \o lines \in Seq(V)  BY <2>2, ConcatProperties
  <2>4. /\ v.offset = o /\ v.partial = q /\ v.emitted = w.emitted \o lines /\ v.f = starts
        /\ v.blind = (w.blind \/ u)
    BY <1>1, <1>2, <2>1 DEF Streams
  <2>5. v \in Streams  BY <1>1, <1>2, <1>3, <1>4, <2>1, <2>3 DEF Streams, V
  <2> QED BY <2>4, <2>5
<1> HIDE DEF u
<1>5. CASE file = NoFile
  <2>0. <<>> \in Seq(Cell) /\ <<>> \in Seq(Seq(Cell)) /\ Len(<<>>) = 0 /\ DOMAIN <<>> = {}
    <3>1. <<>> \in Seq(Cell) /\ <<>> \in Seq(Seq(Cell)) /\ Len(<<>>) = 0  BY EmptySeq
    <3> QED BY <3>1
  <2>1. r = [lines |-> <<>>, offset |-> 0, partial |-> <<>>]  BY <1>5 DEF ReadNewLines
  <2> HIDE DEF r
  <2>2. /\ v \in Streams /\ v.offset = 0 /\ v.partial = <<>> /\ v.emitted = w.emitted \o <<>> /\ v.f = starts
        /\ v.blind = (w.blind \/ u)
    BY <1>4, <2>0, <2>1
  <2>3. v.emitted = w.emitted
    <3> DEFINE V == Seq(Cell)
    <3>1. w.emitted \in Seq(V)  BY <1>2
    <3> HIDE DEF V
    <3> QED BY <2>2, <3>1, ConcatEmptySeq
  <2> HIDE DEF v
  <2>4. \A y : Precedes(y, v.partial)  BY <2>0, <2>2 DEF Precedes
  <2>5. Ordered(v.partial) /\ FromOneFile(v.partial) /\ \A c : Below(v.partial, c)
    BY <2>0, <2>2 DEF Ordered, FromOneFile, Below
  <2>6. Sent(v)  BY <2>2, <2>3, <2>4, <2>5 DEF Sent
  <2>7. SentBelow(v, cells)  BY <2>3, <2>5 DEF Follows, SentBelow
  <2>8. starts <= starts  BY <1>2
  <2> QED BY <1>1, <1>5, <2>2, <2>6, <2>7, <2>8 DEF Follows, v
<1>6. CASE file # NoFile
  <2> DEFINE p == Position(w.offset, w.partial)
             data == p.partial \o SubSeq(file, p.offset + 1, Len(file))
             b == w.blind \/ u
  <2>0. Len(file) \in Nat  BY <1>6, LenProperties DEF LogType
  <2>1. r = [lines |-> Lines(data), offset |-> Len(file), partial |-> Rest(data)]  BY <1>6 DEF ReadNewLines
  <2>2. /\ data \in Seq(Cell) /\ Ordered(data) /\ Below(data, cells)
        /\ \A n \in 1..Len(w.emitted) : Precedes(w.emitted[n], data)
        /\ ~b => FromOneFile(data)
        /\ ~b /\ data # <<>> => data[Len(data)].k = cells /\ data[Len(data)].f = starts
        /\ Len(file) = 0 => data = <<>>
    <3>1. (w.blind => b) /\ (starts # w.f /\ w.offset > 0 /\ Len(file) >= w.offset => b)  BY <1>6, <1>u
    <3>2. p = Position(w.offset, w.partial) /\ data = p.partial \o SubSeq(file, p.offset + 1, Len(file))  OBVIOUS
    <3> HIDE DEF b, p, data
    <3> QED BY <1>2, <1>6, <3>1, <3>2, Reads
  <2> HIDE DEF data, r
  <2>3. Splits(data, Ends(data))  BY <2>2, LinesSplit
  <2>4. Lines(data) \in Seq(Seq(Cell)) /\ Cut(Rest(data), data, Stop(Ends(data)), Len(data))  BY <2>3 DEF Splits
  <2>5. Rest(data) \in Seq(Cell)  BY <2>4 DEF Cut
  <2>6. /\ v \in Streams /\ v.offset = Len(file) /\ v.partial = Rest(data) /\ v.emitted = w.emitted \o Lines(data) /\ v.f = starts
        /\ v.blind = b
    BY <1>4, <2>0, <2>1, <2>4, <2>5
  <2> HIDE DEF v
  <2>7. /\ Sent(v)
        /\ \A c : Below(data, c) /\ (\A n \in 1..Len(w.emitted) : Below(w.emitted[n], c)) => SentBelow(v, c)
    <3>1. (w.blind => v.blind) /\ (~v.blind => FromOneFile(data))  BY <2>2, <2>6
    <3> QED BY <1>2, <2>2, <2>6, <3>1, ReadOn
  <2>8. SentBelow(v, cells)  BY <2>2, <2>7 DEF Follows, SentBelow
\* The end of what is left is the end of what was read.
  <2>9. v.partial # <<>> => data # <<>> /\ v.partial[Len(v.partial)] = data[Len(data)]
    <3> SUFFICES ASSUME v.partial # <<>> PROVE data # <<>> /\ v.partial[Len(v.partial)] = data[Len(data)]  OBVIOUS
    <3> DEFINE a == Stop(Ends(data))
               n == Len(data)
               m == Len(v.partial)
    <3>1. a \in Nat /\ n \in Nat /\ a <= n /\ m = n - a /\ \A i \in 1..(n - a) : v.partial[i] = data[a + i]
      BY <2>4, <2>6 DEF Cut
    <3>2. m # 0  BY <2>5, <2>6, EmptySeq
    <3>3. Len(<<>>) = 0  BY EmptySeq
    <3>4. n # 0 => data # <<>>  BY <3>3
    <3> HIDE DEF a, n, m
    <3>5. m \in 1..(n - a) /\ a + m = n /\ n # 0  BY <3>1, <3>2
    <3>6. v.partial[m] = data[n]  BY <3>1, <3>5
    <3> QED BY <3>4, <3>5, <3>6 DEF n, m
  <2>10. v.offset = 0 => v.partial = <<>>  BY <2>2, <2>6, <2>9
  <2>11. starts <= starts /\ Len(file) <= Len(file) /\ (cells - Len(file)) + Len(file) = cells  BY <1>2, <2>0
  <2>12. ~v.blind /\ v.partial # <<>> => v.partial[Len(v.partial)].k = cells /\ v.partial[Len(v.partial)].f = starts
    BY <2>2, <2>6, <2>9
  <2>13. v.f <= starts /\ (v.f = starts => v.offset <= Len(file)) /\ (cells - Len(file)) + v.offset = cells /\ v.f = starts
    BY <2>6, <2>11
  <2> QED BY <1>1, <2>6, <2>7, <2>8, <2>10, <2>12, <2>13 DEF Follows, ReadTo, Base, v
<1> QED BY <1>5, <1>6

\* What a client was sent stays as it is while the log grows or goes.
LEMMA FollowSteps == ASSUME IInv, FollowInv, [Next]_vars PROVE FollowInv'
<1>0. /\ LogType /\ Attached /\ LogCells /\ follow \in Streams /\ Sent(follow) /\ (follow.on => Follows(follow))
      /\ cells \in Nat /\ starts \in Nat
  BY DEF FollowInv, IInv, Logs, LogType
<1>1. ASSUME UNCHANGED <<cells, file, starts, follow>> PROVE FollowInv'
  BY <1>0, <1>1 DEF FollowInv, LogCells, Follows, ReadTo, Base
\* The log goes, and the client ends.
<1>2. ASSUME UNCHANGED <<cells, starts, follow>>, file' = NoFile PROVE FollowInv'
  BY <1>0, <1>2 DEF FollowInv, LogCells, Follows
<1>3. ASSUME UNCHANGED <<cells, starts, file>>, follow' = NoFollow PROVE FollowInv'
  BY <1>0, <1>3, NothingSent DEF FollowInv, LogCells, Base
<1>4. CASE Crash  BY <1>3, <1>4 DEF Crash
<1>5. ASSUME NEW g \in Operations, NEW success \in BOOLEAN, Audit(g, success) PROVE FollowInv'
  BY <1>1, <1>5 DEF Audit, logVars
<1>6. CASE SubscribeAndList \/ WatchSend \/ Unsubscribe
  BY <1>1, <1>6 DEF SubscribeAndList, WatchSend, Unsubscribe, logVars
<1>7. ASSUME NEW g \in Operations,
             JournalRecord(g) \/ JournalFull(g) \/ CompactTruncate(g) \/ CompactRewrite(g) \/ CompactFull(g)
      PROVE  FollowInv'
  BY <1>1, <1>7 DEF JournalRecord, JournalFull, CompactTruncate, CompactRewrite, CompactFull, logVars
<1>8. ASSUME NEW nl \in BOOLEAN, Write(nl) PROVE FollowInv'
  <2> DEFINE c == [k |-> cells + 1, nl |-> nl, f |-> starts]
             L == Len(file)
  <2>1. /\ attach = "running" /\ cells' = cells + 1 /\ file' = Append(file, c) /\ UNCHANGED <<starts, follow>>
    BY <1>8 DEF Write
  <2>2. file # NoFile /\ file \in Seq(Cell) /\ L \in Nat  BY <1>0, <2>1, LenProperties DEF LogType, Attached
  <2>3. c \in Cell /\ c.k = cells + 1 /\ c.f = starts  BY <1>0 DEF Cell
  <2> HIDE DEF c
  <2>4. /\ file' \in Seq(Cell) /\ Len(file') = L + 1 /\ file'[L + 1] = c /\ \A i \in 1..L : file'[i] = file[i]
    BY <2>1, <2>2, <2>3, AppendProperties
  <2> HIDE DEF L
  <2>5. L <= cells /\ \A i \in 1..L : file[i].k = Base + i /\ file[i].f = starts  BY <1>0, <2>2 DEF LogCells, L
  <2>6. Base = cells - L /\ Base' = Base  BY <1>0, <2>1, <2>2, <2>4 DEF Base, L
  <2>7. LogCells'
    <3>1. ASSUME NEW i \in 1..(L + 1) PROVE file'[i].k = Base + i /\ file'[i].f = starts
      <4>1. CASE i = L + 1  BY <1>0, <2>2, <2>3, <2>4, <2>6, <4>1
      <4>2. CASE i # L + 1
        <5>1. i \in 1..L  BY <2>2, <4>2
        <5> QED BY <2>4, <2>5, <5>1
      <4> QED BY <4>1, <4>2
    <3>2. L + 1 <= cells + 1  BY <1>0, <2>2, <2>5
    <3> QED BY <2>1, <2>4, <2>6, <3>1, <3>2 DEF LogCells
  <2>8. ASSUME follow.on PROVE Follows(follow)'
    <3>1. Follows(follow)  BY <1>0, <2>8
    <3>2. SentBelow(follow, cells + 1)
      <4>1. SentBelow(follow, cells)  BY <3>1 DEF Follows
      <4>2. ASSUME NEW x \in Seq(Cell), Below(x, cells) PROVE Below(x, cells + 1)
        <5>1. \A i \in 1..Len(x) : x[i].k \in Nat  BY CellsAreNumbered
        <5> QED BY <1>0, <4>2, <5>1 DEF Below
      <4>3. follow.partial \in Seq(Cell) /\ follow.emitted \in Seq(Seq(Cell))  BY <1>0 DEF Streams
      <4>4. \A n \in 1..Len(follow.emitted) : follow.emitted[n] \in Seq(Cell)  BY <4>3, ElementOfSeq
      <4> QED BY <4>1, <4>2, <4>3, <4>4 DEF SentBelow
    <3>3. ReadTo(follow)' = ReadTo(follow)  BY <2>1, <2>6 DEF ReadTo
    <3>4. follow.f = starts => follow.offset <= L + 1
      <4>1. follow.offset \in Nat  BY <1>0 DEF Streams
      <4>2. follow.f = starts => follow.offset <= L  BY <2>2, <3>1 DEF Follows, L
      <4> QED BY <2>2, <4>1, <4>2
    <3> QED BY <2>1, <2>2, <2>4, <3>1, <3>2, <3>3, <3>4 DEF Follows
  <2> QED BY <1>0, <2>1, <2>7, <2>8 DEF FollowInv
<1>9. CASE ServiceExits  BY <1>1, <1>9 DEF ServiceExits
<1>10. CASE ArchiveLog
  <2>1. UNCHANGED <<cells, starts, follow>> /\ (file' = NoFile \/ file' = file)  BY <1>10 DEF ArchiveLog, CopyAndDelete
  <2> QED BY <1>1, <1>2, <2>1
<1>11. CASE RemoveSource
  <2>1. UNCHANGED <<cells, starts, follow>> /\ (file' = NoFile \/ file' = file)  BY <1>11 DEF RemoveSource
  <2> QED BY <1>1, <1>2, <2>1
\* A new log begins where the service left off.
<1>12. CASE InitLogFile
  <2>1. /\ UNCHANGED <<cells, follow>> /\ file' = (IF file = NoFile THEN <<>> ELSE file)
        /\ starts' = (IF file = NoFile THEN starts + 1 ELSE starts)
    BY <1>12 DEF InitLogFile
  <2>2. CASE file # NoFile  BY <1>1, <2>1, <2>2
  <2>3. CASE file = NoFile
    <3>1. Len(file') = 0 /\ starts' = starts + 1 /\ cells' = cells /\ follow' = follow  BY <2>1, <2>3, EmptySeq
    <3>2. Base' = cells /\ 0 <= cells  BY <1>0, <3>1 DEF Base
    <3>3. LogCells'  BY <3>1, <3>2 DEF LogCells
    <3>4. ASSUME follow.on PROVE Follows(follow)'
      <4>1. Follows(follow) /\ follow.f \in Nat /\ follow.f <= starts  BY <1>0, <3>4 DEF Follows, Streams
      <4>2. follow.f <= starts + 1 /\ follow.f # starts + 1  BY <1>0, <4>1
      <4>3. ReadTo(follow)' = cells  BY <3>1, <3>2, <4>2 DEF ReadTo
      <4> QED BY <3>1, <4>1, <4>2, <4>3 DEF Follows
    <3> QED BY <1>0, <3>1, <3>3, <3>4 DEF FollowInv
  <2> QED BY <2>2, <2>3
<1>13. CASE DeleteLogArchive \/ ClearLogArchives
  BY <1>1, <1>13 DEF DeleteLogArchive, ClearLogArchives, RemoveArchives
<1>14. CASE WatchLogs
  <2> DEFINE w == [NoFollow EXCEPT !.on = TRUE, !.offset = LogEnd, !.f = starts]
  <2>1. file # NoFile /\ follow' = w /\ UNCHANGED <<cells, file, starts>>  BY <1>14 DEF WatchLogs
  <2>2. file \in Seq(Cell) /\ Len(file) \in Nat  BY <1>0, <2>1, LenProperties DEF LogType
  <2> DEFINE none == <<>>
  <2>3. none \in Seq(Cell) /\ none \in Seq(Seq(Cell)) /\ Len(none) = 0  BY EmptySeq
  <2>4. NoFollow = [on |-> FALSE, offset |-> 0, partial |-> none, emitted |-> none, f |-> 0, blind |-> FALSE]  BY DEF NoFollow
  <2> HIDE DEF none
  <2>5. w \in Streams /\ w.on /\ w.offset = Len(file) /\ w.f = starts /\ w.partial = none /\ w.emitted = none
    BY <1>0, <2>2, <2>3, <2>4 DEF Streams, LogEnd
  <2> HIDE DEF w
  <2>6. Sent(w) /\ \A c : SentBelow(w, c)
    BY <2>3, <2>5 DEF Sent, SentBelow, Ordered, FromOneFile, Below
  <2>7. starts <= starts /\ Len(file) <= Len(file)  BY <1>0, <2>2
  <2>8. Follows(follow)'  BY <2>1, <2>5, <2>6, <2>7 DEF Follows, none
  <2> QED BY <1>0, <2>1, <2>5, <2>6, <2>8 DEF FollowInv, LogCells, Base
<1>15. CASE FollowPoll
  <2>1. follow.on /\ UNCHANGED <<cells, file, starts>>  BY <1>15 DEF FollowPoll
  <2>2. follow' \in Streams /\ Sent(follow') /\ Follows(follow)'  BY <1>0, <1>15, <2>1, PollKeeps
  <2> QED BY <1>0, <2>1, <2>2 DEF FollowInv, LogCells, Base
<1>16. CASE FollowEnds  BY <1>3, <1>16 DEF FollowEnds
<1>17. CASE UNCHANGED vars  BY <1>1, <1>17 DEF vars, logVars
<1> QED BY <1>4, <1>5, <1>6, <1>7, <1>8, <1>9, <1>10, <1>11, <1>12, <1>13, <1>14, <1>15, <1>16, <1>17 DEF Next

-----------------------------------------------------------------------------
(* The tail of a log                                                       *)

\* What a log has after its first d cells.
Ending(log, d) == SubSeq(log, d + 1, Len(log))

LEMMA Endings ==
  ASSUME NEW log \in Seq(Cell), NEW d \in Nat, d <= Len(log)
  PROVE  /\ Ending(log, d) \in Seq(Cell) /\ Len(Ending(log, d)) = Len(log) - d /\ Len(log) \in Nat
         /\ \A i \in 1..(Len(log) - d) : Ending(log, d)[i] = log[d + i]
<1>1. Len(log) \in Nat /\ Len(log) <= Len(log)  BY LenProperties
<1>2. Cut(SubSeq(log, d + 1, Len(log)), log, d, Len(log))  BY <1>1, SubSeqCuts
<1> QED BY <1>1, <1>2 DEF Cut, Ending

LEMMA EndingOfEnding ==
  ASSUME NEW log \in Seq(Cell), NEW d \in Nat, NEW a \in Nat, d + a <= Len(log)
  PROVE  Ending(Ending(log, d), a) = Ending(log, d + a)
<1> DEFINE x == Ending(log, d)
           y == Ending(x, a)
           z == Ending(log, d + a)
           L == Len(log)
           b == d + a
<1>0. L \in Nat /\ d <= L /\ b \in Nat /\ b <= L  BY LenProperties
<1>1. /\ x \in Seq(Cell) /\ Len(x) = L - d
      /\ \A i \in 1..(L - d) : x[i] = log[d + i]
  BY <1>0, Endings
<1>2. /\ Ending(log, b) \in Seq(Cell) /\ Len(Ending(log, b)) = L - b
      /\ \A i \in 1..(L - b) : Ending(log, b)[i] = log[b + i]
  <2> HIDE DEF b
  <2> QED BY <1>0, Endings
<1> HIDE DEF x
<1>3. /\ y \in Seq(Cell) /\ Len(y) = Len(x) - a
      /\ \A i \in 1..(Len(x) - a) : y[i] = x[a + i]
  <2>1. a <= Len(x)  BY <1>0, <1>1
  <2> QED BY <1>1, <2>1, Endings
<1> HIDE DEF y, L
<1>4. Len(y) = L - b  BY <1>0, <1>1, <1>3
<1>5. ASSUME NEW i \in 1..(L - b) PROVE y[i] = Ending(log, b)[i]
  <2>1. i \in 1..(Len(x) - a) /\ a + i \in 1..(L - d) /\ d + (a + i) = b + i  BY <1>0, <1>1
  <2> QED BY <1>1, <1>2, <1>3, <2>1
<1>6. y = Ending(log, b)
  <2> DEFINE e == Ending(log, b)
  <2> HIDE DEF e
  <2>1. y \in Seq(Cell) /\ e \in Seq(Cell) /\ Len(y) = Len(e) /\ \A i \in 1..Len(y) : y[i] = e[i]
    BY <1>2, <1>3, <1>4, <1>5 DEF e
  <2>2. y = e  BY <2>1, SeqEqual
  <2> QED BY <2>2 DEF e
<1> QED BY <1>6 DEF y, x

LEMMA EndingOfAll == ASSUME NEW log \in Seq(Cell) PROVE Ending(log, 0) = log
<1> DEFINE e == Ending(log, 0)
<1>1. Len(log) \in Nat /\ 0 <= Len(log)  BY LenProperties
<1>2. /\ e \in Seq(Cell) /\ Len(e) = Len(log) - 0 /\ \A i \in 1..(Len(log) - 0) : e[i] = log[0 + i]
  BY <1>1, Endings
<1> HIDE DEF e
<1>3. Len(e) = Len(log) /\ \A i \in 1..Len(log) : e[i] = log[i]
  <2>1. Len(log) - 0 = Len(log) /\ \A i \in 1..Len(log) : 0 + i = i  BY <1>1
  <2> QED BY <1>2, <2>1
<1>4. e = log  BY <1>2, <1>3, SeqEqual
<1> QED BY <1>4 DEF e

\* A shorter ending is a suffix of a longer one.
LEMMA EndingsAreSuffixes ==
  ASSUME NEW log \in Seq(Cell), NEW a \in Nat, NEW b \in Nat, a <= b, b <= Len(log)
  PROVE  IsSuffix(Ending(log, b), Ending(log, a))
<1> DEFINE L == Len(log)
           x == Ending(log, b)
           y == Ending(log, a)
           u == Reverse(x)
           v == Reverse(y)
<1>1. L \in Nat /\ a <= L /\ b <= L  BY LenProperties
<1>2. x \in Seq(Cell) /\ Len(x) = L - b /\ \A i \in 1..(L - b) : x[i] = log[b + i]  BY <1>1, Endings
<1>3. y \in Seq(Cell) /\ Len(y) = L - a /\ \A i \in 1..(L - a) : y[i] = log[a + i]  BY <1>1, Endings
<1> HIDE DEF x, y, L
<1>4. L - b \in Nat /\ L - a \in Nat /\ L - b <= L - a /\ \A i \in 1..(L - b) : i \in 1..(L - a)  BY <1>1
<1> DEFINE lx == L - b
           ly == L - a
<1>5. u = [i \in 1..lx |-> x[(lx - i) + 1]] /\ v = [i \in 1..ly |-> y[(ly - i) + 1]]  BY <1>2, <1>3 DEF Reverse
<1> HIDE DEF u, v
<1>6. \A i \in 1..lx : x[(lx - i) + 1] = log[(L - i) + 1] /\ x[(lx - i) + 1] \in Cell
  <2> SUFFICES ASSUME NEW i \in 1..lx PROVE x[(lx - i) + 1] = log[(L - i) + 1] /\ x[(lx - i) + 1] \in Cell  OBVIOUS
  <2>1. (lx - i) + 1 \in 1..(L - b) /\ b + ((lx - i) + 1) = (L - i) + 1  BY <1>1, <1>4
  <2>2. x[(lx - i) + 1] \in Cell  BY <1>2, <2>1, ElementOfSeq
  <2> QED BY <1>2, <2>1, <2>2
<1>7. \A i \in 1..ly : y[(ly - i) + 1] = log[(L - i) + 1] /\ y[(ly - i) + 1] \in Cell
  <2> SUFFICES ASSUME NEW i \in 1..ly PROVE y[(ly - i) + 1] = log[(L - i) + 1] /\ y[(ly - i) + 1] \in Cell  OBVIOUS
  <2>1. (ly - i) + 1 \in 1..(L - a) /\ a + ((ly - i) + 1) = (L - i) + 1  BY <1>1, <1>4
  <2>2. y[(ly - i) + 1] \in Cell  BY <1>3, <2>1, ElementOfSeq
  <2> QED BY <1>3, <2>1, <2>2
<1> HIDE DEF lx, ly
<1>8. lx \in Nat /\ ly \in Nat /\ lx <= ly /\ \A i \in 1..lx : i \in 1..ly  BY <1>4 DEF lx, ly
<1>9. u \in Seq(Cell) /\ Len(u) = lx /\ v \in Seq(Cell) /\ Len(v) = ly
  <2>1. u \in [1..lx -> Cell] /\ v \in [1..ly -> Cell]  BY <1>5, <1>6, <1>7
  <2>2. u \in Seq(Cell) /\ v \in Seq(Cell) /\ DOMAIN u = 1..lx /\ DOMAIN v = 1..ly  BY <1>8, <2>1, IsASeq
  <2>3. Len(u) \in Nat /\ DOMAIN u = 1..Len(u) /\ Len(v) \in Nat /\ DOMAIN v = 1..Len(v)  BY <2>2, LenProperties
  <2>4. Len(u) = lx /\ Len(v) = ly  BY <1>8, <2>2, <2>3
  <2> QED BY <2>2, <2>4
<1>10. \A i \in 1..lx : u[i] = v[i]  BY <1>5, <1>6, <1>7, <1>8
<1> DEFINE p == SubSeq(u, 1, lx)
           q == SubSeq(v, 1, lx)
<1>11. /\ p \in Seq(Cell) /\ Len(p) = lx /\ \A i \in 1..lx : p[i] = u[i]
       /\ q \in Seq(Cell) /\ Len(q) = lx /\ \A i \in 1..lx : q[i] = v[i]
  <2>1. \A s \in {u, v} : \A i \in 1..lx : s[i] \in Cell  BY <1>8, <1>9, ElementOfSeq
  <2>2. ASSUME NEW s \in {u, v}
        PROVE  /\ SubSeq(s, 1, lx) \in Seq(Cell) /\ Len(SubSeq(s, 1, lx)) = (IF 1 <= lx THEN lx - 1 + 1 ELSE 0)
               /\ \A i \in 1..(lx - 1 + 1) : SubSeq(s, 1, lx)[i] = s[1 + i - 1]
    <3>1. lx \in Int  BY <1>8
    <3> QED BY <2>1, <3>1, SubSeqProperties
  <2>3. lx - 1 + 1 = lx /\ (IF 1 <= lx THEN lx - 1 + 1 ELSE 0) = lx /\ \A i \in 1..lx : 1 + i - 1 = i  BY <1>8
  <2> QED BY <2>2, <2>3
<1> HIDE DEF p, q
<1>12. p = q  BY <1>10, <1>11, SeqEqual
<1> QED BY <1>8, <1>9, <1>12 DEF IsSuffix, IsPrefix, u, v, x, y, p, q

\* c has the places of a, and after them those of e, d further on.
Shifted(c, a, e, d) ==
  /\ c \in Seq(Nat) /\ a \in Seq(Nat) /\ e \in Seq(Nat) /\ Len(c) = Len(a) + Len(e)
  /\ \A i \in 1..Len(a) : c[i] = a[i]
  /\ \A i \in 1..Len(e) : c[Len(a) + i] = e[i] + d

LEMMA ShiftedMore ==
  ASSUME NEW c, NEW a, NEW e, NEW d \in Nat, Shifted(c, a, e, d), NEW m \in Nat
  PROVE  Shifted(Append(c, d + m), a, Append(e, m), d)
<1> DEFINE C == Append(c, d + m)
           E == Append(e, m)
<1>1. /\ c \in Seq(Nat) /\ a \in Seq(Nat) /\ e \in Seq(Nat) /\ Len(c) = Len(a) + Len(e)
      /\ Len(a) \in Nat /\ Len(c) \in Nat /\ Len(e) \in Nat
  BY LenProperties DEF Shifted
<1>2. /\ C \in Seq(Nat) /\ Len(C) = Len(c) + 1 /\ C[Len(c) + 1] = d + m /\ \A i \in 1..Len(c) : C[i] = c[i]
  <2> DEFINE x == d + m
  <2>1. x \in Nat  OBVIOUS
  <2> HIDE DEF x
  <2>2. /\ Append(c, x) \in Seq(Nat) /\ Len(Append(c, x)) = Len(c) + 1 /\ Append(c, x)[Len(c) + 1] = x
        /\ \A i \in 1..Len(c) : Append(c, x)[i] = c[i]
    BY <1>1, <2>1, AppendProperties
  <2> QED BY <2>2 DEF x
<1>3. /\ E \in Seq(Nat) /\ Len(E) = Len(e) + 1 /\ E[Len(e) + 1] = m /\ \A i \in 1..Len(e) : E[i] = e[i]
  BY <1>1, AppendProperties
<1> HIDE DEF C, E
<1>4. \A i \in 1..Len(a) : C[i] = a[i]
  <2>1. \A i \in 1..Len(a) : i \in 1..Len(c)  BY <1>1
  <2> QED BY <1>2, <2>1 DEF Shifted
<1>5. ASSUME NEW i \in 1..Len(E) PROVE C[Len(a) + i] = E[i] + d
  <2>1. CASE i = Len(e) + 1
    <3>1. Len(a) + i = Len(c) + 1 /\ d + m = m + d  BY <1>1, <2>1
    <3> QED BY <1>2, <1>3, <2>1, <3>1
  <2>2. CASE i # Len(e) + 1
    <3>1. i \in 1..Len(e) /\ Len(a) + i \in 1..Len(c)
      <4> DEFINE le == Len(e)
                 la == Len(a)
      <4>1. le \in Nat /\ la \in Nat /\ Len(c) = la + le /\ i \in 1..(le + 1) /\ i # le + 1  BY <1>1, <1>3, <2>2
      <4> HIDE DEF le, la
      <4> QED BY <4>1 DEF le, la
    <3> QED BY <1>2, <1>3, <3>1 DEF Shifted
  <2> QED BY <2>1, <2>2
<1>6. Len(C) = Len(a) + Len(E)  BY <1>1, <1>2, <1>3
<1> QED BY <1>1, <1>2, <1>3, <1>4, <1>5, <1>6 DEF Shifted, C, E

\* Where the lines of a log end: those of its first cells, and those of the others.
LEMMA EndsOfEnding ==
  ASSUME NEW log \in Seq(Cell), NEW d \in Nat, d <= Len(log)
  PROVE  \E a \in Seq(Nat) : Shifted(Ends(log), a, Ends(Ending(log, d)), d) /\ \A i \in 1..Len(a) : a[i] \in 1..d
<1> DEFINE L == Len(log)
           M == L - d
           data == Ending(log, d)
           S == {i \in DOMAIN log : log[i].nl}
           T == {i \in DOMAIN data : data[i].nl}
           a == Chosen(S, d)
           G == {m \in 0..M : Shifted(Chosen(S, d + m), a, Chosen(T, m), d)}
<1>1. L \in Nat /\ DOMAIN log = 1..L  BY LenProperties
<1>2. data \in Seq(Cell) /\ Len(data) = M /\ \A i \in 1..M : data[i] = log[d + i]  BY Endings
<1> HIDE DEF data
<1>3. DOMAIN data = 1..Len(data)  BY <1>2, LenProperties
<1>4. M \in Nat /\ d + M = L  BY <1>1
<1> HIDE DEF L, M
<1>5. \A m \in 1..M : d + m \in S <=> m \in T
  <2>1. \A m \in 1..M : d + m \in 1..L  BY <1>1, <1>4
  <2> QED BY <1>1, <1>2, <1>3, <2>1
<1> HIDE DEF S, T
<1>6. Lists(a, S, d) /\ a \in Seq(Nat)  BY ChosenLists DEF Lists
<1>7. 0 \in G
  <2>1. Agree(T, T, 0)  BY DEF Agree
  <2>2. Chosen(T, 0) = <<>>  BY <2>1, ChosenNext
  <2>3. d + 0 = d /\ 0 \in 0..M  BY <1>4
  <2>4. Len(<<>>) = 0 /\ <<>> \in Seq(Nat)  BY EmptySeq
  <2>5. Len(a) \in Nat  BY <1>6, LenProperties
  <2>6. Len(a) = Len(a) + 0  BY <2>5
  <2> HIDE DEF a
  <2>7. Shifted(a, a, <<>>, d)  BY <1>6, <2>4, <2>6 DEF Shifted
  <2> QED BY <2>2, <2>3, <2>7 DEF a
<1>8. ASSUME NEW m \in 1..M, m - 1 \in G PROVE m \in G
  <2> DEFINE p == m - 1
             q == d + p
  <2>1. p \in Nat /\ p + 1 = m /\ q \in Nat /\ q + 1 = d + m /\ m \in 0..M /\ m \in Nat  BY <1>4
  <2>2. Shifted(Chosen(S, q), a, Chosen(T, p), d)  BY <1>8
  <2>3. Agree(S, S, q) /\ Agree(T, T, p)  BY DEF Agree
  <2> HIDE DEF p, q
  <2>4. /\ Chosen(S, q + 1) = IF q + 1 \in S THEN Append(Chosen(S, q), q + 1) ELSE Chosen(S, q)
        /\ Chosen(T, p + 1) = IF p + 1 \in T THEN Append(Chosen(T, p), p + 1) ELSE Chosen(T, p)
    BY <2>1, <2>3, ChosenNext
  <2> HIDE DEF a
  <2>5. Shifted(Chosen(S, d + m), a, Chosen(T, m), d)
    <3> DEFINE c == Chosen(S, q)
               e == Chosen(T, p)
    <3> HIDE DEF c, e
    <3>1. CASE m \in T
      <4>1. Chosen(S, d + m) = Append(c, d + m) /\ Chosen(T, m) = Append(e, m)  BY <1>5, <2>1, <2>4, <3>1 DEF c, e
      <4>2. Shifted(Append(c, d + m), a, Append(e, m), d)  BY <2>1, <2>2, ShiftedMore DEF c, e
      <4> QED BY <4>1, <4>2
    <3>2. CASE m \notin T  BY <1>5, <2>1, <2>2, <2>4, <3>2
    <3> QED BY <3>1, <3>2
  <2> QED BY <2>1, <2>5
<1>9. Shifted(Chosen(S, L), a, Chosen(T, M), d)
  <2>1. M \in 0..M  BY <1>4
  <2>2. M \in G
    <3> HIDE DEF G
    <3> QED BY <1>4, <1>7, <1>8, <2>1, PlaceByPlace
  <2> QED BY <1>4, <2>2
<1>10. Ends(log) = Chosen(S, L) /\ Ends(data) = Chosen(T, M)  BY <1>2 DEF Ends, S, T, L
<1>11. \A i \in 1..Len(a) : a[i] \in 1..d
  <2> HIDE DEF a
  <2> QED BY <1>6 DEF Lists
<1> QED BY <1>6, <1>9, <1>10, <1>11 DEF data

\* The places of the newlines of a log.
LEMMA EndsAreListed ==
  ASSUME NEW log \in Seq(Cell)
  PROVE  /\ Ends(log) \in Seq(Nat) /\ Len(Ends(log)) \in Nat /\ Len(log) \in Nat
         /\ \A i \in 1..Len(Ends(log)) : Ends(log)[i] \in 1..Len(log) /\ log[Ends(log)[i]].nl
         /\ \A i, j \in 1..Len(Ends(log)) : i < j => Ends(log)[i] < Ends(log)[j]
         /\ \A k \in 1..Len(log) : log[k].nl => \E i \in 1..Len(Ends(log)) : Ends(log)[i] = k
<1> DEFINE N == Len(log)
           S == {i \in DOMAIN log : log[i].nl}
           e == Ends(log)
<1>1. N \in Nat /\ DOMAIN log = 1..N  BY LenProperties
<1>2. Lists(e, S, N)
  <2> HIDE DEF S, N
  <2>1. Lists(Chosen(S, N), S, N)  BY <1>1, ChosenLists
  <2> QED BY <2>1 DEF Ends, S, N
<1> HIDE DEF e
<1>3. \A k \in 1..N : k \in S <=> log[k].nl  BY <1>1
<1> HIDE DEF S, N
<1>4. e \in Seq(Nat) /\ Len(e) \in Nat  BY <1>2, LenProperties DEF Lists
<1> QED BY <1>1, <1>2, <1>3, <1>4 DEF Lists, e, N

\* Something is left over exactly where the last cell does not end a line.
LEMMA RestIsUnended ==
  ASSUME NEW data \in Seq(Cell), data # <<>>
  PROVE  Rest(data) = <<>> <=> data[Len(data)].nl
<1> DEFINE e == Ends(data)
           N == Len(data)
<1>1. Cut(Rest(data), data, Stop(e), N)  BY LinesSplit DEF Splits
<1>2. \A i \in 1..Len(e) : e[i] <= Stop(e)  BY LinesSplit DEF Splits
<1>3. N \in Nat /\ N # 0 /\ N \in 1..N
  <2>1. N \in Nat /\ N # 0  BY EmptySeq, LenProperties
  <2> QED BY <2>1
<1>4. /\ Len(e) \in Nat /\ (\A i \in 1..Len(e) : e[i] \in 1..N /\ data[e[i]].nl) /\ e \in Seq(Nat)
      /\ \A k \in 1..N : data[k].nl => \E i \in 1..Len(e) : e[i] = k
  BY EndsAreListed
<1> HIDE DEF e, N
<1>5. Stop(e) \in Nat /\ Stop(e) <= N /\ Rest(data) \in Seq(Cell) /\ Len(Rest(data)) = N - Stop(e)
  BY <1>1 DEF Cut, N
<1>6. Rest(data) = <<>> <=> Stop(e) = N
  <2>1. Rest(data) = <<>> => Len(Rest(data)) = 0  BY EmptySeq
  <2>2. Rest(data) # <<>> => Len(Rest(data)) \in Nat \ {0}  BY <1>5, EmptySeq
  <2>3. Len(Rest(data)) = 0 <=> Stop(e) = N  BY <1>3, <1>5
  <2> QED BY <2>1, <2>2, <2>3
<1>7. ASSUME data[N].nl PROVE Stop(e) = N
  <2>1. PICK i \in 1..Len(e) : e[i] = N  BY <1>3, <1>4, <1>7
  <2>2. N <= Stop(e)  BY <1>2, <2>1
  <2> QED BY <1>3, <1>5, <2>2
<1>8. ASSUME Stop(e) = N PROVE data[N].nl
  <2>1. e # <<>>  BY <1>3, <1>8 DEF Stop
  <2>2. Len(e) # 0  BY <1>4, <2>1, EmptySeq
  <2>3. Len(e) \in 1..Len(e)  BY <1>4, <2>2
  <2> QED BY <1>4, <1>8, <2>1, <2>3 DEF Stop
<1> QED BY <1>6, <1>7, <1>8 DEF N

\* How many parts a log has, and where the last n of them begin.
Parts(data) == Len(Ends(data)) + (IF Rest(data) = <<>> THEN 0 ELSE 1)
Where(data, n) == IF Parts(data) > n THEN Ends(data)[Parts(data) - n] ELSE 0

LEMMA FormatCuts ==
  ASSUME NEW data \in Seq(Cell), NEW n \in Nat \ {0}
  PROVE  /\ FormatTail(data, n) = Ending(data, Where(data, n))
         /\ Where(data, n) \in Nat /\ Where(data, n) <= Len(data) /\ Parts(data) \in Nat
<1>1. Len(data) \in Nat /\ Len(Ends(data)) \in Nat /\ \A i \in 1..Len(Ends(data)) : Ends(data)[i] \in 1..Len(data)
  BY EndsAreListed
<1>2. Parts(data) \in Nat /\ (Parts(data) > n => Parts(data) - n \in 1..Len(Ends(data)))
  <2>1. CASE Rest(data) = <<>>  BY <1>1, <2>1 DEF Parts
  <2>2. CASE Rest(data) # <<>>
    <3> DEFINE l == Len(Ends(data))
    <3>1. l \in Nat /\ Parts(data) = l + 1  BY <1>1, <2>2 DEF Parts
    <3> HIDE DEF l
    <3>2. l + 1 \in Nat /\ (l + 1 > n => (l + 1) - n \in 1..l)  BY <3>1
    <3> QED BY <3>1, <3>2 DEF l
  <2> QED BY <2>1, <2>2
<1>3. CASE Parts(data) > n
  <2>1. Where(data, n) \in 1..Len(data)  BY <1>1, <1>2, <1>3 DEF Where
  <2>2. FormatTail(data, n) = Ending(data, Where(data, n))  BY <1>3 DEF FormatTail, Parts, Where, Ending, Newlines
  <2> QED BY <1>1, <1>2, <2>1, <2>2
<1>4. CASE ~(Parts(data) > n)
  <2>1. Where(data, n) = 0 /\ FormatTail(data, n) = data  BY <1>4 DEF FormatTail, Parts, Where, Newlines
  <2> QED BY <1>1, <1>2, <2>1, EndingOfAll
<1> QED BY <1>3, <1>4

\* The lines after the end of a line are those that were not before.
LEMMA LinesAfter ==
  ASSUME NEW log \in Seq(Cell), NEW k \in 1..Len(Ends(log))
  PROVE  Newlines(Ending(log, Ends(log)[k])) = Len(Ends(log)) - k
<1> DEFINE el == Ends(log)
           b == el[k]
           en == Ends(Ending(log, b))
<1>1. /\ Len(el) \in Nat /\ Len(log) \in Nat /\ b \in 1..Len(log) /\ el \in Seq(Nat)
      /\ \A i, j \in 1..Len(el) : i < j => el[i] < el[j]
      /\ \A i \in 1..Len(el) : el[i] \in Nat
  <2>1. \A i \in 1..Len(el) : el[i] \in 1..Len(log)  BY EndsAreListed
  <2>2. \A i \in 1..Len(el) : el[i] \in Nat  BY <2>1
  <2> QED BY <2>1, <2>2, EndsAreListed
<1> HIDE DEF b
<1>2. b \in Nat /\ b <= Len(log) /\ b = el[k]  BY <1>1 DEF b
<1>3. PICK a \in Seq(Nat) : Shifted(el, a, en, b) /\ \A i \in 1..Len(a) : a[i] \in 1..b  BY <1>2, EndsOfEnding
<1>4. Ending(log, b) \in Seq(Cell)  BY <1>2, Endings
<1>5. Len(en) \in Nat /\ \A i \in 1..Len(en) : en[i] \in Nat /\ en[i] > 0
  <2>1. Len(en) \in Nat /\ \A i \in 1..Len(en) : en[i] \in 1..Len(Ending(log, b))  BY <1>4, EndsAreListed
  <2> QED BY <2>1
<1> HIDE DEF el, en
<1> DEFINE A == Len(a)
           E == Len(en)
           N == Len(el)
<1>6. A \in Nat /\ E \in Nat /\ N = A + E /\ (\A i \in 1..A : el[i] = a[i]) /\ (\A i \in 1..E : el[A + i] = en[i] + b)
  BY <1>3, <1>5, LenProperties DEF Shifted
<1>7. k \in 1..N  BY DEF el
<1> HIDE DEF A, E, N
<1>8. ~(A < k)
  <2> SUFFICES ASSUME A < k PROVE FALSE  OBVIOUS
  <2> DEFINE j == k - A
  <2>1. j \in 1..E /\ A + j = k  BY <1>6, <1>7
  <2> HIDE DEF j
  <2>2. el[k] = en[j] + b /\ en[j] \in Nat /\ en[j] > 0  BY <1>5, <1>6, <2>1 DEF E
  <2> QED BY <1>2, <2>2
<1>9. ~(A > k)
  <2> SUFFICES ASSUME A > k PROVE FALSE  OBVIOUS
  <2>1. A \in 1..A /\ A \in 1..N /\ k \in 1..N /\ k < A  BY <1>6, <1>7
  <2>2. el[k] < el[A] /\ el[A] \in Nat  BY <1>1, <2>1 DEF N
  <2>3. el[A] = a[A] /\ a[A] \in 1..b  BY <1>3, <1>6, <2>1 DEF A
  <2> QED BY <1>2, <2>2, <2>3
<1>10. E = N - k  BY <1>6, <1>7, <1>8, <1>9
<1> QED BY <1>2, <1>10 DEF Newlines, E, N, en, el

\* The tail of an ending of a log is the tail of the log, as far as it goes.
LEMMA TailsAgree ==
  ASSUME NEW log \in Seq(Cell), NEW n \in Nat \ {0}, NEW d \in Nat, d <= Len(log), d = Len(log) => Len(log) = 0
  PROVE  LET got == FormatTail(Ending(log, d), n)
             want == FormatTail(log, n)
         IN  /\ IsSuffix(got, want)
             /\ d = 0 \/ Newlines(Ending(log, d)) >= n => Newlines(got) = Newlines(want)
<1> DEFINE data == Ending(log, d)
           got == FormatTail(data, n)
           want == FormatTail(log, n)
<1>1. Len(log) \in Nat /\ data \in Seq(Cell) /\ Len(data) = Len(log) - d /\ \A i \in 1..(Len(log) - d) : data[i] = log[d + i]
  BY Endings
<1>2. /\ want = Ending(log, Where(log, n)) /\ Where(log, n) \in Nat /\ Where(log, n) <= Len(log) /\ Parts(log) \in Nat
  BY FormatCuts
<1>3. CASE d = 0
  <2>1. got = want  BY <1>3, EndingOfAll
  <2>2. Where(log, n) <= Where(log, n)  BY <1>2
  <2>3. IsSuffix(want, want)
    <3> DEFINE x == Where(log, n)
    <3> HIDE DEF x
    <3>1. x \in Nat /\ x <= x /\ x <= Len(log)  BY <1>2, <2>2 DEF x
    <3>2. IsSuffix(Ending(log, x), Ending(log, x))  BY <3>1, EndingsAreSuffixes
    <3> QED BY <1>2, <3>2 DEF x
  <2> QED BY <2>1, <2>3
<1>4. CASE d # 0
  <2> DEFINE el == Ends(log)
             ed == Ends(data)
  <2>1. PICK a \in Seq(Nat) : Shifted(el, a, ed, d) /\ \A i \in 1..Len(a) : a[i] \in 1..d  BY EndsOfEnding
  <2>2. /\ got = Ending(data, Where(data, n)) /\ Where(data, n) \in Nat /\ Where(data, n) <= Len(data) /\ Parts(data) \in Nat
    BY <1>1, FormatCuts
  <2>3. Parts(log) = Len(a) + Parts(data) /\ Len(a) \in Nat /\ Len(ed) \in Nat /\ Len(el) = Len(a) + Len(ed)
        /\ Parts(data) \in {Len(ed), Len(ed) + 1}
    <3>1. Len(log) - d # 0 /\ Len(log) # 0 /\ Len(log) - d \in 1..(Len(log) - d) /\ d + (Len(log) - d) = Len(log)  BY <1>1, <1>4
    <3>2. data[Len(data)] = log[Len(log)]  BY <1>1, <3>1
    <3>3. data # <<>> /\ log # <<>>
      <4>1. Len(<<>>) = 0  BY EmptySeq
      <4> QED BY <1>1, <3>1, <4>1
    <3>4. Rest(data) = <<>> <=> Rest(log) = <<>>  BY <1>1, <3>2, <3>3, RestIsUnended
    <3>5. Len(a) \in Nat /\ Len(ed) \in Nat /\ Len(el) = Len(a) + Len(ed)  BY <2>1, LenProperties DEF Shifted
    <3>6. CASE Rest(data) = <<>>  BY <3>4, <3>5, <3>6 DEF Parts
    <3>7. CASE Rest(data) # <<>>  BY <3>4, <3>5, <3>7 DEF Parts
    <3> QED BY <3>6, <3>7
  <2> DEFINE K == Len(a)
             P == Parts(data)
  <2>4. (\A i \in 1..K : el[i] = a[i] /\ a[i] \in Nat /\ a[i] <= d) /\ (\A i \in 1..Len(ed) : el[K + i] = ed[i] + d)
    <3>1. \A i \in 1..K : a[i] \in 1..d  BY <2>1
    <3>2. \A i \in 1..K : a[i] \in Nat /\ a[i] <= d  BY <3>1
    <3> QED BY <2>1, <3>2 DEF Shifted
  <2> HIDE DEF data, got, want, el, ed, K, P
  <2>5. K \in Nat /\ P \in Nat /\ Len(ed) \in Nat /\ Parts(log) = K + P /\ Len(el) = K + Len(ed) /\ P \in {Len(ed), Len(ed) + 1}
    BY <2>2, <2>3 DEF K, P
  <2>6. CASE P > n
    <3> DEFINE j == P - n
    <3>1. j \in 1..Len(ed) /\ (K + P) - n = K + j /\ K + P > n  BY <2>5, <2>6
    <3> HIDE DEF j
    <3>2. Where(log, n) = el[K + j] /\ Where(data, n) = ed[j]  BY <2>5, <2>6, <3>1 DEF Where, P, j, el, ed
    <3>3. Where(log, n) = d + Where(data, n)
      <4>1. el[K + j] = ed[j] + d  BY <2>4, <3>1
      <4> QED BY <2>2, <3>2, <4>1
    <3>4. Ending(data, Where(data, n)) = Ending(log, d + Where(data, n))
      <4> DEFINE x == Where(data, n)
      <4> HIDE DEF x
      <4>1. x \in Nat /\ d + x <= Len(log)  BY <1>2, <2>2, <3>3 DEF x
      <4>2. Ending(Ending(log, d), x) = Ending(log, d + x)  BY <4>1, EndingOfEnding
      <4> QED BY <4>2 DEF x, data
    <3>5. got = want  BY <1>2, <2>2, <3>3, <3>4 DEF want
    <3>6. IsSuffix(want, want)
      <4> DEFINE x == Where(log, n)
      <4> HIDE DEF x
      <4>1. x \in Nat /\ x <= x /\ x <= Len(log)  BY <1>2 DEF x
      <4>2. IsSuffix(Ending(log, x), Ending(log, x))  BY <4>1, EndingsAreSuffixes
      <4> QED BY <1>2, <4>2 DEF x, want
    <3> QED BY <3>5, <3>6 DEF got, want, data
  <2>7. CASE ~(P > n)
    <3>1. got = data
      <4>1. Where(data, n) = 0  BY <2>7 DEF Where, P
      <4> QED BY <1>1, <2>2, <4>1, EndingOfAll
    <3>2. Where(log, n) <= d
      <4>1. CASE ~(Parts(log) > n)  BY <4>1 DEF Where
      <4>2. CASE Parts(log) > n
        <5> DEFINE j == (K + P) - n
        <5>1. j \in 1..K  BY <2>5, <2>7, <4>2
        <5>2. Where(log, n) = el[j]  BY <2>5, <4>2 DEF Where, el
        <5> HIDE DEF j
        <5> QED BY <2>4, <5>1, <5>2
      <4> QED BY <4>1, <4>2
    <3>3. IsSuffix(got, want)
      <4> DEFINE x == Where(log, n)
      <4> HIDE DEF x
      <4>1. x \in Nat /\ x <= d  BY <1>2, <3>2 DEF x
      <4>2. IsSuffix(Ending(log, d), Ending(log, x))  BY <4>1, EndingsAreSuffixes
      <4> QED BY <1>2, <3>1, <4>2 DEF x, want, data
    <3>4. ASSUME Len(ed) >= n PROVE Newlines(got) = Newlines(want)
      <4>1. P = n /\ Len(ed) = n  BY <2>5, <2>7, <3>4
      <4>2. Newlines(got) = n  BY <3>1, <4>1 DEF Newlines, ed
      <4>3. CASE K = 0
        <5>1. ~(Parts(log) > n) /\ Len(el) = n  BY <2>5, <4>1, <4>3
        <5>2. want = log  BY <1>2, <5>1, EndingOfAll DEF Where, want
        <5> QED BY <4>2, <5>1, <5>2 DEF Newlines, el
      <4>4. CASE K # 0
        <5>1. Parts(log) > n /\ Parts(log) - n = K /\ K \in 1..Len(el) /\ Len(el) - K = n  BY <2>5, <4>1, <4>4
        <5>2. want = Ending(log, el[K])  BY <1>2, <5>1 DEF Where, want, el
        <5>3. Newlines(Ending(log, Ends(log)[K])) = Len(Ends(log)) - K  BY <5>1, LinesAfter DEF el
        <5> QED BY <4>2, <5>1, <5>2, <5>3 DEF el
      <4> QED BY <4>3, <4>4
    <3> QED BY <1>4, <3>3, <3>4 DEF got, want, data, ed, Newlines
  <2> QED BY <2>6, <2>7
<1> QED BY <1>3, <1>4

\* readTailChunks stops: at the start of the log, at its limit or with the lines it wants.
LEMMA ReadsEnough ==
  ASSUME NEW log \in Seq(Cell), NEW n \in Nat \ {0}
  PROVE  \E d \in Nat : /\ d <= Len(log) /\ ReadTailChunks(log, n) = Ending(log, d)
                        /\ d = Len(log) => Len(log) = 0
                        /\ Len(log) <= MaxRead => d = 0 \/ Newlines(Ending(log, d)) >= n
<1> DEFINE L == Len(log)
           size == [c \in 0..L |-> IF c * Chunk > MaxRead THEN MaxRead ELSE c * Chunk]
           sizes == {IF c * Chunk > MaxRead THEN MaxRead ELSE c * Chunk : c \in 0..L}
           enough == {r \in sizes : Enough(log, r, n)}
           Stops(r) == Enough(log, r, n) /\ \A q \in sizes : q < r => ~Enough(log, q, n)
           read == CHOOSE r \in sizes : Stops(r)
<1>1. L \in Nat /\ Chunk \in Nat \ {0} /\ MaxRead \in Nat \ {0}  BY RecordsOK, LenProperties
<1>2. sizes \subseteq Nat
  <2>1. \A c \in 0..L : c * Chunk \in Nat  BY <1>1
  <2> QED BY <1>1, <2>1
<1>3. enough # {}
  <2> DEFINE r == IF L * Chunk > MaxRead THEN MaxRead ELSE L * Chunk
  <2>1. L \in 0..L  BY <1>1
  <2>2. r \in sizes  BY <2>1
  <2>3. L * Chunk >= L  BY <1>1
  <2>4. L * Chunk \in Nat  BY <1>1
  <2>5. r >= L \/ r >= MaxRead  BY <1>1, <2>3, <2>4
  <2>6. Enough(log, r, n)  BY <2>5 DEF Enough
  <2> QED BY <2>2, <2>6
<1> HIDE DEF sizes
<1>4. \E r \in sizes : Stops(r)
  <2>1. IsWellFoundedOn(OpToRel(<, Nat), Nat)  BY NatLessThanWellFounded
  <2>2. enough \subseteq Nat  BY <1>2
  <2> HIDE DEF enough
  <2>3. PICK r \in enough : \A q \in enough : ~(<<q, r>> \in OpToRel(<, Nat))  BY <1>3, <2>1, <2>2, WFMin
  <2>4. \A q \in enough : ~(q < r)
    <3>1. \A q, s \in Nat : q < s => <<q, s>> \in OpToRel(<, Nat)  BY DEF OpToRel
    <3> QED BY <2>2, <2>3, <3>1
  <2>5. r \in sizes /\ Enough(log, r, n)  BY <2>3 DEF enough
  <2>6. \A q \in sizes : q < r => ~Enough(log, q, n)  BY <2>4 DEF enough
  <2> QED BY <2>5, <2>6
<1>5. read \in sizes /\ Enough(log, read, n)
  <2> HIDE DEF Stops
  <2>1. read \in sizes /\ Stops(read)  BY <1>4
  <2> QED BY <2>1 DEF Stops
<1>6. ReadTailChunks(log, n) = SubSeq(log, TailStart(log, read) + 1, L)  BY DEF ReadTailChunks, sizes
<1> HIDE DEF read
<1> DEFINE d == TailStart(log, read)
<1>7. read \in Nat  BY <1>2, <1>5
<1>8. /\ d = IF L > read THEN L - read ELSE 0
      /\ read >= L \/ read >= MaxRead \/ Newlines(Ending(log, d)) >= n
  BY <1>5 DEF TailStart, Enough, Ending
<1>9. ReadTailChunks(log, n) = Ending(log, d)  BY <1>6 DEF Ending
<1> HIDE DEF d, L
<1>10. d \in Nat /\ d <= L  BY <1>1, <1>7, <1>8
<1>11. ASSUME d = L PROVE L = 0
  <2> SUFFICES ASSUME L # 0 PROVE FALSE  BY <1>1
  <2>1. read = 0  BY <1>1, <1>7, <1>8, <1>11
  <2>2. Newlines(Ending(log, d)) >= n  BY <1>1, <1>8, <2>1
  <2>3. Ending(log, d) \in Seq(Cell) /\ Len(Ending(log, d)) = L - d  BY <1>10, Endings DEF L
  <2>4. Len(Ending(log, d)) = 0  BY <1>1, <1>11, <2>3
  <2>5. Len(Ends(Ending(log, d))) \in Nat /\ \A i \in 1..Len(Ends(Ending(log, d))) : Ends(Ending(log, d))[i] \in 1..0
    BY <2>3, <2>4, EndsAreListed
  <2>6. Len(Ends(Ending(log, d))) = 0
    <3> DEFINE m == Len(Ends(Ending(log, d)))
    <3>1. m \in Nat /\ ~(1 \in 1..m)  BY <2>5
    <3> HIDE DEF m
    <3>2. m = 0  BY <3>1
    <3> QED BY <3>2 DEF m
  <2> QED BY <2>2, <2>6 DEF Newlines
<1>12. L <= MaxRead => d = 0 \/ Newlines(Ending(log, d)) >= n  BY <1>1, <1>7, <1>8
<1> QED BY <1>9, <1>10, <1>11, <1>12 DEF L

LEMMA TailsEnd ==
  ASSUME NEW log \in Seq(Cell), NEW lines \in 0..(MaxTailLines + 1)
  PROVE  EndOf(TailFile(log, TailLines(lines)), log, lines)
<1> DEFINE n == TailLines(lines)
<1>1. n \in Nat \ {0}  BY RecordsOK DEF TailLines
<1> HIDE DEF n
<1>2. PICK d \in Nat : /\ d <= Len(log) /\ ReadTailChunks(log, n) = Ending(log, d)
                       /\ d = Len(log) => Len(log) = 0
                       /\ Len(log) <= MaxRead => d = 0 \/ Newlines(Ending(log, d)) >= n
  BY <1>1, ReadsEnough
<1>3. TailFile(log, n) = FormatTail(Ending(log, d), n)  BY <1>2 DEF TailFile
<1>4. /\ IsSuffix(FormatTail(Ending(log, d), n), FormatTail(log, n))
      /\ d = 0 \/ Newlines(Ending(log, d)) >= n => Newlines(FormatTail(Ending(log, d), n)) = Newlines(FormatTail(log, n))
  BY <1>1, <1>2, TailsAgree
<1> QED BY <1>2, <1>3, <1>4 DEF EndOf, n

-----------------------------------------------------------------------------
(* Theorems                                                                *)

LEMMA Invariance == Spec => []IInv
<1>1. Init => IInv  BY InitInv
<1>2. IInv /\ [Next]_vars => IInv'  BY EventSteps, LogSteps DEF IInv
<1> QED BY <1>1, <1>2, PTL DEF Spec

\* SubscribeAndList under one hold of the store's mutex, and Record's sends under
\* it: whatever the recorders do, a client of WatchEvents gets each event from the
\* first of its backlog on, once and in order, but those its full channel lost.
THEOREM WatchersMissNothing == Spec => []WatcherMissesNothing
<1>1. ASSUME IInv PROVE WatcherMissesNothing
  <2> DEFINE got == Got(watch)
  <2>1. watch.on => Stream(got, watch.dropped, made)  BY <1>1 DEF IInv, Watching
  <2>2. watch.on => ToSet(got) = {got[i] : i \in 1..Len(got)}  BY <2>1, LenProperties DEF Stream, ToSet
  <2> HIDE DEF got
  <2>3. watch.on => /\ \A i \in 1..(Len(got) - 1) : got[i] < got[i + 1]
                    /\ got # <<>> => (got[1])..made \subseteq ToSet(got) \cup watch.dropped
    BY <2>1, <2>2 DEF Stream
  <2> QED BY <2>3 DEF got, Got, WatcherMissesNothing
<1> QED BY <1>1, Invariance, PTL

\* AttachLogs, ArchiveLog and copyAndDelete: what a service wrote is in its log or
\* in an archive until an operator removes it, through restarts of the service,
\* failed archivings and deaths of the daemon between the copy and the removal.
THEOREM OutputIsKept == Spec => []NothingLost
<1>1. IInv => NothingLost  BY DEF IInv, Logs
<1> QED BY <1>1, Invariance, PTL

\* FileJournal.Record, readLocked and compactLocked: whatever a crash or a full disk did to
\* the journal earlier, the failures recorded since, but the first of them, are read back up
\* to the journal's limit.
THEOREM FailuresAreKept == Spec => []JournalKeepsNewest
<1>1. Init => JournalInv
  <2> SUFFICES ASSUME Init PROVE JournalInv  OBVIOUS
  <2>0. journal = <<>> /\ since = <<>> /\ made = 0 /\ rec = [g \in Operations |-> Idle]  BY DEF Init
  <2>1. Entries(<<>>) /\ <<>> \in Seq(JournalLine)  BY EmptySeq DEF Entries
  <2>2. RecordOK(Idle) /\ Idle.pc = "idle"  BY <2>1 DEF RecordOK, Idle, Marks
  <2> HIDE DEF Idle
  <2>3. DOMAIN rec = Operations /\ rec = [g \in Operations |-> rec[g]] /\ \A g \in Operations : rec[g] = Idle  BY <2>0
  <2>4. JournalType  BY <2>0, <2>1, <2>2, <2>3 DEF JournalType
  <2> QED BY <2>0, <2>2, <2>3, <2>4 DEF JournalInv, Readable, Compacts
<1>2. JournalInv /\ [Next]_vars => JournalInv'  BY JournalSteps
<1>3. ASSUME JournalInv, JournalFree, Len(since) > 1
      PROVE  ToSet(Newest(Tail(since), JournalLimit)) \subseteq ToSet(ReadLocked(journal)) /\ CheckRecentFailures(journal) = "recorded"
  <2> DEFINE read == ReadLocked(journal)
             t == Tail(since)
             new == Newest(t, JournalLimit)
  <2>1. /\ Entries(since) /\ since # <<>> /\ Entries(read) /\ Recalls(since, read) /\ JournalLimit \in Nat \ {0}
    BY <1>3, RecordsOK, ReadEntries DEF JournalInv, JournalType, Readable
  <2>2. since \in Seq(Nat) /\ Len(since) \in Nat /\ read \in Seq(Nat) /\ Len(read) \in Nat  BY <2>1, LenProperties DEF Entries
  <2>3. t \in Seq(Nat) /\ Len(t) = Len(since) - 1 /\ \A i \in 1..Len(t) : t[i] = since[i + 1]  BY <2>1, <2>2, HeadTailProperties
  <2> HIDE DEF read, t
  <2>4. /\ new \in Seq(Nat) /\ Len(new) \in Nat /\ Len(new) <= Len(t)
        /\ \A i \in 1..Len(new) : new[i] = t[Len(t) - Len(new) + i]
    BY <2>1, <2>3, NewestIsTheEnd, LenProperties
  <2>5. Len(new) <= JournalLimit /\ Len(t) \in Nat
    <3>1. Len(t) \in Nat  BY <2>3, LenProperties
    <3>2. Len(new) = IF Len(t) > JournalLimit THEN JournalLimit ELSE Len(t)  BY <2>1, <2>3, NewestCounts
    <3> QED BY <2>1, <3>1, <3>2
  <2> HIDE DEF new
  <2>6. ASSUME NEW i \in 1..Len(new) PROVE new[i] \in ToSet(read)
    <3> DEFINE j == Len(new) - i
    <3>1. j \in 0..(JournalLimit - 1) /\ j < Len(since) - 1
      <4>1. i \in Nat /\ 1 <= i /\ i <= Len(new)  BY <2>4
      <4>2. j \in Nat /\ j < Len(new)  BY <2>4, <4>1
      <4>3. j < JournalLimit /\ j < Len(since) - 1
        <5>1. /\ Len(new) \in Nat /\ Len(t) \in Nat /\ JournalLimit \in Nat /\ Len(since) \in Nat
              /\ Len(new) <= Len(t) /\ Len(new) <= JournalLimit /\ Len(t) = Len(since) - 1
          BY <2>1, <2>2, <2>3, <2>4, <2>5
        <5> HIDE DEF j
        <5> QED BY <4>2, <5>1
      <4> HIDE DEF j
      <4> QED BY <2>1, <4>2, <4>3
    <3>2. j < Len(read) /\ read[Len(read) - j] = since[Len(since) - j]  BY <2>1, <3>1 DEF Recalls
    <3>3. Len(t) - Len(new) + i \in 1..Len(t) /\ (Len(t) - Len(new) + i) + 1 = Len(since) - j  BY <2>2, <2>3, <2>4
    <3>4. new[i] = since[Len(since) - j]  BY <2>3, <2>4, <3>3
    <3>5. Len(read) - j \in DOMAIN read  BY <2>2, <3>1, <3>2, LenProperties
    <3> HIDE DEF j
    <3> QED BY <3>2, <3>4, <3>5 DEF ToSet
  <2>7. ToSet(new) \subseteq ToSet(read)
    <3>1. DOMAIN new = 1..Len(new)  BY <2>4, LenProperties
    <3> QED BY <2>6, <3>1 DEF ToSet
  <2>8. CheckRecentFailures(journal) = "recorded"
    <3>1. 0 \in 0..(JournalLimit - 1) /\ 0 < Len(since) - 1  BY <1>3, <2>1, <2>2
    <3>2. 0 < Len(read)  BY <2>1, <3>1 DEF Recalls
    <3>3. Newest(read, JournalLimit) # <<>>
      <4>1. Len(Newest(read, JournalLimit)) = IF Len(read) > JournalLimit THEN JournalLimit ELSE Len(read)  BY <2>1, <2>2, NewestCounts
      <4>2. Len(Newest(read, JournalLimit)) > 0  BY <2>1, <2>2, <3>2, <4>1
      <4>3. Len(<<>>) = 0  BY EmptySeq
      <4> QED BY <4>2, <4>3
    <3> QED BY <3>3 DEF CheckRecentFailures, Recent, read
  <2> QED BY <2>7, <2>8 DEF read, t, new
<1>4. JournalInv => JournalKeepsNewest  BY <1>3 DEF JournalKeepsNewest
<1> QED BY <1>1, <1>2, <1>4, PTL DEF Spec

\* FollowLog and readNewLines: an offset and an incomplete line, kept from one poll to the
\* next while the service writes and restarts, give a client each output once and in order,
\* and no line of it is joined from two files, unless a new log grew past what was read of the
\* old one between two polls.
THEOREM NothingTwice == Spec => []FollowedWhole
<1>1. Init => FollowInv
  <2> SUFFICES ASSUME Init PROVE FollowInv  OBVIOUS
  <2>1. file = NoFile /\ follow = NoFollow  BY DEF Init
  <2> QED BY <2>1, NothingSent DEF FollowInv, LogCells
<1>2. ASSUME FollowInv PROVE FollowedWhole
  <2>1. Sent(follow) /\ follow.partial \in Seq(Cell) /\ follow.emitted \in Seq(Seq(Cell))  BY <1>2 DEF FollowInv, Streams
  <2>2. DOMAIN follow.emitted = 1..Len(follow.emitted)
    <3> DEFINE V == Seq(Cell)
    <3>1. follow.emitted \in Seq(V)  BY <2>1
    <3> HIDE DEF V
    <3> QED BY <3>1, LenProperties
  <2>3. \A n \in 1..Len(follow.emitted) : follow.emitted[n] \in Seq(Cell)  BY <2>1, ElementOfSeq
  <2> QED BY <2>1, <2>2, <2>3, OrderedIsInOrder DEF Sent, FollowedWhole
<1>3. IInv /\ FollowInv /\ [Next]_vars => FollowInv'  BY FollowSteps
<1>4. FollowInv => FollowedWhole  BY <1>2
<1> QED BY <1>1, <1>3, <1>4, Invariance, PTL DEF Spec

\* readTailChunks and formatTail: reading chunks from the end, up to a limit, shows the same
\* end of a log or an archive as reading all of it, with as many lines as were asked for.
THEOREM TailsAreTheEnd == Spec => []TailShowsLatest
<1>1. ASSUME IInv PROVE TailShowsLatest
  <2>1. /\ file = NoFile \/ file \in Seq(Cell)
        /\ archives \in Seq(Seq(Cell))
    BY <1>1 DEF IInv, Logs, LogType
  <2>2. \A i \in DOMAIN archives : archives[i] \in Seq(Cell)
    <3> DEFINE V == Seq(Cell)
    <3>1. archives \in Seq(V)  BY <2>1
    <3> HIDE DEF V
    <3>2. \A i \in DOMAIN archives : archives[i] \in V  BY <3>1, LenProperties, ElementOfSeq
    <3> QED BY <3>2 DEF V
  <2> SUFFICES ASSUME NEW lines \in 0..(MaxTailLines + 1)
               PROVE  /\ file # NoFile => EndOf(GetLogs(lines), file, lines)
                      /\ \A i \in ListArchives : EndOf(GetLogArchive(i, lines), archives[i], lines)
    BY DEF TailShowsLatest
  <2>3. file # NoFile => EndOf(GetLogs(lines), file, lines)  BY <2>1, TailsEnd DEF GetLogs
  <2>4. ASSUME NEW i \in ListArchives PROVE EndOf(GetLogArchive(i, lines), archives[i], lines)
    <3>1. archives[i] \in Seq(Cell) /\ GetLogArchive(i, lines) = TailFile(archives[i], TailLines(lines))
      BY <2>2, <2>4 DEF ListArchives, GetLogArchive, ArchivePath
    <3> QED BY <3>1, TailsEnd
  <2> QED BY <2>3, <2>4
<1>2. IInv => TailShowsLatest  BY <1>1
<1> QED BY <1>2, Invariance, PTL

=============================================================================
