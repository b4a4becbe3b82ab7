------------------------- MODULE RuntimeSlotProofs -------------------------
(***************************************************************************)
(* What the control manager guarantees about its slot, for every instance. *)
(* First the inductive invariant IInv and its proof: the frame lemmas      *)
(* (OutsideStep, ReservingStep, InsideStep, ClosingStep) say what the four *)
(* kinds of handler step owe the invariant; each action then cites the one *)
(* it is an instance of.  The safety invariants follow from IInv, the      *)
(* action property and the refinement from IInv and what one handler step  *)
(* may do to the slot.  Last, the address the slot reports, under the      *)
(* hypothesis that no profile write moves a profile.                       *)
(***************************************************************************)
EXTENDS RuntimeSlot, SequenceTheorems, FiniteSetTheorems, TLAPS

\* t is what is left of s when its k-th element is cut out.
IsCut(t, s, k) ==
  /\ Len(t) = Len(s) - 1
  /\ \A i \in 1..(Len(s) - 1) : (i < k => t[i] = s[i]) /\ (k <= i => t[i] = s[i + 1])

\* A sequence cut in two at an element that is left out.
LEMMA CutProperties ==
  ASSUME NEW S, NEW s \in Seq(S), NEW k \in 1..Len(s), NEW t,
         t = SubSeq(s, 1, k - 1) \o SubSeq(s, k + 1, Len(s))
  PROVE  t \in Seq(S) /\ IsCut(t, s, k)
<1>1. PICK a : a = SubSeq(s, 1, k - 1)
  OBVIOUS
<1>2. PICK b : b = SubSeq(s, k + 1, Len(s))
  OBVIOUS
<1>3. /\ a \in Seq(S) /\ Len(a) = k - 1
      /\ \A i \in 1..(k - 1) : a[i] = s[i]
  BY <1>1
<1>4. /\ b \in Seq(S) /\ Len(b) = Len(s) - k
      /\ \A i \in 1..(Len(s) - k) : b[i] = s[k + i]
  BY <1>2
<1>5. t = a \o b
  BY <1>1, <1>2
<1> HIDE <1>1, <1>2
<1>10. /\ a \o b \in Seq(S) /\ Len(a \o b) = Len(a) + Len(b)
      /\ \A i \in 1..Len(a) + Len(b) : (a \o b)[i] = IF i <= Len(a) THEN a[i] ELSE b[i - Len(a)]
  BY <1>3, <1>4, ConcatProperties, Zenon
<1>6. /\ t \in Seq(S) /\ Len(t) = Len(a) + Len(b)
      /\ \A i \in 1..(Len(a) + Len(b)) : t[i] = IF i <= Len(a) THEN a[i] ELSE b[i - Len(a)]
  BY <1>5, <1>10, Zenon
<1>7. Len(t) = Len(s) - 1 /\ Len(s) \in Nat
  <2>1. Len(s) \in Nat
    BY LenProperties, Zenon
  <2>2. Len(a) = k - 1 /\ Len(b) = Len(s) - k /\ Len(t) = Len(a) + Len(b)
    BY <1>3, <1>4, <1>6, Zenon
  <2>3. \A la, lb, ls, lt : /\ ls \in Nat /\ k \in 1..ls
                            /\ la = k - 1 /\ lb = ls - k /\ lt = la + lb
                            => lt = ls - 1
    OBVIOUS
  <2> QED
    BY <2>1, <2>2, <2>3, Zenon
<1>8. ASSUME NEW i \in 1..(Len(s) - 1), i < k
      PROVE  t[i] = s[i]
  <2>1. i \in 1..(Len(a) + Len(b)) /\ i <= Len(a) /\ i \in 1..(k - 1)
    BY <1>3, <1>4, <1>7, <1>8
  <2>2. t[i] = a[i]
    BY <1>6, <2>1, Zenon
  <2> QED
    BY <1>3, <2>1, <2>2, Zenon
<1>9. ASSUME NEW i \in 1..(Len(s) - 1), k <= i
      PROVE  t[i] = s[i + 1]
  <2>1. /\ i \in 1..(Len(a) + Len(b)) /\ ~(i <= Len(a))
        /\ i - Len(a) \in 1..(Len(s) - k) /\ k + (i - Len(a)) = i + 1
    BY <1>3, <1>4, <1>7, <1>9
  <2>2. t[i] = b[i - Len(a)]
    BY <1>6, <2>1, Zenon
  <2>3. b[i - Len(a)] = s[k + (i - Len(a))]
    BY <1>4, <2>1, Zenon
  <2> QED
    BY <2>1, <2>2, <2>3, Zenon
<1> QED
  BY <1>6, <1>7, <1>8, <1>9, Zenon DEF IsCut

\* slices.DeleteFunc on a list that names p cuts one element out.
LEMMA WithoutCuts ==
  ASSUME NEW S, NEW s \in Seq(S), NEW p, \E i \in DOMAIN s : s[i] = p, NEW t, t = Without(s, p)
  PROVE  t \in Seq(S) /\ \E k \in 1..Len(s) : IsCut(t, s, k)
<1>1. PICK k : k = Position(s, p)
  OBVIOUS
<1>2. k \in 1..Len(s)
  BY <1>1 DEF Position
<1>3. t = SubSeq(s, 1, k - 1) \o SubSeq(s, k + 1, Len(s))
  BY <1>1 DEF Without
<1>4. t \in Seq(S) /\ IsCut(t, s, k)
  BY <1>2, <1>3, CutProperties
<1> QED BY <1>2, <1>4

\* slices.DeleteFunc on a held list: what it leaves is a list of profiles, empty
\* for the last profile, not empty otherwise, and still without duplicates.
LEMMA WithoutProperties ==
  ASSUME NEW S, NEW s \in Seq(S), NEW p
  PROVE  /\ Without(s, p) \in Seq(S)
         /\ Len(s) = 1 /\ s[1] = p => Without(s, p) = <<>>
         /\ Len(s) > 1 => Without(s, p) # <<>>
         /\ (\A i, j \in DOMAIN s : s[i] = s[j] => i = j)
              => \A i, j \in DOMAIN Without(s, p) : Without(s, p)[i] = Without(s, p)[j] => i = j
<1>1. CASE ~ \E i \in DOMAIN s : s[i] = p
  <2>1. Without(s, p) = s
    BY <1>1 DEF Without
  <2> QED
    BY <1>1, <2>1
<1>2. CASE \E i \in DOMAIN s : s[i] = p
  <2>3. PICK t : t = Without(s, p)
    OBVIOUS
  <2>4. t \in Seq(S) /\ \E k \in 1..Len(s) : IsCut(t, s, k)
    BY <1>2, <2>3, WithoutCuts
  <2>1. PICK k \in 1..Len(s) : IsCut(t, s, k)
    BY <2>4
  <2>5. /\ t \in Seq(S) /\ Len(t) = Len(s) - 1
        /\ \A i \in 1..(Len(s) - 1) : (i < k => t[i] = s[i]) /\ (k <= i => t[i] = s[i + 1])
    BY <2>4, <2>1 DEF IsCut
  <2>2. k \in 1..Len(s)
    OBVIOUS
  <2>6. ASSUME \A i, j \in DOMAIN s : s[i] = s[j] => i = j
        PROVE  \A i, j \in DOMAIN t : t[i] = t[j] => i = j
    <3>1. SUFFICES ASSUME NEW i \in 1..(Len(s) - 1), NEW j \in 1..(Len(s) - 1), t[i] = t[j]
                   PROVE  i = j
      BY <2>5
    <3>2. DOMAIN s = 1..Len(s) /\ Len(s) \in Nat
      OBVIOUS
    <3>3. PICK f : f = IF i < k THEN i ELSE i + 1
      OBVIOUS
    <3>4. PICK g : g = IF j < k THEN j ELSE j + 1
      OBVIOUS
    <3>6. f \in 1..Len(s) /\ g \in 1..Len(s)
      BY <3>2, <3>3, <3>4
    <3>7. t[i] = s[f]
      BY <2>5, <3>3
    <3>8. t[j] = s[g]
      BY <2>5, <3>4
    <3>5. f = g
      BY <2>6, <3>1, <3>2, <3>6, <3>7, <3>8
    <3> QED
      BY <2>2, <3>2, <3>3, <3>4, <3>5
  <2>7. Len(s) = 1 => t = <<>>
    BY <2>5
  <2>8. Len(s) > 1 => t # <<>>
    BY <2>5
  <2> QED
    BY <2>3, <2>5, <2>6, <2>7, <2>8
<1> QED
  BY <1>1, <1>2

\* A rendered preset names profiles and models only (materialize).
LEMMA RenderPresets ==
  ASSUME NEW f \in [Profiles -> Docs \cup {None}], NEW b
  PROVE  Render(f, b) \in SUBSET (Profiles \X Models)
  BY ConstantsOK DEF Render, Models

\* A handler that has returned is well formed.
LEMMA IdleOK == Idle \in Calls /\ CallOK(Idle) /\ Idle.pc = "idle"
  BY ConstantsOK DEF Idle, Calls, CallOK, Pcs, Engines, Transitions

\* A handler's step touches that handler's record only.
LEMMA HandlerStep ==
  ASSUME TypeOK, CallInv, NEW c \in Callers, NEW r \in Calls, CallOK(r),
         call' = [call EXCEPT ![c] = r]
  PROVE  /\ call' \in [Callers -> Calls] /\ CallInv'
         /\ call'[c] = r /\ \A d \in Callers \ {c} : call'[d] = call[d]
<1>1. call \in [Callers -> Calls]
  BY DEF TypeOK
<1>2. /\ call' \in [Callers -> Calls]
      /\ call'[c] = r /\ \A d \in Callers \ {c} : call'[d] = call[d]
  BY <1>1
<1> QED BY <1>2 DEF CallInv

\* A step outside any transition (reading files, writing the preset, being turned
\* away, announcing) leaves the slot's invariants alone.
LEMMA OutsideStep ==
  ASSUME IInv, NEW c \in Callers, NEW r \in Calls, CallOK(r), call' = [call EXCEPT ![c] = r],
         ~InTransition(c), r.pc \notin Transitions, UNCHANGED <<slot, ops, engine, down>>
  PROVE  call' \in [Callers -> Calls] /\ CallInv' /\ OpsInv' /\ SlotInv' /\ OwnerInv' /\ EngineInv'
<1>1. /\ call' \in [Callers -> Calls] /\ CallInv'
      /\ call'[c] = r /\ \A d \in Callers \ {c} : call'[d] = call[d]
  BY HandlerStep DEF IInv
<1>2. \A d \in Callers : /\ InTransition(d)' <=> InTransition(d)
                         /\ InTransition(d) => call'[d] = call[d]
  BY <1>1 DEF InTransition
<1>3. OpsInv'
  BY <1>2 DEF IInv, OpsInv, NoAbandonedReservation
<1>4. SlotInv'
  BY DEF IInv, SlotInv, HeldOnce
<1>5. OwnerInv'
  BY <1>2 DEF IInv, OwnerInv, OwnerOK, Owns
<1>6. EngineInv'
  <2> SUFFICES ASSUME down = "up" PROVE EngineInv'
    BY DEF EngineInv
  <2>1. EngineOK(r)'
    BY DEF EngineOK, Transitions
  <2>2. \A d \in Callers : EngineOK(call[d])'
    BY <1>1, <2>1 DEF IInv, EngineInv, EngineOK, Quiet, Supervised
  <2>3. \A e : JustSpawned(e) => JustSpawned(e)'
    BY <1>2 DEF JustSpawned, InTransition, Transitions
  <2> QED
    BY <2>2, <2>3 DEF IInv, EngineInv, Settled, Supervised, Live
<1> QED BY <1>1, <1>3, <1>4, <1>5, <1>6

\* Until shutdown, a handler that is in a transition, or that finds the slot
\* unowned, is alone: no other handler is between reservation and commit.
LEMMA NobodyElse ==
  ASSUME IInv, down = "up", NEW c \in Callers, slot.op = 0 \/ InTransition(c)
  PROVE  \A d \in Callers \ {c} : ~InTransition(d)
<1>1. ASSUME NEW d \in Callers, InTransition(d) PROVE slot.op = call[d].op /\ slot.op # 0
  BY <1>1 DEF IInv, OpsInv
<1> QED
  BY <1>1 DEF IInv, OpsInv

\* A reservation (reserveLocked): a new operation takes an unowned slot.
LEMMA ReservingStep ==
  ASSUME IInv, NEW c \in Callers, NEW r \in Calls, CallOK(r), call' = [call EXCEPT ![c] = r],
         ~InTransition(c), r.pc \in Transitions, r.op = ops + 1,
         slot.op = 0, slot'.op = ops + 1, slot'.process = slot.process, slot'.state # "running",
         ops' = ops + 1, UNCHANGED <<engine, down>>,
         OwnerOK(r)', down = "up" => EngineOK(r)'
  PROVE  call' \in [Callers -> Calls] /\ CallInv' /\ OpsInv' /\ OwnerInv' /\ EngineInv'
<1>1. /\ call' \in [Callers -> Calls] /\ CallInv'
      /\ call'[c] = r /\ \A d \in Callers \ {c} : call'[d] = call[d]
  BY HandlerStep DEF IInv
<1>2. InTransition(c)' /\ \A d \in Callers \ {c} : InTransition(d)' <=> InTransition(d)
  BY <1>1 DEF InTransition
<1>3. ops \in Nat /\ \A d \in Callers \ {c} : InTransition(d) => call[d].op \in 1..ops
  BY ConstantsOK DEF IInv, OpsInv, TypeOK
<1>4. down = "up" => \A d \in Callers \ {c} : ~InTransition(d)
  BY NobodyElse
<1>5. OpsInv'
  <2>1. \A d \in Callers : InTransition(d)' => call'[d].op \in 1..ops'
    BY <1>1, <1>2, <1>3
  <2>2. \A d, e \in Callers : InTransition(d)' /\ InTransition(e)' /\ call'[d].op = call'[e].op => d = e
    BY <1>1, <1>2, <1>3 DEF IInv, OpsInv
  <2>3. down' = "up" => \A d \in Callers : InTransition(d)' => slot'.op = call'[d].op
    BY <1>1, <1>2, <1>4
  <2> QED
    BY <1>1, <1>2, <2>1, <2>2, <2>3 DEF OpsInv, NoAbandonedReservation
<1>6. OwnerInv'
  BY <1>1, <1>2, <1>3 DEF OwnerInv, Owns
<1>7. EngineInv'
  <2> SUFFICES ASSUME down = "up" PROVE EngineInv'
    BY DEF EngineInv
  <2>2. \A d \in Callers : EngineOK(call[d])'
    BY <1>1, <1>2, <1>4 DEF EngineOK, InTransition, Transitions
  <2>3. \A e \in Live : ~JustSpawned(e)
    BY <1>4 DEF JustSpawned, InTransition, Transitions
  <2>4. \A e \in Live' : e = slot'.process
    BY <2>3 DEF IInv, EngineInv, Live
  <2> QED
    BY <2>2, <2>4 DEF EngineInv, Settled
<1> QED BY <1>1, <1>5, <1>6, <1>7

\* A step inside a transition (stop, spawn) that does not touch the slot.
LEMMA InsideStep ==
  ASSUME IInv, NEW c \in Callers, NEW r \in Calls, CallOK(r), call' = [call EXCEPT ![c] = r],
         InTransition(c), r.pc \in Transitions, r.op = call[c].op, UNCHANGED <<slot, ops, down>>,
         Owns(c) => OwnerOK(r), down = "up" => EngineOK(r)',
         down = "up" => \A e \in Live' : e = slot.process \/ JustSpawned(e)'
  PROVE  call' \in [Callers -> Calls] /\ CallInv' /\ OpsInv' /\ SlotInv' /\ OwnerInv' /\ EngineInv'
<1>1. /\ call' \in [Callers -> Calls] /\ CallInv'
      /\ call'[c] = r /\ \A d \in Callers \ {c} : call'[d] = call[d]
  BY HandlerStep DEF IInv
<1>2. \A d \in Callers : (InTransition(d)' <=> InTransition(d)) /\ call'[d].op = call[d].op
  BY <1>1 DEF InTransition
<1>3. down = "up" => \A d \in Callers \ {c} : ~InTransition(d)
  BY NobodyElse
<1>4. OpsInv'
  BY <1>2 DEF IInv, OpsInv, NoAbandonedReservation
<1>5. SlotInv'
  BY DEF IInv, SlotInv, HeldOnce
<1>6. OwnerInv'
  BY <1>1, <1>2 DEF IInv, OwnerInv, OwnerOK, Owns
<1>7. EngineInv'
  <2> SUFFICES ASSUME down = "up" PROVE EngineInv'
    BY DEF EngineInv
  <2>1. \A d \in Callers : EngineOK(call[d])'
    BY <1>1, <1>2, <1>3 DEF EngineOK, InTransition, Transitions
  <2>2. slot.state # "running"
    BY DEF IInv, OpsInv, SlotInv
  <2> QED
    BY <2>1, <2>2 DEF EngineInv, Settled
<1> QED BY <1>1, <1>4, <1>5, <1>6, <1>7

\* A step that ends a transition, by commit or by failure; a handler that lost the
\* slot to shutdown changes nothing (the operation comparison in commit and fail).
LEMMA ClosingStep ==
  ASSUME IInv, NEW c \in Callers, NEW r \in Calls, CallOK(r), call' = [call EXCEPT ![c] = r],
         InTransition(c), r.pc \notin Transitions, UNCHANGED <<ops, down>>,
         Owns(c) => slot'.op = 0, ~Owns(c) => slot' = slot,
         down = "up" => /\ Settled' => Supervised(slot.process)'
                        /\ \A e \in Live' : e = slot'.process
  PROVE  call' \in [Callers -> Calls] /\ CallInv' /\ OpsInv' /\ OwnerInv' /\ EngineInv'
<1>1. /\ call' \in [Callers -> Calls] /\ CallInv'
      /\ call'[c] = r /\ \A d \in Callers \ {c} : call'[d] = call[d]
  BY HandlerStep DEF IInv
<1>2. ~InTransition(c)' /\ \A d \in Callers \ {c} : InTransition(d)' <=> InTransition(d)
  BY <1>1 DEF InTransition
<1>3. down = "up" => \A d \in Callers \ {c} : ~InTransition(d)
  BY NobodyElse
<1>4. OpsInv'
  <2>1. \A d \in Callers : InTransition(d)' => d # c /\ InTransition(d) /\ call'[d] = call[d]
    BY <1>1, <1>2
  <2>2. NoAbandonedReservation'
    BY <1>1, <1>2 DEF IInv, OpsInv, NoAbandonedReservation, Owns
  <2> QED
    BY <1>3, <2>1, <2>2 DEF IInv, OpsInv
<1>5. OwnerInv'
  <2> SUFFICES ASSUME NEW d \in Callers, InTransition(d)', Owns(d)'
               PROVE  OwnerOK(call[d])'
    BY DEF OwnerInv
  <2>1. d # c /\ InTransition(d) /\ call'[d] = call[d]
    BY <1>1, <1>2
  <2>2. call[d].op # 0
    BY <2>1 DEF IInv, OpsInv
  <2>3. slot' = slot
    BY <2>1, <2>2 DEF Owns
  <2> QED
    BY <2>1, <2>3 DEF IInv, OwnerInv, OwnerOK, Owns
<1>6. EngineInv'
  <2> SUFFICES ASSUME down = "up" PROVE EngineInv'
    BY DEF EngineInv
  <2>1. \A d \in Callers : EngineOK(call[d])'
    BY <1>1, <1>2, <1>3 DEF EngineOK, InTransition, Transitions
  <2> QED
    BY <2>1 DEF EngineInv
<1> QED BY <1>1, <1>4, <1>5, <1>6

\* What StartRuntime read from the store is a well-formed start.
LEMMA LoadedOK ==
  ASSUME TypeOK, NEW p \in Profiles, store[p] # None, NEW k \in {"start", "replace", "restart"}
  PROVE  Loaded(k, p) \in Calls /\ CallOK(Loaded(k, p)) /\ Loaded(k, p).pc = "render"
<1>1. store[p] \in Docs /\ store[p].addr \in Addrs
  BY ConstantsOK DEF TypeOK
<1>2. Render(store, store[p].backend) \in SUBSET (Profiles \X Models)
  BY RenderPresets DEF TypeOK
<1> QED
  BY <1>1, <1>2, IdleOK, ZenonT(60) DEF Loaded, Idle, Calls, CallOK, Pcs, Engines, Transitions

\* The parts of the invariant about one handler.
LEMMA CallerFacts ==
  ASSUME IInv, NEW c \in Callers
  PROVE  TypeOK /\ CallInv /\ call[c] \in Calls /\ CallOK(call[c])
  BY DEF IInv, TypeOK, CallInv

\* StartRuntime's read of the profile preserves the invariant.
LEMMA StartRequestInv ==
  ASSUME IInv, NEW c \in Callers, NEW p \in Profiles, NEW k \in {"start", "replace"}, StartRequest(c, k, p)
  PROVE  IInv'
<1> USE DEF StartRequest, Accepts, At
<1>1. call' = [call EXCEPT ![c] = Loaded(k, p)] /\ Loaded(k, p) \in Calls /\ CallOK(Loaded(k, p))
  BY LoadedOK DEF IInv
<1>2. ~InTransition(c) /\ Loaded(k, p).pc \notin Transitions
  BY LoadedOK DEF IInv, InTransition, Transitions
<1>3. call' \in [Callers -> Calls] /\ CallInv' /\ OpsInv' /\ SlotInv' /\ OwnerInv' /\ EngineInv'
  BY <1>1, <1>2, OutsideStep DEF world, ending
<1>4. TypeOK'
  BY <1>3 DEF IInv, TypeOK, files, world, ending
<1> QED BY <1>3, <1>4 DEF IInv

\* The write of a start's generated files preserves the invariant.
LEMMA RenderStartInv ==
  ASSUME IInv, NEW c \in Callers, RenderStart(c)
  PROVE  IInv'
<1> USE DEF RenderStart, At
<1>1. TypeOK /\ CallInv /\ call[c] \in Calls /\ CallOK(call[c]) /\ ~InTransition(c)
  BY CallerFacts DEF InTransition, Transitions
<1>2. PICK r : call' = [call EXCEPT ![c] = r] /\ (r = Idle \/ r = [call[c] EXCEPT !.pc = "reserve"])
  BY DEF Goto, Return
<1>3. r \in Calls /\ CallOK(r) /\ r.pc \notin Transitions
  BY <1>1, <1>2, IdleOK DEF Calls, Pcs, CallOK, Transitions
<1>4. call' \in [Callers -> Calls] /\ CallInv' /\ OpsInv' /\ SlotInv' /\ OwnerInv' /\ EngineInv'
  BY <1>1, <1>2, <1>3, OutsideStep DEF world, ending
<1>5. call[c].preset \in SUBSET (Profiles \X Models)
  BY <1>1 DEF Calls
<1>6. generated' \in [Routers -> SUBSET (Profiles \X Models)]
  BY <1>1, <1>5 DEF TypeOK
<1>7. TypeOK'
  BY <1>1, <1>4, <1>6 DEF TypeOK, files, world, ending
<1> QED BY <1>4, <1>7 DEF IInv

\* The read that begins a stop, a restart or a delete preserves the invariant.
LEMMA StopRequestInv ==
  ASSUME IInv, NEW c \in Callers, NEW p \in Profiles, NEW k \in {"stop", "restart", "delete"}, StopRequest(c, k, p)
  PROVE  IInv'
<1> USE DEF StopRequest, Accepts, At
<1>1. TypeOK /\ CallInv /\ ~InTransition(c) /\ store[p] \in Docs
  BY CallerFacts DEF InTransition, Transitions, TypeOK
<1>2. PICK r : /\ call' = [call EXCEPT ![c] = r]
               /\ r = [Idle EXCEPT !.kind = k, !.pc = "reserve", !.job = "stop", !.profile = p, !.doc = store[p]]
  OBVIOUS
<1>3. r \in Calls /\ CallOK(r) /\ r.pc \notin Transitions
  BY <1>1, <1>2, IdleOK, ZenonT(60) DEF Calls, Pcs, CallOK, Transitions, Idle
<1>4. call' \in [Callers -> Calls] /\ CallInv' /\ OpsInv' /\ SlotInv' /\ OwnerInv' /\ EngineInv'
  BY <1>1, <1>2, <1>3, OutsideStep DEF world, ending
<1>5. TypeOK'
  BY <1>1, <1>4 DEF TypeOK, files, world, ending
<1> QED BY <1>4, <1>5 DEF IInv

\* What follows a successful stop is outside any transition.
LEMMA AfterStopOK ==
  ASSUME IInv, NEW c \in Callers, call[c].pc \in {"reserve", "announce"}, call[c].job = "stop", AfterStop(c)
  PROVE  \E r \in Calls : CallOK(r) /\ r.pc \notin Transitions /\ call' = [call EXCEPT ![c] = r]
<1>1. call[c] \in Calls /\ CallOK(call[c])
  BY CallerFacts
<1>2. PICK r : /\ call' = [call EXCEPT ![c] = r]
               /\ r = Idle \/ \E q \in {"erase", "reload_profile"} : r = [call[c] EXCEPT !.pc = q]
  BY DEF AfterStop, Goto, Return
<1>3. r \in Calls /\ CallOK(r) /\ r.pc \notin Transitions
  BY <1>1, <1>2, IdleOK DEF Calls, Pcs, CallOK, Transitions
<1> QED BY <1>2, <1>3

\* A list of at most one profile that holds p is <<p>>.
LEMMA OnlyProfile ==
  ASSUME NEW s \in Seq(Profiles), NEW p, NEW i \in DOMAIN s, s[i] = p, ~(Len(s) > 1)
  PROVE  Len(s) = 1 /\ s[1] = p
<1>1. Len(s) \in Nat /\ i \in 1..Len(s)
  BY LenProperties, Zenon
<1>2. \A n \in Nat : i \in 1..n /\ ~(n > 1) => n = 1 /\ i = 1
  OBVIOUS
<1> QED
  BY <1>1, <1>2, Zenon

\* A reservation that keeps what the slot serves.
LEMMA KeptSlot ==
  ASSUME IInv, NEW st \in {"activating", "stopping"}, NEW o, o = ops + 1, ops < MaxOps,
         slot.state # "nil", slot.op = 0, ops' = ops + 1,
         slot' = [slot EXCEPT !.state = st, !.op = o]
  PROVE  /\ slot' \in Slots
         /\ SlotInv' /\ slot.process \in Engines /\ slot.process # None /\ ops + 1 \in 0..MaxOps
         /\ slot'.state = st /\ slot'.op = ops + 1 /\ slot'.process = slot.process
         /\ slot'.profiles = slot.profiles /\ slot.profiles \in Seq(Profiles)
<1>1. TypeOK /\ SlotInv
  BY DEF IInv
<1>2. /\ slot'.state = st /\ slot'.op = ops + 1 /\ slot'.process = slot.process
      /\ slot'.profiles = slot.profiles /\ slot'.backend = slot.backend
  BY <1>1 DEF TypeOK, Slots
<1>3. /\ slot.process \in Engines /\ slot.process # None /\ ops \in Nat /\ ops + 1 \in 0..MaxOps
      /\ slot.process <= ops /\ slot.process \in Nat
  BY <1>1, ConstantsOK DEF TypeOK, SlotInv, Engines
<1>4. slot' \in Slots
  BY <1>1, <1>3 DEF TypeOK, States, Slots
<1>5. HeldOnce'
  BY <1>1, <1>2 DEF SlotInv, HeldOnce
<1>6. SlotInv'
  BY <1>2, <1>3, <1>5 DEF SlotInv
<1> QED BY <1>1, <1>2, <1>3, <1>4, <1>6 DEF TypeOK, Slots

\* reserveStop preserves the invariant.
LEMMA ReserveStopInv ==
  ASSUME IInv, NEW c \in Callers, ReserveStop(c)
  PROVE  IInv'
<1> USE DEF ReserveStop, At
<1>1. TypeOK /\ CallInv /\ call[c] \in Calls /\ CallOK(call[c]) /\ ~InTransition(c) /\ SlotInv
  BY CallerFacts DEF InTransition, Transitions, IInv
<1>2. CASE UNCHANGED <<slot, ops>>
  <2>1. PICK r \in Calls : CallOK(r) /\ r.pc \notin Transitions /\ call' = [call EXCEPT ![c] = r]
    <3>1. CASE AfterStop(c)
      BY <3>1, AfterStopOK
    <3>2. CASE ~AfterStop(c)
      <4>1. ASSUME ops' = ops + 1 PROVE FALSE
        BY <4>1, <1>1, <1>2, ConstantsOK DEF TypeOK
      <4>2. call' = [call EXCEPT ![c] = Idle]
        BY <3>2, <4>1 DEF TurnedAway, Return, Reserve
      <4> QED BY <4>2, IdleOK DEF Transitions
    <3> QED BY <3>1, <3>2
  <2>2. call' \in [Callers -> Calls] /\ CallInv' /\ OpsInv' /\ SlotInv' /\ OwnerInv' /\ EngineInv'
    BY <1>1, <1>2, <2>1, OutsideStep DEF world, ending
  <2>3. TypeOK'
    BY <1>1, <1>2, <2>2 DEF TypeOK, files, world, ending
  <2> QED BY <2>2, <2>3 DEF IInv
<1>3. CASE ~UNCHANGED <<slot, ops>>
  <2>1. /\ slot.state = "running" /\ slot.op = 0 /\ ops < MaxOps /\ Holds(call[c].profile)
        /\ slot' = [slot EXCEPT !.state = "stopping", !.op = ops + 1] /\ ops' = ops + 1
    BY <1>1, <1>3 DEF Reserve, TurnedAway, AfterStop, Settled, SlotInv
  <2>2. PICK r : /\ call' = [call EXCEPT ![c] = r]
                 /\ \/ /\ r = [call[c] EXCEPT !.op = ops + 1, !.pc = "commit", !.stop = None]
                       /\ Len(slot.profiles) > 1
                    \/ /\ r = [call[c] EXCEPT !.op = ops + 1, !.pc = "stop", !.stop = slot.process]
                       /\ ~(Len(slot.profiles) > 1)
    BY <1>1, <1>3 DEF Reserve, TurnedAway, AfterStop
  <2>3. /\ slot' \in Slots
        /\ SlotInv' /\ slot.process \in Engines /\ slot.process # None /\ ops + 1 \in 0..MaxOps
        /\ slot'.state = "stopping" /\ slot'.op = ops + 1 /\ slot'.process = slot.process
        /\ slot'.profiles = slot.profiles /\ slot.profiles \in Seq(Profiles)
    BY <2>1, KeptSlot
  <2>12. slot.process \in Engines /\ ops + 1 \in 0..MaxOps
    BY <2>3
  <2>4. r \in Calls /\ CallOK(r) /\ r.pc \in Transitions /\ r.op = ops + 1
    BY <1>1, <2>2, <2>12, ZenonT(60) DEF Calls, Pcs, CallOK, Transitions
  <2>5. Len(slot.profiles) > 1 \/ (Len(slot.profiles) = 1 /\ slot.profiles[1] = call[c].profile)
    BY <2>1, <2>3, OnlyProfile DEF Holds
  <2>6. r.job = "stop" /\ r.profile = call[c].profile
    BY <1>1, <2>2 DEF Calls
  <2>7. \/ r.pc = "commit" /\ r.stop = None /\ Len(slot.profiles) > 1
        \/ /\ r.pc = "stop" /\ r.stop = slot.process
           /\ Len(slot.profiles) = 1 /\ slot.profiles[1] = call[c].profile
    BY <1>1, <2>2, <2>5 DEF Calls
  <2>8. OwnerOK(r)'
    BY <2>3, <2>6, <2>7 DEF OwnerOK
  <2>9. down = "up" => EngineOK(r)'
    <3>1. down = "up" => Supervised(slot.process)'
      BY <2>1, <2>3 DEF IInv, EngineInv, Supervised, Settled, world
    <3> QED BY <2>3, <2>6, <2>7, <3>1 DEF EngineOK
  <2>10. call' \in [Callers -> Calls] /\ CallInv' /\ OpsInv' /\ OwnerInv' /\ EngineInv'
    BY <1>1, <2>1, <2>2, <2>3, <2>4, <2>8, <2>9, ReservingStep DEF world, ending
  <2>11. TypeOK'
    BY <1>1, <2>1, <2>3, <2>10 DEF TypeOK, files, world, ending
  <2> QED BY <2>3, <2>10, <2>11 DEF IInv
<1> QED BY <1>2, <1>3

\* The second half of RestartRuntime preserves the invariant.
LEMMA RestartLoadsInv ==
  ASSUME IInv, NEW c \in Callers, RestartLoads(c)
  PROVE  IInv'
<1> USE DEF RestartLoads, At
<1>1. /\ TypeOK /\ CallInv /\ call[c] \in Calls /\ ~InTransition(c)
      /\ call[c].profile \in Profiles
  BY CallerFacts DEF InTransition, Transitions, CallOK
<1>2. PICK r \in Calls : CallOK(r) /\ r.pc \notin Transitions /\ call' = [call EXCEPT ![c] = r]
  BY <1>1, LoadedOK, IdleOK DEF Return, Transitions
<1>3. call' \in [Callers -> Calls] /\ CallInv' /\ OpsInv' /\ SlotInv' /\ OwnerInv' /\ EngineInv'
  BY <1>1, <1>2, OutsideStep DEF world, ending
<1>4. TypeOK'
  BY <1>1, <1>3 DEF TypeOK, files, world, ending
<1> QED BY <1>3, <1>4 DEF IInv

\* The closing transition record preserves the invariant.
LEMMA AnnounceInv ==
  ASSUME IInv, NEW c \in Callers, Announce(c)
  PROVE  IInv'
<1> USE DEF Announce, At
<1>1. TypeOK /\ CallInv /\ call[c] \in Calls /\ ~InTransition(c)
  BY CallerFacts DEF InTransition, Transitions
<1>2. PICK r \in Calls : CallOK(r) /\ r.pc \notin Transitions /\ call' = [call EXCEPT ![c] = r]
  BY <1>1, AfterStopOK, IdleOK DEF Return, Transitions
<1>3. call' \in [Callers -> Calls] /\ CallInv' /\ OpsInv' /\ SlotInv' /\ OwnerInv' /\ EngineInv'
  BY <1>1, <1>2, OutsideStep DEF world, ending
<1>4. published' \in [op : 0..MaxOps, state : States \cup {"none", "stopped"}]
  BY <1>1 DEF Calls, States
<1>5. TypeOK'
  BY <1>1, <1>3, <1>4 DEF TypeOK, files, world, ending
<1> QED BY <1>3, <1>5 DEF IInv

\* PutProfile's write of the profile preserves the invariant.
LEMMA PutRequestInv ==
  ASSUME IInv, NEW c \in Callers, NEW p \in Profiles, NEW d \in Docs, PutRequest(c, p, d)
  PROVE  IInv'
<1> USE DEF PutRequest, Accepts, At
<1>1. TypeOK /\ CallInv /\ ~InTransition(c) /\ store' \in [Profiles -> Docs \cup {None}]
  BY CallerFacts DEF InTransition, Transitions, TypeOK
<1>2. Render(store', d.backend) \in SUBSET (Profiles \X Models)
  BY <1>1, RenderPresets
<1>3. PICK r : /\ call' = [call EXCEPT ![c] = r]
               /\ r = [Idle EXCEPT !.kind = "put", !.pc = "write", !.profile = p, !.doc = d,
                                   !.preset = Render(store', d.backend)]
  OBVIOUS
<1>4. r \in Calls /\ CallOK(r) /\ r.pc \notin Transitions
  BY <1>2, <1>3, IdleOK, ZenonT(60) DEF Calls, Pcs, CallOK, Transitions, Idle
<1>5. call' \in [Callers -> Calls] /\ CallInv' /\ OpsInv' /\ SlotInv' /\ OwnerInv' /\ EngineInv'
  BY <1>1, <1>3, <1>4, OutsideStep DEF world, ending
<1>6. TypeOK'
  BY <1>1, <1>5 DEF TypeOK, files, world, ending
<1> QED BY <1>5, <1>6 DEF IInv

\* DeleteProfile's removal of the profile preserves the invariant.
LEMMA EraseInv ==
  ASSUME IInv, NEW c \in Callers, Erase(c)
  PROVE  IInv'
<1> USE DEF Erase, At
<1>1. /\ TypeOK /\ CallInv /\ call[c] \in Calls /\ CallOK(call[c]) /\ ~InTransition(c)
      /\ store' \in [Profiles -> Docs \cup {None}]
  BY CallerFacts DEF InTransition, Transitions, TypeOK
<1>2. Render(store', call[c].doc.backend) \in SUBSET (Profiles \X Models)
  BY <1>1, RenderPresets
<1>3. PICK r : /\ call' = [call EXCEPT ![c] = r]
               /\ \/ r = Idle
                  \/ r = [call[c] EXCEPT !.pc = "write", !.preset = Render(store', call[c].doc.backend)]
  BY ZenonT(60) DEF Return
<1>4. r \in Calls /\ CallOK(r) /\ r.pc \notin Transitions
  BY <1>1, <1>2, <1>3, IdleOK, ZenonT(60) DEF Calls, Pcs, CallOK, Transitions
<1>5. call' \in [Callers -> Calls] /\ CallInv' /\ OpsInv' /\ SlotInv' /\ OwnerInv' /\ EngineInv'
  BY <1>1, <1>3, <1>4, OutsideStep DEF world, ending
<1>6. TypeOK'
  BY <1>1, <1>5 DEF TypeOK, files, world, ending
<1> QED BY <1>5, <1>6 DEF IInv

\* regenerate's write of the preset preserves the invariant.
LEMMA WriteGeneratedInv ==
  ASSUME IInv, NEW c \in Callers, WriteGenerated(c)
  PROVE  IInv'
<1> USE DEF WriteGenerated, At
<1>1. TypeOK /\ CallInv /\ call[c] \in Calls /\ CallOK(call[c]) /\ ~InTransition(c)
  BY CallerFacts DEF InTransition, Transitions
<1>2. PICK r : call' = [call EXCEPT ![c] = r] /\ (r = Idle \/ r = [call[c] EXCEPT !.pc = "reload"])
  BY DEF Return, Goto
<1>3. r \in Calls /\ CallOK(r) /\ r.pc \notin Transitions
  BY <1>1, <1>2, IdleOK DEF Calls, Pcs, CallOK, Transitions
<1>4. call' \in [Callers -> Calls] /\ CallInv' /\ OpsInv' /\ SlotInv' /\ OwnerInv' /\ EngineInv'
  BY <1>1, <1>2, <1>3, OutsideStep DEF world, ending
<1>5. call[c].preset \in SUBSET (Profiles \X Models)
  BY <1>1 DEF Calls
<1>6. generated' \in [Routers -> SUBSET (Profiles \X Models)]
  BY <1>1, <1>5 DEF TypeOK
<1>7. TypeOK'
  BY <1>1, <1>4, <1>6 DEF TypeOK, files, world, ending
<1> QED BY <1>4, <1>7 DEF IInv

\* ResetRuntimes' reservation preserves the invariant.
LEMMA ResetRequestInv ==
  ASSUME IInv, NEW c \in Callers, ResetRequest(c)
  PROVE  IInv'
<1> USE DEF ResetRequest, Accepts, At
<1>1. TypeOK /\ CallInv /\ ~InTransition(c)
  BY CallerFacts DEF InTransition, Transitions
<1>2. /\ slot' \in Slots /\ SlotInv' /\ slot.process \in Engines /\ slot.process # None /\ ops + 1 \in 0..MaxOps
      /\ slot'.state = "stopping" /\ slot'.op = ops + 1 /\ slot'.process = slot.process
  BY KeptSlot
<1>3. PICK r : /\ call' = [call EXCEPT ![c] = r]
               /\ r = [Idle EXCEPT !.kind = "reset", !.job = "reset", !.pc = "stop",
                                   !.op = ops + 1, !.stop = slot.process]
  OBVIOUS
<1>4. slot.process \in Engines /\ ops + 1 \in 0..MaxOps
  BY <1>2
<1>11. /\ r.pc = "stop" /\ r.op = ops + 1 /\ r.job = "reset" /\ r.stop = slot.process /\ r.proc = None
  BY <1>3 DEF Idle
<1>12. r \in Calls
  BY <1>3, <1>4, IdleOK, ZenonT(60) DEF Calls, Pcs
<1>5. /\ r \in Calls /\ CallOK(r) /\ r.pc = "stop" /\ r.pc \in Transitions /\ r.op = ops + 1
      /\ r.job = "reset" /\ r.stop = slot.process
  BY <1>11, <1>12 DEF CallOK, Transitions
<1>9. slot'.process = slot.process
  BY <1>2
<1>10. r.pc = "stop" /\ r.job = "reset" /\ r.stop = slot'.process /\ slot'.process \in Engines
  BY <1>4, <1>5, <1>9
<1>6. OwnerOK(r)' /\ EngineOK(r)'
  BY <1>10 DEF OwnerOK, EngineOK
<1>7. call' \in [Callers -> Calls] /\ CallInv' /\ OpsInv' /\ OwnerInv' /\ EngineInv'
  BY <1>1, <1>2, <1>3, <1>5, <1>6, ReservingStep DEF world, ending
<1>8. TypeOK'
  BY <1>1, <1>2, <1>7 DEF TypeOK, files, world, ending
<1> QED BY <1>2, <1>7, <1>8 DEF IInv

\* reloadRouter's reservation preserves the invariant.
LEMMA ReserveReloadInv ==
  ASSUME IInv, NEW c \in Callers, ReserveReload(c)
  PROVE  IInv'
<1> USE DEF ReserveReload, At
<1>1. TypeOK /\ CallInv /\ call[c] \in Calls /\ CallOK(call[c]) /\ ~InTransition(c) /\ SlotInv
  BY CallerFacts DEF InTransition, Transitions, IInv
<1>2. CASE TurnedAway(c)
  <2>1. call' \in [Callers -> Calls] /\ CallInv' /\ OpsInv' /\ SlotInv' /\ OwnerInv' /\ EngineInv'
    BY <1>1, <1>2, IdleOK, OutsideStep DEF world, ending, TurnedAway, Return, Transitions
  <2>2. TypeOK'
    BY <1>1, <1>2, <2>1 DEF TypeOK, files, world, ending, TurnedAway
  <2> QED BY <2>1, <2>2 DEF IInv
<1>3. CASE ~TurnedAway(c)
  <2>1. /\ slot.state = "running" /\ slot.op = 0 /\ ops < MaxOps
        /\ slot' = [slot EXCEPT !.state = "stopping", !.op = ops + 1] /\ ops' = ops + 1
        /\ call' = [call EXCEPT ![c] = [call[c] EXCEPT !.op = ops + 1, !.pc = "respec", !.job = "reload",
                                    !.profile = slot.profiles[1], !.stop = slot.process]]
    BY <1>1, <1>3 DEF Settled, SlotInv
  <2>2. /\ slot' \in Slots /\ SlotInv' /\ slot.process \in Engines /\ slot.process # None /\ ops + 1 \in 0..MaxOps
        /\ slot'.state = "stopping" /\ slot'.op = ops + 1 /\ slot'.process = slot.process
        /\ slot.profiles \in Seq(Profiles)
    BY <2>1, KeptSlot
  <2>3. slot.profiles[1] \in Profiles
    BY <1>1, <2>1, <2>2 DEF SlotInv, HeldOnce
  <2>4. PICK r : /\ call' = [call EXCEPT ![c] = r]
                 /\ r = [call[c] EXCEPT !.op = ops + 1, !.pc = "respec", !.job = "reload",
                                        !.profile = slot.profiles[1], !.stop = slot.process]
    BY <2>1
  <2>5. slot.process \in Engines /\ ops + 1 \in 0..MaxOps
    BY <2>2
  <2>6. /\ r \in Calls /\ CallOK(r) /\ r.pc = "respec" /\ r.pc \in Transitions /\ r.op = ops + 1
        /\ r.job = "reload" /\ r.stop = slot.process
    BY <1>1, <2>3, <2>4, <2>5, ZenonT(60) DEF Calls, Pcs, CallOK, Transitions
  <2>7. OwnerOK(r)' /\ EngineOK(r)'
    BY <2>2, <2>6 DEF OwnerOK, EngineOK
  <2>8. call' \in [Callers -> Calls] /\ CallInv' /\ OpsInv' /\ OwnerInv' /\ EngineInv'
    BY <1>1, <2>1, <2>2, <2>4, <2>6, <2>7, ReservingStep DEF world, ending
  <2>9. TypeOK'
    BY <1>1, <2>1, <2>2, <2>8 DEF TypeOK, files, world, ending
  <2> QED BY <2>2, <2>8, <2>9 DEF IInv
<1> QED BY <1>2, <1>3

\* Joining a router keeps its held list free of duplicates.
LEMMA AppendOnce ==
  ASSUME NEW s \in Seq(Profiles), NEW p \in Profiles, NEW t,
         t = IF \E i \in DOMAIN s : s[i] = p THEN s ELSE Append(s, p),
         \A i, j \in DOMAIN s : s[i] = s[j] => i = j
  PROVE  t \in Seq(Profiles) /\ t # <<>> /\ \A i, j \in DOMAIN t : t[i] = t[j] => i = j
<1>1. CASE \E i \in DOMAIN s : s[i] = p
  BY <1>1
<1>2. CASE ~ \E i \in DOMAIN s : s[i] = p
  <2>1. t = Append(s, p)
    BY <1>2
  <2>2. /\ t \in Seq(Profiles) /\ t # <<>> /\ Len(t) = Len(s) + 1
        /\ \A i \in 1..Len(s) : t[i] = s[i]
        /\ t[Len(s) + 1] = p
    BY <2>1, AppendProperties
  <2>3. DOMAIN s = 1..Len(s) /\ DOMAIN t = 1..Len(t) /\ Len(s) \in Nat
    BY <2>2, LenProperties, Zenon
  <2>4. SUFFICES ASSUME NEW i \in 1..Len(s) + 1, NEW j \in 1..Len(s) + 1, t[i] = t[j]
                 PROVE  i = j
    BY <2>2, <2>3, Zenon
  <2>5. CASE i \in 1..Len(s) /\ j \in 1..Len(s)
    BY <2>2, <2>3, <2>4, <2>5, Zenon
  <2>6. CASE i = Len(s) + 1 /\ j \in 1..Len(s)
    BY <1>2, <2>2, <2>3, <2>4, <2>6, Zenon
  <2>7. CASE i \in 1..Len(s) /\ j = Len(s) + 1
    BY <1>2, <2>2, <2>3, <2>4, <2>7, Zenon
  <2>8. CASE i = Len(s) + 1 /\ j = Len(s) + 1
    BY <2>8
  <2> QED
    BY <2>3, <2>4, <2>5, <2>6, <2>7, <2>8
<1> QED BY <1>1, <1>2

\* The held list of a fresh or replaced slot.
LEMMA SingletonOnce ==
  ASSUME NEW p \in Profiles
  PROVE  /\ <<p>> \in Seq(Profiles) /\ <<p>> # <<>> /\ Len(<<p>>) = 1
         /\ \A i, j \in DOMAIN <<p>> : <<p>>[i] = <<p>>[j] => i = j
  OBVIOUS

\* reserveStart preserves the invariant, whether it takes a free slot, joins the
\* router or replaces the held profile.
LEMMA ReserveStartInv ==
  ASSUME IInv, NEW c \in Callers, ReserveStart(c)
  PROVE  IInv'
<1> USE DEF ReserveStart, At
<1>1. /\ TypeOK /\ CallInv /\ call[c] \in Calls /\ CallOK(call[c]) /\ ~InTransition(c) /\ SlotInv
      /\ call[c].pc = "reserve" /\ call[c].job = "start" /\ slot \in Slots /\ ops \in Nat
  BY CallerFacts, ConstantsOK DEF InTransition, Transitions, IInv, TypeOK
<1>2. PICK d : d = call[c].doc /\ d \in Docs /\ d.backend \in Backends /\ d.addr \in Addrs
  BY <1>1, ConstantsOK DEF CallOK
<1>3. PICK p : p = call[c].profile /\ p \in Profiles
  BY <1>1 DEF CallOK
<1>4. CASE TurnedAway(c)
  <2>1. call' \in [Callers -> Calls] /\ CallInv' /\ OpsInv' /\ SlotInv' /\ OwnerInv' /\ EngineInv'
    BY <1>1, <1>4, IdleOK, OutsideStep DEF world, ending, TurnedAway, Return, Transitions
  <2>2. TypeOK'
    BY <1>1, <1>4, <2>1 DEF TypeOK, files, world, ending, TurnedAway
  <2> QED BY <2>1, <2>2 DEF IInv
<1>5. CASE ~TurnedAway(c)
  \* the three ways to take the slot
  <2>1. PICK s, st, pc, stop :
          /\ ops < MaxOps /\ Reserve(c, s, st, pc, stop)
          /\ \/ /\ slot.state = "nil" /\ st = "starting" /\ pc = "spawn" /\ stop = None
                /\ s = [NoSlot EXCEPT !.backend = d.backend, !.address = d.addr, !.profiles = <<p>>]
             \/ /\ slot.state = "running" /\ st = "activating" /\ pc = "commit" /\ stop = None
                /\ d.backend \in Routers /\ slot.backend = d.backend
                /\ s = [slot EXCEPT !.profiles = IF Holds(p) THEN @ ELSE Append(@, p)]
             \/ /\ slot.state = "running" /\ st = "stopping" /\ pc = "stop" /\ stop = slot.process
                /\ s = [slot EXCEPT !.address = d.addr, !.profiles = <<p>>]
    BY <1>2, <1>3, <1>5 DEF Joins, Settled
  <2>2. slot.op = 0 /\ ops + 1 \in 0..MaxOps /\ ops + 1 # 0
    BY <1>1, <2>1, ConstantsOK DEF SlotInv, TypeOK
  <2>3. /\ s \in Slots /\ s.process = slot.process /\ s.profiles # <<>>
        /\ \A i, j \in DOMAIN s.profiles : s.profiles[i] = s.profiles[j] => i = j
        /\ s.backend \notin Routers => Len(s.profiles) = 1
    <3>1. CASE slot.state = "nil"
      <4>1. slot = NoSlot
        BY <1>1, <3>1 DEF SlotInv
      <4>2. /\ s = [backend |-> d.backend, process |-> None, address |-> d.addr,
                    profiles |-> <<p>>, state |-> "nil", op |-> 0]
        BY <2>1, <3>1 DEF NoSlot
      <4>3. s \in Slots /\ s.process = slot.process /\ s.profiles = <<p>>
        BY <1>2, <1>3, <4>1, <4>2, SingletonOnce, ConstantsOK DEF NoSlot, Slots, States
      <4> QED BY <1>3, <4>3, SingletonOnce
    <3>2. CASE st = "activating"
      <4>1. slot.profiles \in Seq(Profiles) /\ \A i, j \in DOMAIN slot.profiles : slot.profiles[i] = slot.profiles[j] => i = j
        BY <1>1, <2>1, <3>2 DEF SlotInv, HeldOnce, Slots
      <4>2. PICK t : t = IF \E i \in DOMAIN slot.profiles : slot.profiles[i] = p THEN slot.profiles ELSE Append(slot.profiles, p)
        OBVIOUS
      <4>3. t \in Seq(Profiles) /\ t # <<>> /\ \A i, j \in DOMAIN t : t[i] = t[j] => i = j
        BY <1>3, <4>1, <4>2, AppendOnce
      <4>4. s = [slot EXCEPT !.profiles = t]
        BY <2>1, <3>2, <4>2 DEF Holds
      <4>5. s \in Slots /\ s.process = slot.process /\ s.profiles = t /\ s.backend = slot.backend
        BY <1>1, <4>3, <4>4 DEF Slots
      <4> QED BY <2>1, <3>2, <4>3, <4>5
    <3>3. CASE st = "stopping"
      <4>1. s \in Slots /\ s.process = slot.process /\ s.profiles = <<p>>
        BY <1>1, <1>2, <1>3, <2>1, <3>3, SingletonOnce DEF Slots
      <4> QED BY <1>3, <4>1, SingletonOnce
    <3> QED BY <2>1, <3>1, <3>2, <3>3
  <2>4. slot' = [s EXCEPT !.state = st, !.op = ops + 1] /\ ops' = ops + 1
    BY <2>1 DEF Reserve
  <2>5. /\ slot' \in Slots /\ slot'.state = st /\ slot'.op = ops + 1 /\ slot'.process = slot.process
        /\ slot'.profiles = s.profiles /\ slot'.backend = s.backend
    <3>1. st \in States
      BY <2>1 DEF States
    <3> QED BY <2>2, <2>3, <2>4, <3>1 DEF Slots
  <2>6. HeldOnce'
    BY <2>3, <2>5 DEF HeldOnce
  <2>7. st # "starting" => slot.process \in Engines /\ slot.process # None
    BY <1>1, <2>1, ConstantsOK DEF SlotInv, Engines
  <2>8. st = "starting" => slot.process = None
    BY <1>1, <2>1 DEF SlotInv, NoSlot
  <2>9. slot.process # None => slot.process \in Nat /\ slot.process <= ops
    BY <1>1 DEF SlotInv, Slots, Engines
  <2>10. SlotInv'
    BY <1>1, <2>1, <2>2, <2>4, <2>5, <2>6, <2>7, <2>8, <2>9 DEF SlotInv
  <2>11. PICK r : /\ call' = [call EXCEPT ![c] = r]
                  /\ r = [call[c] EXCEPT !.op = ops + 1, !.pc = pc, !.stop = stop]
    BY <2>1 DEF Reserve
  <2>12. stop \in Engines \cup {None} /\ pc \in {"spawn", "commit", "stop"}
    BY <2>1, <2>7
  <2>13. /\ r \in Calls /\ r.pc = pc /\ r.op = ops + 1 /\ r.job = "start" /\ r.stop = stop
         /\ r.proc = call[c].proc /\ r.doc = call[c].doc /\ r.profile = call[c].profile
    <3>1. call[c] \in Calls /\ call[c].job = "start" /\ ops + 1 \in 0..MaxOps /\ pc \in Pcs
      BY <1>1, <2>2, <2>12 DEF Pcs
    <3>2. r \in Calls
      BY <2>11, <2>12, <3>1 DEF Calls
    <3>3. r.pc = pc /\ r.op = ops + 1 /\ r.stop = stop
      BY <2>11, <3>1 DEF Calls
    <3>4. r.job = call[c].job /\ r.proc = call[c].proc /\ r.doc = call[c].doc /\ r.profile = call[c].profile
      BY <2>11, <3>1 DEF Calls
    <3> QED BY <3>1, <3>2, <3>3, <3>4
  <2>14. CallOK(r) /\ r.pc \in Transitions
    BY <1>1, <2>12, <2>13 DEF CallOK, Transitions
  <2>15. call[c].proc = None
    BY <1>1 DEF CallOK
  <2>16. OwnerOK(r)'
    BY <2>1, <2>5, <2>7, <2>13, <2>15 DEF OwnerOK
  <2>17. down = "up" => EngineOK(r)'
    <3>1. down = "up" /\ slot.state = "running" => Supervised(slot.process)'
      BY <2>5 DEF IInv, EngineInv, Settled, Supervised, world
    <3> QED BY <2>1, <2>5, <2>8, <2>13, <2>15, <3>1 DEF EngineOK, Quiet
  <2>18. slot'.state # "running"
    BY <2>1, <2>5
  <2>19. call' \in [Callers -> Calls] /\ CallInv' /\ OpsInv' /\ OwnerInv' /\ EngineInv'
    BY <1>1, <2>2, <2>4, <2>5, <2>11, <2>13, <2>14, <2>16, <2>17, <2>18, ReservingStep DEF world, ending
  <2>20. TypeOK'
    BY <1>1, <2>2, <2>4, <2>5, <2>19 DEF TypeOK, files, world, ending
  <2> QED BY <2>10, <2>19, <2>20 DEF IInv
<1> QED BY <1>4, <1>5

\* Until shutdown, a transition that has not spawned yet has the slot's engine as
\* the only live one.
LEMMA OnlySlotLive ==
  ASSUME IInv, NEW c \in Callers, InTransition(c), down = "up", call[c].pc # "commit"
  PROVE  /\ Owns(c) /\ OwnerOK(call[c]) /\ EngineOK(call[c])
         /\ \A e \in Live : e = slot.process
<1>1. \A d \in Callers : ~(call[d].pc = "commit")
  BY NobodyElse DEF InTransition, Transitions
<1>2. Owns(c) /\ OwnerOK(call[c]) /\ EngineOK(call[c])
  BY DEF IInv, OpsInv, OwnerInv, EngineInv, Owns
<1> QED
  BY <1>1, <1>2 DEF IInv, EngineInv, JustSpawned

\* What a transition that ends leaves, whatever it did to the engines.
LEMMA ClosedInv ==
  ASSUME IInv, NEW c \in Callers, InTransition(c), NEW ev \in {"running", "stopped", "failed"},
         call' = [call EXCEPT ![c].pc = "announce", ![c].event = ev],
         NEW s, slot' = IF ~Owns(c) THEN slot ELSE s,
         Owns(c) => /\ s \in Slots /\ s.op = 0 /\ s.state \in {"nil", "running", "failed"}
                    /\ s.state = "nil" => s = NoSlot
                    /\ s.state # "nil" =>
                         /\ s.process \in Engines /\ s.process <= ops
                         /\ s.profiles # <<>>
                         /\ \A i, j \in DOMAIN s.profiles : s.profiles[i] = s.profiles[j] => i = j
                         /\ s.backend \notin Routers => Len(s.profiles) = 1,
         engine' \in [Engines -> {"none", "live", "lost", "dead"}],
         UNCHANGED <<store, generated, ops, bound, loaded, published, down, victim>>,
         down = "up" => /\ s.state = "running" => Supervised(s.process)'
                        /\ \A e \in Live' : e = s.process
  PROVE  IInv'
<1>1. TypeOK /\ CallInv /\ call[c] \in Calls /\ CallOK(call[c]) /\ SlotInv
  BY CallerFacts DEF IInv
<1>2. PICK r : call' = [call EXCEPT ![c] = r] /\ r = [call[c] EXCEPT !.pc = "announce", !.event = ev]
  BY ZenonT(60)
<1>3. r \in Calls
  BY <1>1, <1>2, ZenonT(60) DEF Calls, Pcs
<1>4. r.pc = "announce" /\ r.job = call[c].job /\ r.proc = call[c].proc /\ r.doc = call[c].doc /\ r.profile = call[c].profile
  BY <1>1, <1>2 DEF Calls
<1>5. CallOK(r) /\ r.pc \notin Transitions
  BY <1>1, <1>4 DEF CallOK, Transitions, InTransition
<1>6. down = "up" => Owns(c)
  BY DEF IInv, OpsInv, Owns
<1>7. /\ Owns(c) => slot' = s /\ slot'.op = 0
      /\ ~Owns(c) => slot' = slot
  OBVIOUS
<1>8. down = "up" => /\ Settled' => Supervised(slot.process)'
                     /\ \A e \in Live' : e = slot'.process
  BY <1>6, <1>7 DEF Settled
<1>9. call' \in [Callers -> Calls] /\ CallInv' /\ OpsInv' /\ OwnerInv' /\ EngineInv'
  BY <1>2, <1>3, <1>5, <1>7, <1>8, ClosingStep
<1>10. slot' \in Slots
  BY <1>1, <1>7 DEF TypeOK
<1>11. SlotInv'
  <2>1. CASE Owns(c)
    <3>1. HeldOnce'
      BY <1>7, <2>1 DEF HeldOnce
    <3>2. s.state = "nil" => s.process = None
      BY <2>1 DEF NoSlot
    <3> QED BY <1>7, <2>1, <3>1, <3>2 DEF SlotInv
  <2>2. CASE ~Owns(c)
    BY <1>1, <1>7, <2>2 DEF SlotInv, HeldOnce
  <2> QED BY <2>1, <2>2
<1>12. TypeOK'
  BY <1>1, <1>9, <1>10 DEF TypeOK
<1> QED BY <1>9, <1>11, <1>12 DEF IInv

\* The empty slot and the failed one are states a transition may leave.
LEMMA FailInv ==
  ASSUME IInv, NEW c \in Callers, InTransition(c),
         \/ Fail(c, TRUE) /\ (Owns(c) => slot.process \in Engines)
         \/ Fail(c, FALSE) /\ (down = "up" => Live' = {}),
         engine' \in [Engines -> {"none", "live", "lost", "dead"}],
         UNCHANGED <<store, generated, ops, bound, loaded, published, down, victim>>,
         down = "up" => \A e \in Live' : e = slot.process
  PROVE  IInv'
<1>1. TypeOK /\ SlotInv /\ slot \in Slots
  BY DEF IInv, TypeOK
<1>2. call' = [call EXCEPT ![c].pc = "announce", ![c].event = "failed"]
  BY DEF Fail
<1>3. CASE Fail(c, TRUE) /\ (Owns(c) => slot.process \in Engines)
  <2>1. PICK s : s = [slot EXCEPT !.state = "failed", !.op = 0]
    OBVIOUS
  <2>2. slot' = IF ~Owns(c) THEN slot ELSE s
    BY <1>3, <2>1 DEF Fail
  <2>3. /\ s \in Slots /\ s.op = 0 /\ s.state = "failed" /\ s.process = slot.process
        /\ s.profiles = slot.profiles /\ s.backend = slot.backend
    <3>1. 0 \in 0..MaxOps /\ "failed" \in States
      BY ConstantsOK DEF States
    <3>2. s \in Slots
      BY <1>1, <2>1, <3>1 DEF Slots
    <3>3. s.op = 0 /\ s.state = "failed"
      BY <1>1, <2>1 DEF Slots
    <3>4. s.process = slot.process /\ s.profiles = slot.profiles /\ s.backend = slot.backend
      BY <1>1, <2>1 DEF Slots
    <3> QED BY <3>2, <3>3, <3>4
  <2>4. Owns(c) => slot.state # "nil"
    BY DEF IInv, OpsInv, SlotInv, Owns, NoSlot
  <2>5. Owns(c) => /\ s.process \in Engines /\ s.process <= ops /\ s.profiles # <<>>
                   /\ \A i, j \in DOMAIN s.profiles : s.profiles[i] = s.profiles[j] => i = j
                   /\ s.backend \notin Routers => Len(s.profiles) = 1
    BY <1>1, <1>3, <2>3, <2>4, ConstantsOK DEF SlotInv, HeldOnce, Engines
  <2> QED
    BY <1>2, <2>2, <2>3, <2>5, ClosedInv
<1>4. CASE Fail(c, FALSE) /\ (down = "up" => Live' = {})
  <2>1. slot' = IF ~Owns(c) THEN slot ELSE NoSlot
    BY <1>4 DEF Fail
  <2>2. NoSlot \in Slots /\ NoSlot.op = 0 /\ NoSlot.state = "nil"
    BY ConstantsOK DEF NoSlot, Slots, States
  <2> QED
    BY <1>2, <1>4, <2>1, <2>2, ClosedInv
<1> QED BY <1>3, <1>4

\* reloadRouter's second read of the profile preserves the invariant.
LEMMA RespecInv ==
  ASSUME IInv, NEW c \in Callers, Respec(c)
  PROVE  IInv'
<1> USE DEF Respec, At
<1>1. /\ TypeOK /\ CallInv /\ call[c] \in Calls /\ CallOK(call[c]) /\ InTransition(c) /\ SlotInv
      /\ call[c].pc = "respec" /\ call[c].job = "reload" /\ call[c].profile \in Profiles
  BY CallerFacts DEF InTransition, Transitions, IInv, CallOK
<1>2. PICK d : d = store[call[c].profile] /\ d \in Docs \cup {None}
  BY <1>1 DEF TypeOK
<1>3. Owns(c) => slot.process \in Engines
  BY <1>1 DEF IInv, OwnerInv, OwnerOK
<1>4. down = "up" => \A e \in Live' : e = slot.process
  BY <1>1, OnlySlotLive DEF world, Live
<1>5. CASE d = None
  <2>1. Fail(c, TRUE) /\ UNCHANGED <<files, ops, world, published, ending>>
    BY <1>2, <1>5
  <2> QED
    BY <1>1, <1>3, <1>4, <2>1, FailInv DEF world, files, ending, TypeOK
<1>6. CASE d # None
  <2>1. d.addr \in Addrs
    BY <1>2, <1>6, ConstantsOK
  <2>6. call' = [call EXCEPT ![c].pc = "stop", ![c].addr = d.addr] /\ UNCHANGED slot
    BY <1>2, <1>6
  <2>2. PICK r : call' = [call EXCEPT ![c] = r] /\ r = [call[c] EXCEPT !.pc = "stop", !.addr = d.addr]
    BY ONLY <2>6
  <2>3. /\ r \in Calls /\ CallOK(r) /\ r.pc = "stop" /\ r.pc \in Transitions /\ r.op = call[c].op
        /\ r.job = "reload" /\ r.stop = call[c].stop
    BY <1>1, <2>1, <2>2 DEF Calls, Pcs, CallOK, Transitions
  <2>4. Owns(c) => OwnerOK(r)
    BY <1>3, <2>3 DEF OwnerOK
  <2>5. down = "up" => EngineOK(r)'
    BY <1>1, <2>3, <2>6 DEF IInv, EngineInv, EngineOK
  <2>7. call' \in [Callers -> Calls] /\ CallInv' /\ OpsInv' /\ SlotInv' /\ OwnerInv' /\ EngineInv'
    BY <1>1, <1>4, <2>2, <2>3, <2>4, <2>5, <2>6, InsideStep DEF ending
  <2>8. TypeOK'
    BY <1>1, <2>6, <2>7 DEF TypeOK, files, world, ending
  <2> QED BY <2>7, <2>8 DEF IInv
<1> QED BY <1>5, <1>6

\* Runtime.Stop, whether it succeeds or not, revives no engine and leaves the one
\* it was called for not live.
LEMMA StopOutcome ==
  ASSUME TypeOK, NEW e \in Engines \cup {None}, StopOK(e) \/ StopFails(e)
  PROVE  /\ engine' \in [Engines -> {"none", "live", "lost", "dead"}]
         /\ \A f \in Live' : f \in Live /\ f # e
         /\ e = None \/ engine'[e] # "live"
<1>1. engine \in [Engines -> {"none", "live", "lost", "dead"}] /\ None \notin Engines
  BY ConstantsOK DEF TypeOK, Engines
<1>2. CASE engine' = engine /\ (e = None \/ engine[e] # "live")
  BY <1>1, <1>2 DEF Live
<1>3. CASE e \in Engines /\ \E fate \in {"dead", "lost"} : engine' = [engine EXCEPT ![e] = fate]
  BY <1>1, <1>3 DEF Live
<1> QED
  BY <1>2, <1>3 DEF StopOK, StopFails

\* The blocking stop of a transition preserves the invariant.
LEMMA StopEngineInv ==
  ASSUME IInv, NEW c \in Callers, StopEngine(c)
  PROVE  IInv'
<1>1. /\ TypeOK /\ CallInv /\ call[c] \in Calls /\ CallOK(call[c]) /\ InTransition(c) /\ SlotInv
      /\ call[c].pc = "stop"
  BY CallerFacts DEF InTransition, Transitions, IInv, StopEngine, At
<1>2. PICK e \in Engines \cup {None} : e = call[c].stop
  BY <1>1 DEF Calls
<1>3. /\ engine' \in [Engines -> {"none", "live", "lost", "dead"}]
      /\ \A f \in Live' : f \in Live /\ f # e
      /\ e = None \/ engine'[e] # "live"
  <2>1. StopOK(e) \/ StopFails(e)
    BY <1>2 DEF StopEngine
  <2> QED BY <1>1, <2>1, StopOutcome
<1>4. down = "up" => /\ Owns(c) /\ OwnerOK(call[c]) /\ e = slot.process
                     /\ \A f \in Live' : f = slot.process
  BY <1>1, <1>2, <1>3, OnlySlotLive DEF EngineOK
<1>5. Owns(c) => slot.process \in Engines /\ OwnerOK(call[c])
  BY <1>1 DEF IInv, OwnerInv, OwnerOK
<1>6. UNCHANGED <<store, generated, ops, bound, loaded, published, down, victim>>
  BY DEF StopEngine, files, ending
<1>7. CASE StopFails(e) /\ Fail(c, TRUE)
  BY <1>1, <1>3, <1>4, <1>5, <1>6, <1>7, FailInv
<1>8. CASE ~(StopFails(e) /\ Fail(c, TRUE))
  <2>1. PICK pc : /\ pc = IF call[c].job \in {"start", "reload"} THEN "spawn" ELSE "commit"
                  /\ call' = [call EXCEPT ![c].pc = pc] /\ UNCHANGED slot
    BY <1>2, <1>8 DEF StopEngine, Goto
  <2>2. PICK r : call' = [call EXCEPT ![c] = r] /\ r = [call[c] EXCEPT !.pc = pc]
    BY <2>1
  <2>3. pc \in {"spawn", "commit"}
    BY <2>1
  <2>4. /\ r \in Calls /\ r.pc = pc /\ r.op = call[c].op /\ r.job = call[c].job /\ r.stop = call[c].stop
        /\ r.proc = call[c].proc /\ r.profile = call[c].profile /\ r.doc = call[c].doc
    BY <1>1, <2>2, <2>3 DEF Calls, Pcs
  <2>5. /\ r.proc = None /\ r.job \in {"start", "reload", "stop", "reset"}
        /\ pc = "commit" <=> r.job \in {"stop", "reset"}
        /\ pc = "spawn" <=> r.job \in {"start", "reload"}
    BY <1>1, <2>1, <2>4 DEF CallOK, Calls, Transitions
  <2>6. CallOK(r) /\ r.pc \in Transitions
    BY <1>1, <2>3, <2>4, <2>5 DEF CallOK, Transitions
  <2>7. Owns(c) => OwnerOK(r)
    BY <1>1, <1>5, <2>3, <2>4, <2>5 DEF OwnerOK
  <2>8. down = "up" => EngineOK(r)'
    <3> SUFFICES ASSUME down = "up" PROVE EngineOK(r)'
      OBVIOUS
    <3>1. slot' = slot /\ Quiet(slot.process)'
      BY <1>3, <1>4, <2>1 DEF Quiet
    <3>2. r.job = "stop" => r.stop # None
      BY <1>1, <1>4, <2>4 DEF OwnerOK
    <3> QED BY <2>3, <2>4, <2>5, <3>1, <3>2 DEF EngineOK
  <2>9. call' \in [Callers -> Calls] /\ CallInv' /\ OpsInv' /\ SlotInv' /\ OwnerInv' /\ EngineInv'
    BY <1>1, <1>4, <1>6, <2>1, <2>2, <2>4, <2>6, <2>7, <2>8, InsideStep
  <2>10. TypeOK'
    BY <1>1, <1>3, <1>6, <2>1, <2>9 DEF TypeOK
  <2> QED BY <2>9, <2>10 DEF IInv
<1> QED BY <1>7, <1>8

\* The blocking start of a transition preserves the invariant.
LEMMA SpawnEngineInv ==
  ASSUME IInv, NEW c \in Callers, SpawnEngine(c)
  PROVE  IInv'
<1>1. /\ TypeOK /\ CallInv /\ call[c] \in Calls /\ CallOK(call[c]) /\ InTransition(c) /\ SlotInv
      /\ call[c].pc = "spawn" /\ call[c].job \in {"start", "reload"}
  BY CallerFacts DEF InTransition, Transitions, IInv, SpawnEngine, At, CallOK
<1>2. PICK o : o = call[c].op /\ o \in Engines /\ o # 0 /\ o # None
  BY <1>1, ConstantsOK DEF IInv, OpsInv, TypeOK, Engines
<1>3. down = "up" => Owns(c) /\ Quiet(slot.process) /\ Live = {}
  <2>1. down = "up" => Owns(c) /\ Quiet(slot.process) /\ \A e \in Live : e = slot.process
    BY <1>1, OnlySlotLive DEF EngineOK
  <2> QED BY <2>1, ConstantsOK DEF Quiet, Live, Engines
<1>4. down = "up" => slot.process # o
  <2>1. down = "up" => slot.op = o
    BY <1>2, <1>3 DEF Owns
  <2>2. slot.process # None /\ slot.op # 0 => slot.process < slot.op /\ slot.process \in Nat /\ slot.op \in Nat
    BY <1>1 DEF SlotInv, TypeOK, Slots, Engines
  <2> QED BY <1>2, <2>1, <2>2
<1>5. UNCHANGED <<store, generated, ops, published, down, victim>>
  BY DEF SpawnEngine, files, ending
<1>6. CASE Fail(c, FALSE) /\ \E fate \in {"none", "dead", "lost"} : engine' = [engine EXCEPT ![o] = fate]
                          /\ UNCHANGED <<bound, loaded>>
  <2>1. engine' \in [Engines -> {"none", "live", "lost", "dead"}] /\ Live' \subseteq Live
    BY <1>1, <1>2, <1>6 DEF TypeOK, Live
  <2>2. down = "up" => Live' = {}
    BY <1>3, <2>1
  <2> QED
    BY <1>1, <1>5, <1>6, <2>1, <2>2, FailInv
<1>7. CASE /\ engine' = [engine EXCEPT ![o] = "live"]
           /\ bound' = [bound EXCEPT ![o] = call[c].addr]
           /\ loaded' = [loaded EXCEPT ![o] = IF call[c].doc.backend \in Routers
                                             THEN generated[call[c].doc.backend] ELSE {}]
           /\ call' = [call EXCEPT ![c].pc = "commit", ![c].proc = o]
           /\ UNCHANGED slot
  <2>1. PICK r : call' = [call EXCEPT ![c] = r] /\ r = [call[c] EXCEPT !.pc = "commit", !.proc = o]
    BY <1>7
  <2>2. /\ r \in Calls /\ r.pc = "commit" /\ r.op = call[c].op /\ r.job = call[c].job /\ r.stop = call[c].stop
        /\ r.proc = o /\ r.profile = call[c].profile /\ r.doc = call[c].doc
    BY <1>1, <1>2, <2>1, ZenonT(60) DEF Calls, Pcs
  <2>3. CallOK(r) /\ r.pc \in Transitions
    BY <1>1, <2>2 DEF CallOK, Transitions
  <2>4. OwnerOK(r)
    BY <1>1, <1>2, <2>2 DEF OwnerOK
  <2>5. /\ engine' \in [Engines -> {"none", "live", "lost", "dead"}]
        /\ engine'[o] = "live" /\ \A f \in Engines \ {o} : engine'[f] = engine[f]
    BY <1>1, <1>2, <1>7 DEF TypeOK
  <2>6. down = "up" => EngineOK(r)'
    <3> SUFFICES ASSUME down = "up" PROVE EngineOK(r)'
      OBVIOUS
    <3>1. slot' = slot /\ Supervised(o)'
      BY <1>2, <1>7, <2>5 DEF Supervised
    <3>2. Quiet(slot.process)'
      BY <1>1, <1>3, <1>4, <1>7, <2>5 DEF Quiet, TypeOK, Slots
    <3> QED BY <1>1, <1>2, <2>2, <3>1, <3>2 DEF EngineOK
  <2>7. down = "up" => \A e \in Live' : e = slot.process \/ JustSpawned(e)'
    <3>1. call'[c] = r
      BY <1>1, <2>1, <2>2 DEF TypeOK
    <3>2. JustSpawned(o)'
      BY <1>1, <2>2, <3>1 DEF JustSpawned
    <3> QED BY <1>3, <2>5, <3>2 DEF Live
  <2>8. call' \in [Callers -> Calls] /\ CallInv' /\ OpsInv' /\ SlotInv' /\ OwnerInv' /\ EngineInv'
    BY <1>1, <1>5, <1>7, <2>1, <2>2, <2>3, <2>4, <2>6, <2>7, InsideStep
  <2>9. bound' \in [Engines -> Addrs \cup {None}]
    BY <1>1, <1>2, <1>7 DEF TypeOK, Calls
  <2>10. loaded' \in [Engines -> SUBSET (Profiles \X Models)]
    BY <1>1, <1>2, <1>7 DEF TypeOK
  <2>11. TypeOK'
    BY <1>1, <1>5, <1>7, <2>5, <2>8, <2>9, <2>10 DEF TypeOK
  <2> QED BY <2>8, <2>11 DEF IInv
<1> QED
  BY <1>2, <1>6, <1>7 DEF SpawnEngine

\* commitStart preserves the invariant.
LEMMA CommitStartInv ==
  ASSUME IInv, NEW c \in Callers, At(c, "commit"), call[c].job \in {"start", "reload"}, CommitStart(c),
         UNCHANGED <<files, ops, world, published, ending>>
  PROVE  IInv'
<1>1. /\ TypeOK /\ SlotInv /\ InTransition(c) /\ slot \in Slots /\ call[c].pc = "commit"
      /\ call[c].op \in 1..ops /\ call[c].proc \in Engines \cup {None} /\ ops \in Nat
  BY CallerFacts DEF At, IInv, InTransition, Transitions, TypeOK, OpsInv, Calls
<1>2. PICK q : q = IF call[c].proc # None THEN call[c].proc ELSE slot.process
  OBVIOUS
<1>3. PICK s : s = [slot EXCEPT !.process = q, !.state = "running", !.op = 0]
  OBVIOUS
<1>4. /\ slot' = IF ~Owns(c) THEN slot ELSE s
      /\ call' = [call EXCEPT ![c].pc = "announce", ![c].event = "running"]
  BY <1>2, <1>3 DEF CommitStart
<1>5. Owns(c) => OwnerOK(call[c]) /\ slot.op # 0 /\ slot.state \in {"starting", "activating", "stopping"}
  BY <1>1 DEF IInv, OwnerInv, Owns, SlotInv
<1>6. Owns(c) => q \in Engines /\ q <= ops
  BY <1>1, <1>2, <1>5 DEF OwnerOK, SlotInv, Slots, Engines
<1>7. Owns(c) => /\ s \in Slots /\ s.op = 0 /\ s.state = "running" /\ s.process = q
                 /\ s.profiles = slot.profiles /\ s.backend = slot.backend
  <2>1. 0 \in 0..MaxOps /\ "running" \in States
    BY ConstantsOK DEF States
  <2>2. Owns(c) => s \in Slots
    BY <1>1, <1>3, <1>6, <2>1 DEF Slots
  <2>3. s.op = 0 /\ s.state = "running" /\ s.process = q
    BY <1>1, <1>3 DEF Slots
  <2>4. s.profiles = slot.profiles /\ s.backend = slot.backend
    BY <1>1, <1>3 DEF Slots
  <2> QED BY <2>2, <2>3, <2>4
<1>8. Owns(c) => /\ s.profiles # <<>>
                 /\ \A i, j \in DOMAIN s.profiles : s.profiles[i] = s.profiles[j] => i = j
                 /\ s.backend \notin Routers => Len(s.profiles) = 1
  BY <1>1, <1>5, <1>7 DEF SlotInv, HeldOnce
<1>9. down = "up" => Owns(c) /\ Supervised(q) /\ \A e \in Live : e = q
  <2> SUFFICES ASSUME down = "up" PROVE Owns(c) /\ Supervised(q) /\ \A e \in Live : e = q
    OBVIOUS
  <2>1. Owns(c) /\ EngineOK(call[c])
    BY <1>1 DEF IInv, OpsInv, EngineInv, Owns
  <2>2. Supervised(q) /\ (q # slot.process => Quiet(slot.process))
    BY <1>1, <1>2, <2>1 DEF EngineOK
  <2>3. \A e \in Live : e = slot.process \/ e = call[c].proc
    BY <1>1, NobodyElse DEF IInv, EngineInv, JustSpawned, InTransition, Transitions
  <2> QED BY <1>2, <2>1, <2>2, <2>3, ConstantsOK DEF Quiet, Live, Engines
<1>10. down = "up" => Supervised(q)' /\ \A e \in Live' : e = s.process
  BY <1>7, <1>9 DEF Supervised, Live, world
<1> QED
  BY <1>1, <1>4, <1>6, <1>7, <1>8, <1>9, <1>10, ClosedInv DEF files, world, ending, TypeOK

\* commitStop preserves the invariant.
LEMMA CommitStopInv ==
  ASSUME IInv, NEW c \in Callers, At(c, "commit"), call[c].job = "stop", CommitStop(c),
         UNCHANGED <<files, ops, world, published, ending>>
  PROVE  IInv'
<1>1. /\ TypeOK /\ SlotInv /\ InTransition(c) /\ slot \in Slots /\ call[c].pc = "commit"
      /\ call[c].op \in 1..ops /\ ops \in Nat /\ slot.profiles \in Seq(Profiles)
  BY CallerFacts DEF At, IInv, InTransition, Transitions, TypeOK, OpsInv, Slots
<1>2. PICK left : left = Without(slot.profiles, call[c].profile)
  OBVIOUS
<1>3. PICK s : s = IF left = <<>> THEN NoSlot
                   ELSE [slot EXCEPT !.profiles = left, !.state = "running", !.op = 0]
  OBVIOUS
<1>4. /\ slot' = IF ~Owns(c) THEN slot ELSE s
      /\ call' = [call EXCEPT ![c].pc = "announce", ![c].event = "stopped"]
  BY <1>2, <1>3 DEF CommitStop
<1>5. Owns(c) => OwnerOK(call[c]) /\ slot.op # 0 /\ slot.state # "nil" /\ slot.process \in Engines
  BY <1>1 DEF IInv, OwnerInv, Owns, SlotInv, OwnerOK
<1>6. /\ left \in Seq(Profiles)
      /\ Len(slot.profiles) = 1 /\ slot.profiles[1] = call[c].profile => left = <<>>
      /\ Len(slot.profiles) > 1 => left # <<>>
      /\ (\A i, j \in DOMAIN slot.profiles : slot.profiles[i] = slot.profiles[j] => i = j)
           => \A i, j \in DOMAIN left : left[i] = left[j] => i = j
  BY <1>1, <1>2, WithoutProperties
<1>7. down = "up" => /\ Owns(c) /\ EngineOK(call[c]) /\ \A e \in Live : e = slot.process
  <2>1. \A e \in Live : down = "up" => e = slot.process
    BY <1>1, NobodyElse DEF IInv, EngineInv, JustSpawned, InTransition, Transitions
  <2> QED
    BY <1>1, <2>1 DEF IInv, OpsInv, EngineInv, Owns
<1>8. CASE call[c].stop # None
  <2>1. Owns(c) => s = NoSlot
    BY <1>3, <1>5, <1>6, <1>8 DEF OwnerOK
  <2>2. NoSlot \in Slots /\ NoSlot.op = 0 /\ NoSlot.state = "nil"
    BY ConstantsOK DEF NoSlot, Slots, States
  <2>3. down = "up" => Live' = {}
    BY <1>1, <1>7, <1>8, ConstantsOK DEF EngineOK, Quiet, Live, Engines, world
  <2> QED
    BY <1>1, <1>4, <1>7, <2>1, <2>2, <2>3, ClosedInv DEF files, world, ending, TypeOK
<1>9. CASE call[c].stop = None
  <2>1. Owns(c) => left # <<>> /\ slot.backend \in Routers
    BY <1>1, <1>5, <1>6, <1>9 DEF OwnerOK, SlotInv, HeldOnce
  <2>2. Owns(c) => s = [slot EXCEPT !.profiles = left, !.state = "running", !.op = 0]
    BY <1>3, <2>1
  <2>3. Owns(c) => /\ s \in Slots /\ s.op = 0 /\ s.state = "running" /\ s.process = slot.process
                   /\ s.profiles = left /\ s.backend = slot.backend
    <3>1. 0 \in 0..MaxOps /\ "running" \in States
      BY ConstantsOK DEF States
    <3>2. Owns(c) => s \in Slots
      BY <1>1, <1>6, <2>2, <3>1 DEF Slots
    <3>3. Owns(c) => s.op = 0 /\ s.state = "running" /\ s.profiles = left
      BY <1>1, <2>2 DEF Slots
    <3>4. Owns(c) => s.process = slot.process /\ s.backend = slot.backend
      BY <1>1, <2>2 DEF Slots
    <3> QED BY <3>2, <3>3, <3>4
  <2>4. Owns(c) => slot.process <= ops /\ \A i, j \in DOMAIN left : left[i] = left[j] => i = j
    BY <1>1, <1>5, <1>6, ConstantsOK DEF SlotInv, HeldOnce, Engines
  <2>5. down = "up" => Supervised(slot.process)
    BY <1>1, <1>7, <1>9 DEF EngineOK
  <2>6. down = "up" => engine' = engine /\ Supervised(s.process)' /\ \A e \in Live' : e = s.process
    BY <1>7, <2>3, <2>5 DEF Supervised, Live, world
  <2>7. Owns(c) => /\ s.process \in Engines /\ s.process <= ops /\ s.profiles # <<>>
                   /\ \A i, j \in DOMAIN s.profiles : s.profiles[i] = s.profiles[j] => i = j
                   /\ s.backend \notin Routers => Len(s.profiles) = 1
    BY <1>5, <2>1, <2>3, <2>4
  <2>8. /\ engine' \in [Engines -> {"none", "live", "lost", "dead"}]
        /\ UNCHANGED <<store, generated, ops, bound, loaded, published, down, victim>>
    BY <1>1 DEF files, world, ending, TypeOK
  <2> QED
    BY <1>1, <1>4, <2>3, <2>6, <2>7, <2>8, ClosedInv
<1> QED BY <1>8, <1>9

\* The commit of ResetRuntimes preserves the invariant.
LEMMA CommitResetInv ==
  ASSUME IInv, NEW c \in Callers, At(c, "commit"), call[c].job = "reset", CommitReset(c),
         UNCHANGED <<files, ops, world, published, ending>>
  PROVE  IInv'
<1>1. TypeOK /\ InTransition(c) /\ call[c].pc = "commit"
  BY DEF At, IInv, InTransition, Transitions
<1>2. /\ slot' = IF ~Owns(c) THEN slot ELSE NoSlot
      /\ call' = [call EXCEPT ![c].pc = "announce", ![c].event = "stopped"]
  BY DEF CommitReset
<1>3. NoSlot \in Slots /\ NoSlot.op = 0 /\ NoSlot.state = "nil"
  BY ConstantsOK DEF NoSlot, Slots, States
<1>4. down = "up" => Live' = {}
  <2>1. down = "up" => \A e \in Live : e = slot.process
    BY <1>1, NobodyElse DEF IInv, EngineInv, JustSpawned, InTransition, Transitions
  <2>2. down = "up" => Quiet(slot.process)
    BY <1>1 DEF IInv, EngineInv, EngineOK
  <2> QED BY <2>1, <2>2, ConstantsOK DEF Quiet, Live, Engines, world
<1> QED
  BY <1>1, <1>2, <1>3, <1>4, ClosedInv DEF files, world, ending, TypeOK

\* StopAllRuntimes emptying the slot preserves the invariant.
LEMMA TakeDownInv ==
  ASSUME IInv, TakeDown
  PROVE  IInv'
<1>1. slot' = NoSlot /\ down' = "stopping" /\ UNCHANGED <<ops, call, engine>>
  BY DEF TakeDown, world
<1>2. NoSlot \in Slots /\ NoSlot.op = 0 /\ NoSlot.state = "nil" /\ NoSlot.process = None
  BY ConstantsOK DEF NoSlot, Slots, States
<1>3. TypeOK'
  BY <1>1, <1>2 DEF IInv, TypeOK, TakeDown, files, world, Slots
<1>4. CallInv'
  BY <1>1 DEF IInv, CallInv
<1>5. \A c \in Callers : (InTransition(c)' <=> InTransition(c)) /\ (InTransition(c) => call[c].op # 0)
  BY <1>1 DEF IInv, OpsInv, InTransition
<1>6. OpsInv'
  BY <1>1, <1>2, <1>5 DEF IInv, OpsInv, NoAbandonedReservation
<1>7. SlotInv'
  BY <1>1, <1>2 DEF SlotInv, HeldOnce
<1>8. OwnerInv' /\ EngineInv'
  BY <1>1, <1>2, <1>5 DEF OwnerInv, Owns, EngineInv
<1> QED BY <1>3, <1>4, <1>6, <1>7, <1>8 DEF IInv

\* A step that changes engines only, and revives or loses none of them.
LEMMA EnginesOnly ==
  ASSUME IInv, UNCHANGED <<store, generated, slot, ops, bound, loaded, call, published, victim>>,
         down' \in {"up", "stopping", "closed"},
         engine' \in [Engines -> {"none", "live", "lost", "dead"}],
         down' = "up" => /\ down = "up" /\ Live' \subseteq Live
                         /\ \A e \in Engines : engine[e] = "dead" \/ engine[e] = "live" => engine'[e] \in {"live", "dead"}
  PROVE  IInv'
<1>1. TypeOK' /\ CallInv'
  BY DEF IInv, TypeOK, CallInv
<1>2. OpsInv' /\ SlotInv' /\ OwnerInv'
  BY DEF IInv, OpsInv, SlotInv, OwnerInv, OwnerOK, InTransition, Owns, NoAbandonedReservation, HeldOnce
<1>3. EngineInv'
  <2> SUFFICES ASSUME down' = "up" PROVE EngineInv'
    BY DEF EngineInv
  <2>1. \A e : Supervised(e) => Supervised(e)'
    BY DEF Supervised
  <2>2. \A e \in Engines \cup {None} : Quiet(e) => Quiet(e)'
    BY DEF Quiet, Live
  <2>3. slot.process \in Engines \cup {None}
    BY DEF IInv, TypeOK, Slots
  <2>4. \A c \in Callers : EngineOK(call[c])'
    BY <2>1, <2>2, <2>3 DEF IInv, EngineInv, EngineOK
  <2> QED
    BY <2>1, <2>4 DEF IInv, EngineInv, Settled, JustSpawned
<1> QED BY <1>1, <1>2, <1>3 DEF IInv

\* The stop of the engine shutdown took, and an engine that exits by itself,
\* preserve the invariant.
LEMMA EnvironmentInv ==
  ASSUME IInv, StopVictim \/ \E e \in Engines : EngineExits(e)
  PROVE  IInv'
<1>1. CASE StopVictim
  <2>1. engine' \in [Engines -> {"none", "live", "lost", "dead"}] /\ down' = "closed"
    BY <1>1, StopOutcome DEF IInv, TypeOK, StopVictim
  <2> QED BY <1>1, <2>1, EnginesOnly DEF StopVictim, files
<1>2. CASE \E e \in Engines : EngineExits(e)
  <2>1. PICK e \in Engines : EngineExits(e)
    BY <1>2
  <2>2. engine' \in [Engines -> {"none", "live", "lost", "dead"}] /\ down' = down
    BY <2>1 DEF IInv, TypeOK, EngineExits, ending
  <2>3. \A f \in Engines : engine'[f] = IF f = e THEN "dead" ELSE engine[f]
    BY <2>1 DEF IInv, TypeOK, EngineExits
  <2>4. Live' \subseteq Live
    BY <2>3 DEF Live
  <2> QED
    BY <2>1, <2>2, <2>3, <2>4, EnginesOnly DEF EngineExits, files, ending, IInv, TypeOK
<1> QED BY <1>1, <1>2

\* A recovered slot serves its group: at least one profile, none of them twice,
\* and only one on an exclusive backend.
LEMMA OrderingHolds ==
  ASSUME NEW p \in Profiles, InitStore[p] # None, NEW held \in Orderings(Group(p))
  PROVE  /\ held \in Seq(Profiles) /\ held # <<>>
         /\ \A i, j \in DOMAIN held : held[i] = held[j] => i = j
         /\ InitStore[p].backend \notin Routers => Len(held) = 1
<1>1. Group(p) \subseteq Profiles /\ p \in Group(p)
  BY DEF Group
<1>2. IsFiniteSet(Group(p))
  BY <1>1, FS_Subset, ConstantsOK
<1>3. PICK n : n = Cardinality(Group(p)) /\ n \in Nat
  BY <1>2, FS_CardinalityType
<1>4. n # 0
  BY <1>1, <1>2, <1>3, FS_EmptySet
<1>5. held \in [1..n -> Group(p)] /\ \A i, j \in 1..n : held[i] = held[j] => i = j
  BY <1>3 DEF Orderings
<1>6. held \in Seq(Profiles) /\ Len(held) = n /\ DOMAIN held = 1..n
  BY <1>1, <1>3, <1>5
<1>7. held # <<>>
  BY <1>4, <1>6
<1>8. InitStore[p].backend \notin Routers => n = 1
  BY <1>3, FS_Singleton DEF Group
<1> QED BY <1>5, <1>6, <1>7, <1>8

\* The slot RecoverRuntimes leaves, and the engine in it.
LEMMA InitSlot ==
  ASSUME Init
  PROVE  /\ slot \in Slots /\ SlotInv /\ slot.op = 0
         /\ engine \in [Engines -> {"none", "live", "lost", "dead"}]
         /\ \A e \in Live : e = slot.process
         /\ Settled => Supervised(slot.process)
         /\ bound \in [Engines -> Addrs \cup {None}]
         /\ loaded \in [Engines -> SUBSET (Profiles \X Models)]
<1>1. 0 \in Engines /\ 0 \in 0..MaxOps /\ ops = 0
  BY ConstantsOK DEF Init, Engines
<1>2. CASE /\ slot = NoSlot /\ engine = [e \in Engines |-> "none"]
           /\ loaded = [e \in Engines |-> {}] /\ bound = [e \in Engines |-> None]
  <2>1. NoSlot \in Slots /\ NoSlot.op = 0 /\ NoSlot.state = "nil" /\ NoSlot.process = None
    BY ConstantsOK DEF NoSlot, Slots, States
  <2>2. SlotInv
    BY <1>1, <1>2, <2>1 DEF SlotInv, HeldOnce
  <2> QED BY <1>2, <2>1, <2>2 DEF Live, Settled
<1>3. ASSUME NEW p \in Profiles, InitStore[p] # None,
             NEW held, NEW st \in {"running", "orphaned"}, NEW fate \in {"live", "lost"},
             held \in Seq(Profiles) /\ held # <<>>,
             \A i, j \in DOMAIN held : held[i] = held[j] => i = j,
             InitStore[p].backend \notin Routers => Len(held) = 1,
             st = "running" => fate = "live",
             slot = Recovered(p, held, st),
             engine = [e \in Engines |-> IF e = 0 THEN fate ELSE "none"],
             bound = [e \in Engines |-> IF e = 0 THEN InitStore[p].addr ELSE None],
             loaded = [e \in Engines |-> IF e = 0 THEN Render(InitStore, InitStore[p].backend) ELSE {}]
      PROVE  /\ slot \in Slots /\ SlotInv /\ slot.op = 0
             /\ engine \in [Engines -> {"none", "live", "lost", "dead"}]
             /\ \A e \in Live : e = slot.process
             /\ Settled => Supervised(slot.process)
             /\ bound \in [Engines -> Addrs \cup {None}]
             /\ loaded \in [Engines -> SUBSET (Profiles \X Models)]
  <2>1. InitStore[p].backend \in Backends /\ InitStore[p].addr \in Addrs
    BY <1>3, ConstantsOK
  <2>2. Render(InitStore, InitStore[p].backend) \in SUBSET (Profiles \X Models)
    BY ConstantsOK, RenderPresets
  <2>3. /\ slot.op = 0 /\ slot.state = st /\ slot.process = 0 /\ slot.profiles = held
        /\ slot.backend = InitStore[p].backend
    BY <1>3 DEF Recovered
  <2>4. slot \in Slots
    BY <1>1, <1>3, <2>1 DEF Recovered, Slots, States
  <2>5. SlotInv
    BY <1>1, <1>3, <2>3 DEF SlotInv, HeldOnce
  <2>6. engine \in [Engines -> {"none", "live", "lost", "dead"}] /\ engine[0] = fate
        /\ \A e \in Live : e = slot.process
    BY <1>1, <1>3, <2>3 DEF Live
  <2>7. Settled => Supervised(slot.process)
    BY <1>1, <1>3, <2>3, <2>6 DEF Settled, Supervised
  <2>8. bound \in [Engines -> Addrs \cup {None}]
    BY <1>3, <2>1
  <2>9. loaded \in [Engines -> SUBSET (Profiles \X Models)]
    BY <1>3, <2>2
  <2> QED BY <2>3, <2>4, <2>5, <2>6, <2>7, <2>8, <2>9
<1>4. CASE \E p \in {q \in Profiles : InitStore[q] # None} :
             /\ \/ /\ \E held \in Orderings(Group(p)) : slot = Recovered(p, held, "running")
                   /\ engine = [e \in Engines |-> IF e = 0 THEN "live" ELSE "none"]
                \/ /\ slot = Recovered(p, <<p>>, "orphaned")
                   /\ \E fate \in {"live", "lost"} : engine = [e \in Engines |-> IF e = 0 THEN fate ELSE "none"]
             /\ bound = [e \in Engines |-> IF e = 0 THEN InitStore[p].addr ELSE None]
             /\ loaded = [e \in Engines |-> IF e = 0 THEN Render(InitStore, InitStore[p].backend) ELSE {}]
  <2>1. PICK p \in Profiles :
             /\ InitStore[p] # None
             /\ \/ /\ \E held \in Orderings(Group(p)) : slot = Recovered(p, held, "running")
                   /\ engine = [e \in Engines |-> IF e = 0 THEN "live" ELSE "none"]
                \/ /\ slot = Recovered(p, <<p>>, "orphaned")
                   /\ \E fate \in {"live", "lost"} : engine = [e \in Engines |-> IF e = 0 THEN fate ELSE "none"]
             /\ bound = [e \in Engines |-> IF e = 0 THEN InitStore[p].addr ELSE None]
             /\ loaded = [e \in Engines |-> IF e = 0 THEN Render(InitStore, InitStore[p].backend) ELSE {}]
    BY <1>4
  <2>2. CASE \E held \in Orderings(Group(p)) :
               /\ slot = Recovered(p, held, "running")
               /\ engine = [e \in Engines |-> IF e = 0 THEN "live" ELSE "none"]
    <3>1. PICK held \in Orderings(Group(p)) :
               /\ slot = Recovered(p, held, "running")
               /\ engine = [e \in Engines |-> IF e = 0 THEN "live" ELSE "none"]
      BY <2>2
    <3>2. /\ held \in Seq(Profiles) /\ held # <<>>
          /\ \A i, j \in DOMAIN held : held[i] = held[j] => i = j
          /\ InitStore[p].backend \notin Routers => Len(held) = 1
      BY <2>1, OrderingHolds
    <3> QED BY <1>3, <2>1, <3>1, <3>2
  <2>3. CASE \E fate \in {"live", "lost"} :
               /\ slot = Recovered(p, <<p>>, "orphaned")
               /\ engine = [e \in Engines |-> IF e = 0 THEN fate ELSE "none"]
    <3>1. PICK fate \in {"live", "lost"} :
               /\ slot = Recovered(p, <<p>>, "orphaned")
               /\ engine = [e \in Engines |-> IF e = 0 THEN fate ELSE "none"]
      BY <2>3
    <3>2. PICK held : held = <<p>>
      OBVIOUS
    <3>3. /\ held \in Seq(Profiles) /\ held # <<>>
          /\ \A i, j \in DOMAIN held : held[i] = held[j] => i = j
          /\ Len(held) = 1
      BY <3>2, SingletonOnce
    <3> QED BY <1>3, <2>1, <3>1, <3>2, <3>3, ZenonT(60)
  <2> QED BY <2>1, <2>2, <2>3
<1> QED BY <1>2, <1>4 DEF Init

\* The invariant holds when the daemon starts to serve.
LEMMA InitInv == Init => IInv
<1> SUFFICES ASSUME Init PROVE IInv
  OBVIOUS
<1>1. /\ slot \in Slots /\ SlotInv /\ slot.op = 0
      /\ engine \in [Engines -> {"none", "live", "lost", "dead"}]
      /\ \A e \in Live : e = slot.process
      /\ Settled => Supervised(slot.process)
      /\ bound \in [Engines -> Addrs \cup {None}]
      /\ loaded \in [Engines -> SUBSET (Profiles \X Models)]
  BY InitSlot
<1>2. \A c \in Callers : call[c] = Idle
  BY DEF Init
<1>3. \A c \in Callers : ~InTransition(c)
  BY <1>2, IdleOK DEF InTransition, Transitions
<1>4. generated \in [Routers -> SUBSET (Profiles \X Models)]
  BY ConstantsOK, RenderPresets DEF Init
<1>5. call \in [Callers -> Calls] /\ CallInv
  BY <1>2, IdleOK DEF Init, CallInv
<1>6. published \in [op : 0..MaxOps, state : States \cup {"none", "stopped"}] /\ ops \in 0..MaxOps
  BY ConstantsOK DEF Init
<1>7. TypeOK
  BY <1>1, <1>4, <1>5, <1>6, ConstantsOK DEF Init, TypeOK
<1>8. OpsInv /\ OwnerInv
  BY <1>1, <1>3 DEF OpsInv, OwnerInv, NoAbandonedReservation
<1>9. EngineInv
  BY <1>1, <1>2, IdleOK DEF EngineInv, EngineOK
<1> QED BY <1>1, <1>5, <1>7, <1>8, <1>9 DEF IInv

\* Every commit preserves the invariant.
LEMMA CommitInv ==
  ASSUME IInv, NEW c \in Callers, Commit(c)
  PROVE  IInv'
  BY CommitStartInv, CommitStopInv, CommitResetInv DEF Commit

\* Every step preserves the invariant.
LEMMA NextInv ==
  ASSUME IInv, [Next]_vars
  PROVE  IInv'
<1>1. CASE UNCHANGED vars
  <2>1. Live' = Live /\ engine \in [Engines -> {"none", "live", "lost", "dead"}]
    BY <1>1 DEF vars, Live, IInv, TypeOK
  <2> QED BY <1>1, <2>1, EnginesOnly DEF vars, IInv, TypeOK
<1>2. ASSUME NEW c \in Callers, Step(c) PROVE IInv'
  <2>1. CASE RenderStart(c)  BY <2>1, RenderStartInv
  <2>2. CASE ReserveStart(c) BY <2>2, ReserveStartInv
  <2>3. CASE ReserveStop(c)  BY <2>3, ReserveStopInv
  <2>4. CASE RestartLoads(c) BY <2>4, RestartLoadsInv
  <2>5. CASE StopEngine(c)   BY <2>5, StopEngineInv
  <2>6. CASE SpawnEngine(c)  BY <2>6, SpawnEngineInv
  <2>7. CASE Commit(c)       BY <2>7, CommitInv
  <2>8. CASE Announce(c)     BY <2>8, AnnounceInv
  <2>9. CASE Erase(c)        BY <2>9, EraseInv
  <2>10. CASE WriteGenerated(c) BY <2>10, WriteGeneratedInv
  <2>11. CASE ReserveReload(c)  BY <2>11, ReserveReloadInv
  <2>12. CASE Respec(c)         BY <2>12, RespecInv
  <2> QED BY <1>2, <2>1, <2>2, <2>3, <2>4, <2>5, <2>6, <2>7, <2>8, <2>9, <2>10, <2>11, <2>12 DEF Step
<1>3. ASSUME NEW c \in Callers, Request(c) PROVE IInv'
  <2>1. ASSUME NEW p \in Profiles, NEW k \in {"start", "replace"}, StartRequest(c, k, p) PROVE IInv'
    BY <2>1, StartRequestInv
  <2>2. ASSUME NEW p \in Profiles, NEW k \in {"stop", "restart", "delete"}, StopRequest(c, k, p) PROVE IInv'
    BY <2>2, StopRequestInv
  <2>3. CASE ResetRequest(c)
    BY <2>3, ResetRequestInv
  <2>4. ASSUME NEW w \in Puts, PutRequest(c, w[1], w[2]) PROVE IInv'
    <3>1. w[1] \in Profiles /\ w[2] \in Docs
      BY ConstantsOK
    <3> QED BY <2>4, <3>1, PutRequestInv
  <2> QED BY <1>3, <2>1, <2>2, <2>3, <2>4 DEF Request
<1>4. CASE TakeDown
  BY <1>4, TakeDownInv
<1>5. CASE StopVictim \/ \E e \in Engines : EngineExits(e)
  BY <1>5, EnvironmentInv
<1> QED BY <1>1, <1>2, <1>3, <1>4, <1>5 DEF Next, Exited

\* The inductive invariant holds in every reachable state, for any number of
\* handlers, profiles, backends, addresses and operations.
THEOREM Invariance == Spec => []IInv
<1>1. Init => IInv
  BY InitInv
<1>2. IInv /\ [Next]_vars => IInv'
  BY NextInv
<1> QED BY <1>1, <1>2, PTL DEF Spec
-----------------------------------------------------------------------------
(* Theorems                                                                *)

\* The manager's state keeps its shape.
THEOREM TypeCorrect == Spec => []TypeOK
<1>1. IInv => TypeOK
  BY DEF IInv
<1> QED BY <1>1, Invariance, PTL

\* Until shutdown, at most one handler is between its reservation and its commit,
\* and it owns the slot, although m.mu is released in between.
THEOREM MutualExclusion == Spec => []SingleOwner
<1>1. IInv => SingleOwner
  <2> SUFFICES ASSUME IInv, down = "up" PROVE SingleOwner
    BY DEF SingleOwner
  <2>1. \A c \in Callers : InTransition(c) => slot.op = call[c].op /\ slot.op # 0
    BY DEF IInv, OpsInv
  <2> QED BY <2>1 DEF IInv, OpsInv, SingleOwner
<1> QED BY <1>1, Invariance, PTL

\* Every owned slot has a handler that will end the transition.
THEOREM ReservationsAreHeld == Spec => []NoAbandonedReservation
<1>1. IInv => NoAbandonedReservation
  BY DEF IInv, OpsInv
<1> QED BY <1>1, Invariance, PTL

\* No two supervised engines run at once before shutdown.
THEOREM OneEngineAtATime == Spec => []OneEngine
<1>1. IInv => OneEngine
  <2> SUFFICES ASSUME IInv, down = "up", NEW e \in Live, NEW f \in Live PROVE e = f
    BY DEF OneEngine
  <2>1. \A g \in Live : g = slot.process \/ JustSpawned(g)
    BY DEF IInv, EngineInv
  <2>2. CASE \E c \in Callers : InTransition(c)
    <3>1. PICK c \in Callers : InTransition(c)
      BY <2>2
    <3>2. \A g \in Live : g = slot.process \/ (call[c].pc = "commit" /\ call[c].job \in {"start", "reload"} /\ call[c].proc = g)
      BY <2>1, <3>1, NobodyElse DEF JustSpawned, InTransition, Transitions
    <3>3. call[c].pc = "commit" /\ call[c].job \in {"start", "reload"} /\ call[c].proc # None => Quiet(slot.process)
      BY DEF IInv, EngineInv, EngineOK
    <3> QED BY <3>2, <3>3, ConstantsOK DEF Quiet, Live, Engines
  <2>3. CASE ~ \E c \in Callers : InTransition(c)
    BY <2>1, <2>3 DEF JustSpawned, InTransition, Transitions
  <2> QED BY <2>2, <2>3
<1> QED BY <1>1, Invariance, PTL

\* A free slot means no supervised engine runs.
THEOREM NothingRunsUnowned == Spec => []FreeSlotMeansNoEngine
<1>1. IInv => FreeSlotMeansNoEngine
  <2> SUFFICES ASSUME IInv, down = "up", slot.state = "nil" PROVE Live = {}
    BY DEF FreeSlotMeansNoEngine
  <2>1. slot.process = None /\ slot.op = 0
    BY DEF IInv, SlotInv, NoSlot
  <2>2. \A c \in Callers : ~InTransition(c)
    BY <2>1 DEF IInv, OpsInv
  <2>3. \A e \in Live : e = None
    BY <2>1, <2>2 DEF IInv, EngineInv, JustSpawned, InTransition, Transitions
  <2> QED BY <2>3, ConstantsOK DEF Live, Engines
<1> QED BY <1>1, Invariance, PTL

\* The engine of a settled slot is still known to its supervisor.
THEOREM ServedEngineIsKnown == Spec => []RunningIsSupervised
<1>1. IInv => RunningIsSupervised
  BY DEF IInv, EngineInv, RunningIsSupervised, Supervised
<1> QED BY <1>1, Invariance, PTL

\* The held list is not empty, names no profile twice, and has one entry on an
\* exclusive backend.
THEOREM HeldProfiles == Spec => []HeldOnce
<1>1. IInv => HeldOnce
  BY DEF IInv, SlotInv
<1> QED BY <1>1, Invariance, PTL

\* What one step of a handler may do to the slot: nothing, take a slot no
\* transition owns, or end the transition it owns.
LEMMA HandlerSlot ==
  ASSUME IInv, NEW c \in Callers, Step(c) \/ Request(c)
  PROVE  /\ \A d \in Callers \ {c} : call'[d] = call[d]
         /\ down' = down
         /\ \/ slot' = slot /\ ops' = ops
            \/ /\ slot.op = 0 /\ ops' = ops + 1 /\ slot'.op = ops + 1 /\ slot'.process = slot.process
               /\ slot'.state \in {"starting", "activating", "stopping"}
            \/ /\ InTransition(c) /\ Owns(c) /\ ops' = ops /\ slot'.op = 0
               /\ \/ slot' = NoSlot
                  \/ slot'.state = "failed" /\ slot'.process = slot.process
                  \/ slot'.state = "running" /\ slot'.process \in {slot.process, slot.op} \ {None}
<1>1. TypeOK /\ SlotInv /\ slot \in Slots /\ call \in [Callers -> Calls] /\ ops \in Nat
  BY ConstantsOK DEF IInv, TypeOK
<1>2. CASE Request(c)
  <2>1. \A d \in Callers \ {c} : call'[d] = call[d]
    BY <1>1, <1>2, ZenonT(60) DEF Request, StartRequest, StopRequest, ResetRequest, PutRequest
  <2>2. down' = down
    BY <1>2, ZenonT(60) DEF Request, StartRequest, StopRequest, ResetRequest, PutRequest, ending
  <2>3. \/ slot' = slot /\ ops' = ops
        \/ slot.op = 0 /\ ops' = ops + 1 /\ slot' = [slot EXCEPT !.state = "stopping", !.op = ops + 1]
    BY <1>2 DEF Request, StartRequest, StopRequest, ResetRequest, PutRequest
  <2> QED BY <1>1, <2>1, <2>2, <2>3 DEF Slots
<1>3. CASE RenderStart(c) \/ RestartLoads(c) \/ Announce(c) \/ Erase(c) \/ WriteGenerated(c)
  <2>1. \A d \in Callers \ {c} : call'[d] = call[d]
    BY <1>1, <1>3 DEF RenderStart, RestartLoads, Announce, Erase, WriteGenerated, Goto, Return, AfterStop
  <2>2. down' = down /\ slot' = slot /\ ops' = ops
    BY <1>3 DEF RenderStart, RestartLoads, Announce, Erase, WriteGenerated, ending
  <2> QED BY <2>1, <2>2
<1>4. CASE ReserveStart(c) \/ ReserveStop(c) \/ ReserveReload(c)
  <2>1. \A d \in Callers \ {c} : call'[d] = call[d]
    BY <1>1, <1>4 DEF ReserveStart, ReserveStop, ReserveReload, Reserve, TurnedAway, Return, Goto, AfterStop
  <2>2. down' = down
    BY <1>4 DEF ReserveStart, ReserveStop, ReserveReload, ending
  <2>3. \/ slot' = slot /\ ops' = ops
        \/ /\ slot.state \in {"nil", "running"} /\ ops' = ops + 1
           /\ \E s, st : /\ slot' = [s EXCEPT !.state = st, !.op = ops + 1]
                         /\ st \in {"starting", "activating", "stopping"}
                         /\ \/ s = slot
                            \/ \E q : s = [slot EXCEPT !.profiles = q]
                            \/ \E a, q : s = [slot EXCEPT !.address = a, !.profiles = q]
                            \/ /\ slot.state = "nil"
                               /\ \E b, a, q : s = [NoSlot EXCEPT !.backend = b, !.address = a, !.profiles = q]
    <3>1. CASE ReserveStart(c)
      BY <3>1, ZenonT(60) DEF ReserveStart, Reserve, TurnedAway, Settled
    <3>2. CASE ReserveStop(c)
      BY <3>2 DEF ReserveStop, Reserve, TurnedAway, Settled
    <3>3. CASE ReserveReload(c)
      BY <3>3 DEF ReserveReload, TurnedAway, Settled
    <3> QED BY <1>4, <3>1, <3>2, <3>3, ZenonT(60)
  <2>4. slot.state \in {"nil", "running"} => slot.op = 0
    BY <1>1 DEF SlotInv
  <2>5. slot.state = "nil" => slot = NoSlot
    BY <1>1 DEF SlotInv
  <2>6. ASSUME NEW s, NEW st \in {"starting", "activating", "stopping"},
               slot' = [s EXCEPT !.state = st, !.op = ops + 1],
               \/ s = slot
               \/ \E q : s = [slot EXCEPT !.profiles = q]
               \/ \E a, q : s = [slot EXCEPT !.address = a, !.profiles = q]
               \/ /\ slot.state = "nil"
                  /\ \E b, a, q : s = [NoSlot EXCEPT !.backend = b, !.address = a, !.profiles = q]
        PROVE  slot'.op = ops + 1 /\ slot'.process = slot.process /\ slot'.state = st
    BY <1>1, <2>5, <2>6, ZenonT(60) DEF Slots, NoSlot
  <2> QED BY <2>1, <2>2, <2>3, <2>4, <2>6
<1>5. CASE StopEngine(c) \/ SpawnEngine(c) \/ Respec(c)
  <2>1. \A d \in Callers \ {c} : call'[d] = call[d]
    BY <1>1, <1>5 DEF StopEngine, SpawnEngine, Respec, Fail, Goto
  <2>2. down' = down /\ ops' = ops /\ InTransition(c)
    BY <1>5 DEF StopEngine, SpawnEngine, Respec, ending, At, InTransition, Transitions
  <2>3. \/ slot' = slot
        \/ Owns(c) /\ (slot' = NoSlot \/ slot' = [slot EXCEPT !.state = "failed", !.op = 0])
    BY <1>5 DEF StopEngine, SpawnEngine, Respec, Fail
  <2>4. slot' = NoSlot => slot'.op = 0
    BY DEF NoSlot
  <2>5. ASSUME slot' = [slot EXCEPT !.state = "failed", !.op = 0]
        PROVE  slot'.op = 0 /\ slot'.state = "failed" /\ slot'.process = slot.process
    <3>1. slot \in Slots
      BY <1>1
    <3>2. slot'.op = 0 /\ slot'.state = "failed"
      BY <2>5, <3>1 DEF Slots
    <3>3. slot'.process = slot.process
      BY <2>5, <3>1 DEF Slots
    <3> QED BY <3>2, <3>3
  <2> QED BY <2>1, <2>2, <2>3, <2>4, <2>5
<1>6. CASE Commit(c)
  <2>1. \A d \in Callers \ {c} : call'[d] = call[d]
    BY <1>1, <1>6 DEF Commit, CommitStart, CommitStop, CommitReset
  <2>2. down' = down /\ ops' = ops /\ InTransition(c)
    BY <1>6 DEF Commit, ending, At, InTransition, Transitions
  <2>3. CASE ~Owns(c)
    BY <1>6, <2>1, <2>2, <2>3 DEF Commit, CommitStart, CommitStop, CommitReset
  <2>4. CASE Owns(c)
    <3>1. OwnerOK(call[c]) /\ slot.op = call[c].op /\ slot.op # None /\ call[c].pc = "commit"
      BY <1>1, <1>6, <2>2, <2>4, ConstantsOK DEF IInv, OwnerInv, Owns, Slots, Commit, At
    <3>2. CASE call[c].job \in {"start", "reload"} /\ CommitStart(c)
      <4>1. PICK q : /\ q = IF call[c].proc # None THEN call[c].proc ELSE slot.process
                     /\ slot' = [slot EXCEPT !.process = q, !.state = "running", !.op = 0]
        BY <2>4, <3>2 DEF CommitStart
      <4>2. q \in {slot.process, slot.op} \ {None}
        BY <3>1, <3>2, <4>1 DEF OwnerOK
      <4>3. slot'.process = q /\ slot'.state = "running" /\ slot'.op = 0
        BY <1>1, <4>1 DEF Slots
      <4> QED BY <2>1, <2>2, <2>4, <4>2, <4>3
    <3>3. CASE call[c].job = "stop" /\ CommitStop(c)
      <4>1. \/ slot' = NoSlot
            \/ \E q : slot' = [slot EXCEPT !.profiles = q, !.state = "running", !.op = 0]
        BY <2>4, <3>3 DEF CommitStop
      <4>2. slot.process # None
        BY <3>1, <3>3, ConstantsOK DEF OwnerOK, Engines
      <4>3. ASSUME NEW q, slot' = [slot EXCEPT !.profiles = q, !.state = "running", !.op = 0]
            PROVE  slot'.process = slot.process /\ slot'.state = "running" /\ slot'.op = 0
        BY <1>1, <4>3 DEF Slots
      <4>4. NoSlot.op = 0
        BY DEF NoSlot
      <4> QED BY <2>1, <2>2, <2>4, <4>1, <4>2, <4>3, <4>4
    <3>4. CASE call[c].job = "reset" /\ CommitReset(c)
      BY <2>1, <2>2, <2>4, <3>4 DEF CommitReset, NoSlot
    <3> QED BY <1>6, <3>2, <3>3, <3>4 DEF Commit
  <2> QED BY <2>3, <2>4
<1> QED BY <1>2, <1>3, <1>4, <1>5, <1>6 DEF Step

\* While an operation owns the slot, only the handler of that operation changes it.
THEOREM OwnershipIsRespected == Spec => OnlyOwnerCommits
<1> DEFINE A == slot.op # 0 /\ slot' # slot /\ down' = "up" =>
                  \A c \in Callers : call'[c] # call[c] => call[c].op = slot.op
<1>1. IInv /\ [Next]_vars => [A]_vars
  <2> SUFFICES ASSUME IInv, [Next]_vars, slot.op # 0, slot' # slot, down' = "up"
               PROVE  \A c \in Callers : call'[c] # call[c] => call[c].op = slot.op
    OBVIOUS
  <2>1. ASSUME NEW c \in Callers, Step(c) \/ Request(c)
        PROVE  \A d \in Callers : call'[d] # call[d] => call[d].op = slot.op
    BY <2>1, HandlerSlot DEF Owns
  <2>2. PICK c \in Callers : Step(c) \/ Request(c)
    BY DEF Next, TakeDown, StopVictim, Exited, EngineExits, vars
  <2> QED BY <2>1, <2>2
<1>2. OnlyOwnerCommits <=> [][A]_vars
  BY DEF OnlyOwnerCommits
<1> QED BY <1>1, <1>2, Invariance, PTL DEF Spec

\* The manager implements the abstract lifecycle of one runtime.
THEOREM Refinement == Spec => ImplementsLifecycle
<1>1. Init => Lifecycle!LInit
  <2> SUFFICES ASSUME Init PROVE Lifecycle!LInit
    OBVIOUS
  <2>1. slot = NoSlot \/ \E p, held, st : st \in {"running", "orphaned"} /\ slot = Recovered(p, held, st)
    BY DEF Init
  <2>2. 0 \in Engines
    BY ConstantsOK DEF Engines
  <2> QED BY <2>1, <2>2 DEF Init, Lifecycle!LInit, Recovered, NoSlot, Phase, Power
<1>2. IInv /\ [Next]_vars => [Lifecycle!LNext]_(Lifecycle!lvars)
  <2> SUFFICES ASSUME IInv, [Next]_vars PROVE Lifecycle!LNext \/ UNCHANGED Lifecycle!lvars
    OBVIOUS
  <2>1. ASSUME NEW c \in Callers, Step(c) \/ Request(c)
        PROVE  Lifecycle!LNext \/ UNCHANGED Lifecycle!lvars
    <3>1. SlotInv /\ Power' = Power
      BY <2>1, HandlerSlot DEF IInv, Power
    <3>2. CASE slot' = slot /\ ops' = ops
      BY <3>1, <3>2 DEF Lifecycle!lvars, Phase
    <3>3. CASE /\ slot.op = 0 /\ ops' = ops + 1 /\ slot'.op = ops + 1 /\ slot'.process = slot.process
               /\ slot'.state \in {"starting", "activating", "stopping"}
      <4>1. Phase # "busy" /\ Phase' = "busy"
        BY <3>1, <3>3 DEF Phase, SlotInv, IInv, TypeOK, Slots, States
      <4> QED BY <3>1, <3>3, <4>1 DEF Lifecycle!LNext, Lifecycle!Begins
    <3>4. CASE /\ InTransition(c) /\ Owns(c) /\ ops' = ops /\ slot'.op = 0
               /\ \/ slot' = NoSlot
                  \/ slot'.state = "failed" /\ slot'.process = slot.process
                  \/ slot'.state = "running" /\ slot'.process \in {slot.process, slot.op} \ {None}
      <4>1. slot.op # 0
        BY <3>4 DEF IInv, OpsInv, Owns
      <4>2. Phase = "busy"
        BY <3>1, <4>1 DEF Phase, SlotInv
      <4>3. \/ Phase' = "none" /\ slot'.process = None
            \/ Phase' = "stuck" /\ slot'.process = slot.process
            \/ Phase' = "serving" /\ slot'.process \in {slot.process, slot.op} \ {None}
        BY <3>4 DEF Phase, NoSlot
      <4> QED BY <3>1, <3>4, <4>1, <4>2, <4>3 DEF Lifecycle!LNext, Lifecycle!Ends
    <3> QED BY <2>1, <3>2, <3>3, <3>4, HandlerSlot
  <2>2. CASE TakeDown
    BY <2>2 DEF TakeDown, Lifecycle!LNext, Lifecycle!TakenDown, Phase, Power, NoSlot
  <2>3. CASE StopVictim \/ Exited \/ UNCHANGED vars \/ \E e \in Engines : EngineExits(e)
    BY <2>3 DEF StopVictim, Exited, EngineExits, vars, ending, Lifecycle!lvars, Phase, Power
  <2> QED BY <2>1, <2>2, <2>3 DEF Next
<1> QED BY <1>1, <1>2, Invariance, PTL DEF Spec, ImplementsLifecycle, Lifecycle!Spec

=============================================================================
