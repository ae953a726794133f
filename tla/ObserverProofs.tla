--------------------------- MODULE ObserverProofs ---------------------------
(***************************************************************************)
(* Proofs, for any routes, batch size, ring capacities and left segments,  *)
(* and any number of runs, writes and crashes: what is in the files is in  *)
(* order, once and in whole batches, what is not in them is accounted for, *)
(* and only the end of the process costs lines of a log.                   *)
(*                                                                         *)
(* The invariant is one of each route by itself (RouteInv).  A step of     *)
(* another route leaves it alone, which lemma Frame says once for all.     *)
(***************************************************************************)
EXTENDS Observer, SequenceTheorems, TLAPS

\* A batch has at least one element.
LEMMA SizePositive == \A r \in Routes : Size(r) \in Nat \ {0}
  BY ObserverAssumption DEF Size

\* Runs are natural numbers, and None is no run.
LEMMA RunsAreNat == Runs \subseteq Nat /\ None \notin Runs /\ None \in Int
  BY ObserverAssumption DEF Runs, None

\* The types, of one route.
LEMMA RouteTypes ==
  ASSUME TypeOK, NEW r \in Routes
  PROVE  /\ run[r] \in Runs /\ run[r] \in Nat
         /\ attached[r] \in Runs \cup {None} /\ attached[r] \in Int
         /\ written[r] \in [Runs -> Nat] /\ tail[r] \in [Runs -> Nat]
         /\ batch[r] \in Seq(Element) /\ out[r] \in Seq(Seq(Element))
         /\ pc[r] \in {"open", "read", "check", "size", "write", "down"}
<1>1. run[r] \in Runs /\ attached[r] \in Runs \cup {None}
  BY DEF TypeOK
<1>2. run[r] \in Nat /\ attached[r] \in Int
  BY <1>1, RunsAreNat
<1> QED BY <1>1, <1>2 DEF TypeOK

\* ... and of what is in its file.
LEMMA InFileTypes ==
  ASSUME TypeOK, NEW r \in Routes, NEW e \in InFile(r)
  PROVE  e[1] \in Runs /\ e[2] \in Nat
<1>1. PICK k \in DOMAIN out[r] : e \in Elements(out[r][k])
  BY DEF InFile
<1>2. out[r][k] \in Seq(Element)
  BY <1>1, RouteTypes, ElementOfSeq, LenProperties
<1>3. PICK i \in DOMAIN out[r][k] : e = out[r][k][i]
  BY <1>1 DEF Elements
<1>4. e \in Element
  BY <1>2, <1>3, ElementOfSeq, LenProperties
<1> QED BY <1>4 DEF Element

\* What is in hand are elements.
LEMMA InHandTypes == TypeOK => \A r \in Routes : Elements(batch[r]) \subseteq Element
<1> SUFFICES ASSUME TypeOK, NEW r \in Routes, NEW k \in DOMAIN batch[r] PROVE batch[r][k] \in Element
  BY DEF Elements
<1>1. batch[r] \in Seq(Element)
  BY DEF TypeOK
<1> QED BY <1>1, ElementOfSeq, LenProperties

\* A route whose part of the state did not change keeps its invariant.
LEMMA Frame ==
  ASSUME NEW r \in Routes, RouteInv(r),
         run'[r] = run[r], written'[r] = written[r], tail'[r] = tail[r],
         \A n \in Runs : <<r, n>> \in disabled' => <<r, n>> \in disabled,
         pc'[r] = pc[r], attached'[r] = attached[r], batch'[r] = batch[r],
         out'[r] = out[r], dropped'[r] = dropped[r], overflowed'[r] = overflowed[r]
  PROVE  RouteInv(r)'
<1>1. InHand(r)'
  BY DEF RouteInv, InHand
<1>2. OverflowKnown(r)'
  BY DEF RouteInv, OverflowKnown
<1>3. Whole(r)'
  BY DEF RouteInv, Whole
<1>4. InFile(r)' = InFile(r) /\ Elements(batch[r])' = Elements(batch[r])
  BY DEF InFile, Elements
<1>5. InOrder(r)'
  BY DEF RouteInv, InOrder, Before
<1>6. Behind(r)' /\ Somewhere(r)'
  BY <1>4 DEF RouteInv, Behind, Somewhere
<1> QED BY <1>1, <1>2, <1>3, <1>5, <1>6 DEF RouteInv

-----------------------------------------------------------------------------
(* Types.                                                                  *)

\* Initially nothing is written, read or in hand.
LEMMA InitTypeOK == Init => TypeOK
<1> SUFFICES ASSUME Init PROVE TypeOK
  OBVIOUS
<1> USE DEF Init, TypeOK
<1>0. 0 \in Runs
  BY ObserverAssumption DEF Runs
<1>1. left \in [Routes -> {"none", "ours", "other"}]
  BY ObserverAssumption
<1>2. run \in [Routes -> Runs] /\ up \subseteq Routes /\ disabled \subseteq Routes \X Runs
  BY <1>0
<1>3. written \in [Routes -> [Runs -> Nat]] /\ tail \in [Routes -> [Runs -> Nat]]
  OBVIOUS
<1>4. /\ pc \in [Routes -> {"open", "read", "check", "size", "write", "down"}]
      /\ attached \in [Routes -> Runs \cup {None}]
  OBVIOUS
<1>5. batch \in [Routes -> Seq(Element)] /\ out \in [Routes -> Seq(Seq(Element))]
  BY EmptySeq
<1>6. dropped \in [Routes -> SUBSET Element] /\ overflowed \in [Routes -> SUBSET Element]
  OBVIOUS
<1> QED BY <1>1, <1>2, <1>3, <1>4, <1>5, <1>6, Zenon

\* Every step keeps the types.
LEMMA NextTypeOK == IInv /\ [Next]_vars => TypeOK'
<1> SUFFICES ASSUME TypeOK, [Next]_vars, \A r \in Routes : InHand(r) PROVE TypeOK'
  BY DEF IInv, RouteInv
<1> USE DEF TypeOK
<1>0. Runs \subseteq Nat /\ None \notin Runs
  BY RunsAreNat
<1>1. ASSUME NEW r \in Routes, Begin(r) PROVE TypeOK'
  <2>1. run[r] + 1 \in Runs
    <3>1. run[r] \in 0 .. MaxRuns /\ run[r] < MaxRuns /\ MaxRuns \in Nat
      BY <1>1, ObserverAssumption DEF Begin, Runs
    <3> QED BY <3>1 DEF Runs
  <2> QED BY <1>1, <2>1 DEF Begin, ring, thread, file, history
<1>2. ASSUME NEW r \in Routes, End(r) PROVE TypeOK'
  BY <1>2 DEF End, ring, thread, file, history
<1>3. ASSUME NEW r \in Routes, Write(r) PROVE TypeOK'
  <2>1. run[r] \in Runs
    OBVIOUS
  <2>2. written' \in [Routes -> [Runs -> Nat]]
    BY <1>3, <2>1 DEF Write
  <2>3. disabled' \subseteq Routes \X Runs
    BY <1>3, <2>1 DEF Write
  <2>4. overflowed' \in [Routes -> SUBSET Element]
    <3>1. \A i \in tail[r][run[r]] + 1 .. written'[r][run[r]] : <<run[r], i>> \in Element
      BY <2>1, <2>2 DEF Element
    <3> QED BY <1>3, <3>1 DEF Write
  <2> QED BY <1>3, <2>2, <2>3, <2>4 DEF Write, producer, thread, file
<1>4. CASE Rotate
  BY <1>4 DEF Rotate, producer, ring, thread, history
<1>5. ASSUME NEW R \in SUBSET Routes, Drop(R)
      PROVE  /\ batch' \in [Routes -> Seq(Element)]
             /\ attached' \in [Routes -> Runs \cup {None}]
             /\ dropped' \in [Routes -> SUBSET Element]
  <2>1. <<>> \in Seq(Element)
    OBVIOUS
  <2> QED BY <1>5, <2>1, InHandTypes DEF Drop
<1>6. CASE Down /\ crashes' \in Nat
  BY <1>5, <1>6 DEF Down, producer, ring, file
<1>7. ASSUME NEW r \in Routes, Thread(r) PROVE TypeOK'
  <2>1. CASE Open(r)
    BY <2>1 DEF Open, producer, ring, file, history
  <2>2. CASE Conflict(r)
    BY <1>6, <2>2 DEF Conflict
  <2>3. CASE ReadSuccess(r)
    <3>1. attached[r] \in Runs
      BY <2>3 DEF ReadSuccess, InHand
    <3>2. tail' \in [Routes -> [Runs -> Nat]]
      BY <2>3, <3>1 DEF ReadSuccess
    <3>3. <<attached[r], tail'[r][attached[r]]>> \in Element
      BY <2>3, <3>1 DEF ReadSuccess, Element
    <3>4. batch' \in [Routes -> Seq(Element)]
      BY <2>3, <3>3 DEF ReadSuccess
    <3>5. pc' \in [Routes -> {"open", "read", "check", "size", "write", "down"}]
      BY <2>3 DEF ReadSuccess
    <3> QED BY <2>3, <3>2, <3>4, <3>5 DEF ReadSuccess, producer, file, history
  <2>4. CASE ReadDisabled(r)
    <3>1. attached[r] \in Runs
      BY <2>4 DEF ReadDisabled, InHand
    <3>2. tail' \in [Routes -> [Runs -> Nat]]
      BY <2>4, <3>1 DEF ReadDisabled
    <3>3. batch' \in [Routes -> Seq(Element)]
      BY <2>4 DEF ReadDisabled
    <3>4. dropped' \in [Routes -> SUBSET Element]
      BY <2>4, InHandTypes DEF ReadDisabled
    <3> QED BY <2>4, <3>2, <3>3, <3>4 DEF ReadDisabled, producer, file
  <2>5. CASE ReadEmpty(r) \/ ProducerAlive(r)
    BY <2>5 DEF ReadEmpty, ProducerAlive, producer, ring, file, history
  <2>6. CASE ProducerDead(r)
    BY <1>5, <2>6 DEF ProducerDead, producer, ring, file
  <2>7. CASE r = Latency /\ LookAtSize
    BY <2>7 DEF LookAtSize, producer, ring, history
  <2>8. CASE WriteOut(r)
    <3>1. out' \in [Routes -> Seq(Seq(Element))]
      BY <2>8 DEF WriteOut
    <3>2. batch' \in [Routes -> Seq(Element)]
      BY <2>8 DEF WriteOut
    <3> QED BY <2>8, <3>1, <3>2 DEF WriteOut, producer, ring
  <2> HIDE DEF TypeOK
  <2> QED BY <1>7, <2>1, <2>2, <2>3, <2>4, <2>5, <2>6, <2>7, <2>8 DEF Thread
<1>8. CASE Crash
  <2>1. Down /\ crashes' \in Nat
    BY <1>8 DEF Crash
  <2> QED BY <1>6, <2>1
<1>9. CASE Restart
  BY <1>9 DEF Restart, producer, ring, file, history
<1>10. CASE UNCHANGED vars
  BY <1>10 DEF vars, producer, ring, thread, file, history
<1> QED BY <1>1, <1>2, <1>3, <1>4, <1>7, <1>8, <1>9, <1>10 DEF Next

-----------------------------------------------------------------------------
(* The invariant of a route.                                               *)

\* The elements of a sequence that got one more.
LEMMA ElementsAppended ==
  ASSUME NEW S, NEW s \in Seq(S), NEW e \in S
  PROVE  Elements(Append(s, e)) = Elements(s) \cup {e}
<1> DEFINE t == Append(s, e)
<1>1. /\ DOMAIN s = 1 .. Len(s) /\ DOMAIN t = 1 .. Len(s) + 1 /\ Len(s) \in Nat
      /\ t[Len(s) + 1] = e /\ \A k \in 1 .. Len(s) : t[k] = s[k]
  OBVIOUS
<1> HIDE DEF t
<1>2. \A x : x \in Elements(t) <=> x \in Elements(s) \cup {e}
  BY <1>1 DEF Elements
<1> QED BY <1>2 DEF t

\* What is in a file that got one more batch.
LEMMA FileAppended ==
  ASSUME NEW r \in Routes, out[r] \in Seq(Seq(Element)), NEW b \in Seq(Element),
         out'[r] = Append(out[r], b)
  PROVE  InFile(r)' = InFile(r) \cup Elements(b)
<1> DEFINE o == out[r]
           p == out'[r]
<1>1. /\ DOMAIN o = 1 .. Len(o) /\ DOMAIN p = 1 .. Len(o) + 1 /\ Len(o) \in Nat
      /\ p[Len(o) + 1] = b /\ \A k \in 1 .. Len(o) : p[k] = o[k]
  OBVIOUS
<1>2. /\ InFile(r) = UNION {Elements(o[k]) : k \in DOMAIN o}
      /\ InFile(r)' = UNION {Elements(p[k]) : k \in DOMAIN p}
  BY DEF InFile, Elements
<1> HIDE DEF o, p
<1>3. /\ \A x : x \in InFile(r) <=> \E k \in 1 .. Len(o) : x \in Elements(o[k])
      /\ \A x : x \in InFile(r)' <=> \E k \in 1 .. Len(o) + 1 : x \in Elements(p[k])
  BY <1>1, <1>2
<1>4. 1 .. Len(o) + 1 = (1 .. Len(o)) \cup {Len(o) + 1}
  BY <1>1
<1>5. \A x : x \in InFile(r)' <=> x \in InFile(r) \cup Elements(b)
  BY <1>1, <1>3, <1>4
<1> QED BY <1>5

\* A file that was not written to stays whole and in order.
LEMMA FileKept ==
  ASSUME NEW r \in Routes, RouteInv(r), out'[r] = out[r]
  PROVE  Whole(r)' /\ InOrder(r)' /\ InFile(r)' = InFile(r)
<1>1. Whole(r)'
  BY DEF RouteInv, Whole
<1>2. InOrder(r)'
  BY DEF RouteInv, InOrder, Before
<1>3. InFile(r)' = InFile(r)
  BY DEF InFile, Elements
<1> QED BY <1>1, <1>2, <1>3

\* The invariant holds before anything is read.
LEMMA InitRouteInv == Init => \A r \in Routes : RouteInv(r)
<1> SUFFICES ASSUME Init, NEW r \in Routes PROVE RouteInv(r)
  OBVIOUS
<1>0. Size(r) \in Nat \ {0} /\ Runs \subseteq Nat
  BY SizePositive, RunsAreNat
<1>1. /\ run[r] = 0 /\ attached[r] = None /\ batch[r] = <<>> /\ out[r] = <<>>
      /\ pc[r] = "open" /\ disabled = {} /\ tail[r] = [n \in Runs |-> 0]
      /\ \A n \in Runs : written[r][n] \in Nat
  BY DEF Init
<1>2. InHand(r)
  BY <1>0, <1>1 DEF InHand, None
<1>3. OverflowKnown(r)
  BY <1>1 DEF OverflowKnown
<1>4. Whole(r) /\ Behind(r) /\ InOrder(r)
  BY <1>1 DEF Whole, Behind, InOrder, InFile
<1>5. Somewhere(r)
  BY <1>1 DEF Somewhere
<1> QED BY <1>2, <1>3, <1>4, <1>5 DEF RouteInv

\* A new run of the producer: its ring is read by nobody yet.
LEMMA BeginRouteInv ==
  ASSUME TypeOK, NEW r \in Routes, RouteInv(r), Begin(r)
  PROVE  RouteInv(r)'
<1>0. /\ run'[r] = run[r] + 1 /\ run[r] \in Nat
      /\ UNCHANGED <<written, tail, disabled, pc, attached, batch, out, dropped, overflowed>>
  BY RouteTypes, RunsAreNat DEF Begin, TypeOK, ring, thread, history
<1>1. InHand(r)'
  <2>1. attached[r] \in Int
    BY RouteTypes, RunsAreNat
  <2>2. attached[r] <= run[r]
    BY DEF RouteInv, InHand
  <2>3. attached[r] <= run'[r]
    BY <1>0, <2>1, <2>2
  <2>4. attached'[r] = attached[r] /\ pc'[r] = pc[r] /\ batch'[r] = batch[r] /\ tail'[r] = tail[r]
    BY <1>0
  <2> QED BY <2>3, <2>4 DEF RouteInv, InHand
<1>2. OverflowKnown(r)' /\ Somewhere(r)' /\ Whole(r)' /\ InOrder(r)'
  <2>1. OverflowKnown(r)'
    BY <1>0 DEF RouteInv, OverflowKnown
  <2>2. Whole(r)' /\ InOrder(r)' /\ InFile(r)' = InFile(r)
    BY <1>0, FileKept
  <2>3. Somewhere(r)'
    BY <1>0, <2>2 DEF RouteInv, Somewhere
  <2> QED BY <2>1, <2>2, <2>3
<1>3. Behind(r)'
  <2> SUFFICES ASSUME NEW e \in InFile(r) PROVE e[1] <= run[r] + 1
    BY <1>0, FileKept DEF RouteInv, Behind
  <2>1. e[1] \in Nat /\ e[1] <= run[r]
    BY InFileTypes, RunsAreNat DEF RouteInv, Behind
  <2> QED BY <1>0, <2>1
<1> QED BY <1>1, <1>2, <1>3 DEF RouteInv

\* A write: what it finds in the ring or puts there when it overflows is noted.
LEMMA WriteRouteInv ==
  ASSUME TypeOK, NEW r \in Routes, RouteInv(r), Write(r)
  PROVE  RouteInv(r)'
<1> DEFINE n == run[r]
<1>0. /\ UNCHANGED <<run, tail, pc, attached, batch, out, dropped>>
      /\ n \in Runs /\ written[r][n] \in Nat /\ tail[r][n] \in Nat
      /\ written'[r] = [written[r] EXCEPT ![n] = @ + 1]
      /\ written[r] \in [Runs -> Nat] /\ tail[r] \in [Runs -> Nat]
  BY RouteTypes DEF Write, TypeOK, producer, thread, file
<1>1. /\ overflowed[r] \subseteq overflowed'[r]
      /\ <<r, n>> \in disabled' => \A i \in tail[r][n] + 1 .. written'[r][n] : <<n, i>> \in overflowed'[r]
      /\ \A m \in Runs \ {n} : <<r, m>> \in disabled' => <<r, m>> \in disabled
  <2>1. disabled' = disabled \cup {<<r, n>>} \/ disabled' = disabled
    BY DEF Write
  <2>2. \/ /\ <<r, n>> \in disabled'
           /\ overflowed'[r] = overflowed[r] \cup {<<n, i>> : i \in tail[r][n] + 1 .. written'[r][n]}
        \/ <<r, n>> \notin disabled' /\ overflowed'[r] = overflowed[r]
    BY DEF Write, TypeOK
  <2> QED BY <2>1, <2>2
<1>2. InHand(r)'
  BY <1>0 DEF RouteInv, InHand
<1>3. OverflowKnown(r)'
  <2> SUFFICES ASSUME NEW m \in Runs
               PROVE  /\ tail[r][m] <= written'[r][m]
                      /\ <<r, m>> \in disabled' =>
                           \A i \in tail[r][m] + 1 .. written'[r][m] : <<m, i>> \in overflowed'[r]
    BY <1>0 DEF OverflowKnown
  <2>1. /\ tail[r][m] <= written[r][m] /\ tail[r][m] \in Nat /\ written[r][m] \in Nat
        /\ <<r, m>> \in disabled =>
             \A i \in tail[r][m] + 1 .. written[r][m] : <<m, i>> \in overflowed[r]
    BY <1>0 DEF RouteInv, OverflowKnown
  <2>2. CASE m = n
    BY <1>0, <1>1, <2>1, <2>2
  <2>3. CASE m # n
    <3>1. written'[r][m] = written[r][m]
      BY <1>0, <2>3
    <3> QED BY <1>1, <2>1, <2>3, <3>1
  <2> QED BY <2>2, <2>3
<1>4. Whole(r)' /\ InOrder(r)' /\ InFile(r)' = InFile(r)
  BY <1>0, FileKept
<1>5. Behind(r)'
  BY <1>0, <1>4 DEF RouteInv, Behind
<1>6. Somewhere(r)'
  BY <1>0, <1>1, <1>4 DEF RouteInv, Somewhere
<1> QED BY <1>2, <1>3, <1>4, <1>5, <1>6 DEF RouteInv

\* What a thread has in hand is noted when it is dropped, and the ring is left.
LEMMA DropRouteInv ==
  ASSUME TypeOK, NEW r \in Routes, RouteInv(r),
         UNCHANGED <<run, written, tail, disabled, out, overflowed>>,
         pc'[r] \in {"open", "down"}, attached'[r] = None, batch'[r] = <<>>,
         dropped'[r] = dropped[r] \cup Elements(batch[r])
  PROVE  RouteInv(r)'
<1>0. Size(r) \in Nat \ {0} /\ run[r] \in Nat
  BY SizePositive, RouteTypes
<1>1. InHand(r)'
  BY <1>0 DEF InHand, None
<1>2. OverflowKnown(r)'
  BY DEF RouteInv, OverflowKnown
<1>3. Whole(r)' /\ InOrder(r)' /\ InFile(r)' = InFile(r)
  BY FileKept
<1>4. Behind(r)'
  <2>1. \A e \in InFile(r) : e[1] # None
    BY InFileTypes, RunsAreNat
  <2> QED BY <1>3, <2>1 DEF RouteInv, Behind
<1>5. Somewhere(r)'
  BY <1>3 DEF RouteInv, Somewhere
<1> QED BY <1>1, <1>2, <1>3, <1>4, <1>5 DEF RouteInv

\* A step of the thread that only goes on, with as little or as much in hand as before.
LEMMA PassRouteInv ==
  ASSUME NEW r \in Routes, RouteInv(r),
         UNCHANGED <<run, written, tail, disabled, attached, batch, out, dropped, overflowed>>,
         (pc'[r] \in {"open", "down"}) = (pc[r] \in {"open", "down"}),
         (pc'[r] \in {"size", "write"}) = (pc[r] \in {"size", "write"})
  PROVE  RouteInv(r)'
<1>1. InHand(r)'
  BY DEF RouteInv, InHand
<1>2. OverflowKnown(r)'
  BY DEF RouteInv, OverflowKnown
<1>3. Whole(r)' /\ InOrder(r)' /\ InFile(r)' = InFile(r)
  BY FileKept
<1>4. Behind(r)'
  BY <1>3 DEF RouteInv, Behind
<1>5. Somewhere(r)'
  BY <1>3 DEF RouteInv, Somewhere
<1> QED BY <1>1, <1>2, <1>3, <1>4, <1>5 DEF RouteInv

\* The segment that is opened is the latest one, and nothing is in hand.
LEMMA OpenRouteInv ==
  ASSUME TypeOK, NEW r \in Routes, RouteInv(r), Open(r)
  PROVE  RouteInv(r)'
<1>0. /\ UNCHANGED <<run, written, tail, disabled, batch, out, dropped, overflowed>>
      /\ attached'[r] = run[r] /\ pc'[r] = "read" /\ pc[r] = "open"
      /\ run[r] \in Nat /\ Size(r) \in Nat \ {0} /\ run[r] # None
  BY SizePositive, RouteTypes, RunsAreNat DEF Open, TypeOK, producer, ring, history
<1>1. batch[r] = <<>>
  BY <1>0 DEF RouteInv, InHand
<1>2. InHand(r)'
  <2>1. run[r] <= run[r]
    BY <1>0
  <2> QED BY <1>0, <1>1, <2>1 DEF InHand
<1>3. OverflowKnown(r)'
  BY <1>0 DEF RouteInv, OverflowKnown
<1>4. Whole(r)' /\ InOrder(r)' /\ InFile(r)' = InFile(r)
  BY <1>0, FileKept
<1>5. Behind(r)'
  <2>1. Len(batch[r]) = 0
    BY <1>1
  <2>2. ASSUME NEW e \in InFile(r)
        PROVE  /\ e[1] <= run[r] /\ e[2] <= tail[r][e[1]]
               /\ e[2] <= tail[r][e[1]] - Len(batch[r])
    <3>1. e[1] <= run[r] /\ e[2] <= tail[r][e[1]]
      BY DEF RouteInv, Behind
    <3>2. tail[r][e[1]] \in Nat
      BY InFileTypes, RouteTypes
    <3> QED BY <2>1, <3>1, <3>2
  <2> QED BY <1>0, <1>4, <2>2 DEF Behind
<1>6. Somewhere(r)'
  BY <1>0, <1>4 DEF RouteInv, Somewhere
<1> QED BY <1>2, <1>3, <1>4, <1>5, <1>6 DEF RouteInv

\* An element that is read is in hand, behind those that were.
LEMMA ReadRouteInv ==
  ASSUME TypeOK, NEW r \in Routes, RouteInv(r), ReadSuccess(r)
  PROVE  RouteInv(r)'
<1> DEFINE n == attached[r]
           t == tail[r][n]
           b == batch[r]
           l == Len(b)
           e == <<n, t + 1>>
<1>0. /\ UNCHANGED <<run, written, disabled, attached, out, dropped, overflowed>>
      /\ pc[r] = "read" /\ n \in Runs /\ n # None /\ t \in Nat /\ t < written[r][n]
      /\ <<r, n>> \notin disabled
      /\ tail'[r] = [tail[r] EXCEPT ![n] = t + 1] /\ tail[r] \in [Runs -> Nat]
      /\ b \in Seq(Element) /\ Size(r) \in Nat \ {0} /\ written[r][n] \in Nat
  <2>1. pc[r] = "read" /\ n \in Runs
    BY RouteTypes DEF ReadSuccess, RouteInv, InHand
  <2> QED BY <2>1, RouteTypes, RunsAreNat, SizePositive
          DEF ReadSuccess, TypeOK, producer, file, history
<1>1. batch'[r] = Append(b, e)
  BY <1>0 DEF ReadSuccess, TypeOK
<1>2. e \in Element
  BY <1>0 DEF Element
<1>3. /\ l \in Nat /\ Len(batch'[r]) = l + 1 /\ batch'[r][l + 1] = e
      /\ \A k \in 1 .. l : batch'[r][k] = b[k]
  BY <1>0, <1>1, <1>2
<1>4. l < Size(r) /\ \A k \in 1 .. l : b[k] = <<n, t - l + k>>
  BY <1>0, <1>3 DEF RouteInv, InHand
<1>5. pc'[r] = IF l + 1 < Size(r) THEN "read" ELSE IF r = Latency THEN "size" ELSE "write"
  BY <1>3 DEF ReadSuccess, TypeOK
<1>6. tail'[r][n] = t + 1 /\ \A m \in Runs \ {n} : tail'[r][m] = tail[r][m]
  BY <1>0
<1> HIDE DEF n, t, b, l, e
<1>7. InHand(r)'
  <2>1. \A k \in 1 .. Len(batch'[r]) : batch'[r][k] = <<n, t + 1 - (l + 1) + k>>
    <3> SUFFICES ASSUME NEW k \in 1 .. l + 1 PROVE batch'[r][k] = <<n, t + 1 - (l + 1) + k>>
      BY <1>3
    <3>1. CASE k = l + 1
      BY <1>0, <1>3, <3>1 DEF e
    <3>2. CASE k # l + 1
      <4>1. k \in 1 .. l
        BY <1>3, <3>2
      <4>2. t - l + k = t + 1 - (l + 1) + k
        BY <1>0, <1>3
      <4> QED BY <1>3, <1>4, <4>1, <4>2
    <3> QED BY <3>1, <3>2
  <2>2. (pc'[r] \in {"size", "write"}) = (l + 1 = Size(r)) /\ l + 1 <= Size(r)
        /\ pc'[r] \notin {"open", "down"}
    BY <1>0, <1>3, <1>4, <1>5
  <2>3. attached'[r] = n /\ n <= run[r] /\ n # None
    BY <1>0 DEF RouteInv, InHand, n
  <2>4. /\ tail'[r][attached'[r]] = t + 1 /\ Len(batch'[r]) = l + 1 /\ run'[r] = run[r]
    BY <1>0, <1>3, <1>6, <2>3
  <2>5. \A k \in 1 .. Len(batch'[r]) :
          batch'[r][k] = <<attached'[r], tail'[r][attached'[r]] - Len(batch'[r]) + k>>
    <3> TAKE k \in 1 .. Len(batch'[r])
    <3>1. batch'[r][k] = <<n, t + 1 - (l + 1) + k>>
      BY <2>1
    <3>2. <<attached'[r], tail'[r][attached'[r]] - Len(batch'[r]) + k>> = <<n, t + 1 - (l + 1) + k>>
      <4>1. tail'[r][attached'[r]] - Len(batch'[r]) + k = t + 1 - (l + 1) + k
        BY <1>0, <1>3, <2>4
      <4> QED BY <2>3, <4>1
    <3> QED BY <3>1, <3>2
  <2>6. attached'[r] # None /\ attached'[r] <= run'[r]
    BY <2>3, <2>4
  <2>7. (pc'[r] \in {"size", "write"}) = (Len(batch'[r]) = Size(r)) /\ Len(batch'[r]) <= Size(r)
    BY <2>2, <2>4
  <2> QED BY <2>2, <2>5, <2>6, <2>7 DEF InHand
<1>8. OverflowKnown(r)'
  <2> SUFFICES ASSUME NEW m \in Runs
               PROVE  /\ tail'[r][m] <= written[r][m]
                      /\ <<r, m>> \in disabled =>
                           \A i \in tail'[r][m] + 1 .. written[r][m] : <<m, i>> \in overflowed[r]
    BY <1>0 DEF OverflowKnown
  <2>1. CASE m = n
    BY <1>0, <1>6, <2>1
  <2>2. CASE m # n
    BY <1>6, <2>2 DEF RouteInv, OverflowKnown
  <2> QED BY <2>1, <2>2
<1>9. Whole(r)' /\ InOrder(r)' /\ InFile(r)' = InFile(r)
  BY <1>0, FileKept
<1>10. Behind(r)'
  <2>1. ASSUME NEW f \in InFile(r)
        PROVE  /\ f[1] <= run[r] /\ f[2] <= tail'[r][f[1]] /\ f[1] <= n
               /\ n = f[1] => f[2] <= tail'[r][f[1]] - (l + 1)
    <3>1. /\ f[1] <= run[r] /\ f[2] <= tail[r][f[1]] /\ f[1] <= n
          /\ n = f[1] => f[2] <= tail[r][f[1]] - l
      BY <1>0 DEF RouteInv, Behind, n, l, b
    <3>2. f[1] \in Runs /\ f[2] \in Nat /\ tail[r][f[1]] \in Nat
      BY InFileTypes, RouteTypes
    <3>3. CASE f[1] = n
      <4>1. tail[r][f[1]] = t
        BY <3>3 DEF t
      <4>2. tail'[r][f[1]] = t + 1
        BY <1>6, <3>3
      <4> QED BY <1>3, <3>1, <3>2, <3>3, <4>1, <4>2
    <3>4. CASE f[1] # n
      BY <1>6, <3>1, <3>2, <3>4
    <3> QED BY <3>3, <3>4
  <2>2. attached'[r] = n /\ Len(batch'[r]) = l + 1 /\ run'[r] = run[r] /\ InFile(r)' = InFile(r)
    BY <1>0, <1>3, <1>9 DEF n
  <2> QED BY <2>1, <2>2 DEF Behind
<1>11. Somewhere(r)'
  <2>1. Elements(batch'[r]) = Elements(b) \cup {e}
    BY <1>0, <1>1, <1>2, ElementsAppended
  <2> SUFFICES ASSUME NEW m \in Runs, NEW i \in 1 .. tail'[r][m]
               PROVE  <<m, i>> \in InFile(r) \cup Elements(b) \cup {e} \cup dropped[r] \cup overflowed[r]
    BY <1>0, <1>9, <2>1 DEF Somewhere, Elements
  <2>2. i \in 1 .. tail[r][m] \/ (m = n /\ i = t + 1)
    BY <1>0, <1>6 DEF t
  <2>3. i \in 1 .. tail[r][m] =>
          <<m, i>> \in InFile(r) \cup Elements(b) \cup dropped[r] \cup overflowed[r]
    BY DEF RouteInv, Somewhere, b
  <2> QED BY <2>2, <2>3 DEF e
<1> QED BY <1>7, <1>8, <1>9, <1>10, <1>11 DEF RouteInv

\* A reset passes over what was in the ring when it overflowed, and drops what is in hand.
LEMMA ResetRouteInv ==
  ASSUME TypeOK, NEW r \in Routes, RouteInv(r), ReadDisabled(r)
  PROVE  RouteInv(r)'
<1> DEFINE n == attached[r]
           w == written[r][n]
<1>0. /\ UNCHANGED <<run, written, pc, attached, out, overflowed>>
      /\ pc[r] = "read" /\ n \in Runs /\ n # None /\ n <= run[r]
      /\ tail'[r] = [tail[r] EXCEPT ![n] = w] /\ tail[r] \in [Runs -> Nat]
      /\ \A m \in Runs : <<r, m>> \in disabled' => m # n /\ <<r, m>> \in disabled
      /\ <<r, n>> \in disabled
      /\ w \in Nat /\ batch'[r] = <<>> /\ dropped'[r] = dropped[r] \cup Elements(batch[r])
      /\ Size(r) \in Nat \ {0}
  <2>1. pc[r] = "read" /\ n \in Runs /\ n <= run[r]
    BY RouteTypes DEF ReadDisabled, RouteInv, InHand
  <2> QED BY <2>1, RouteTypes, RunsAreNat, SizePositive
          DEF ReadDisabled, TypeOK, producer, file
<1>1. /\ tail'[r][n] = w /\ \A m \in Runs \ {n} : tail'[r][m] = tail[r][m]
      /\ tail[r][n] <= w /\ tail[r][n] \in Nat
      /\ \A i \in tail[r][n] + 1 .. w : <<n, i>> \in overflowed[r]
  BY <1>0 DEF RouteInv, OverflowKnown
<1> HIDE DEF w
<1>2. InHand(r)'
  BY <1>0 DEF InHand
<1>3. OverflowKnown(r)'
  <2> SUFFICES ASSUME NEW m \in Runs
               PROVE  /\ tail'[r][m] <= written[r][m]
                      /\ <<r, m>> \in disabled' =>
                           \A i \in tail'[r][m] + 1 .. written[r][m] : <<m, i>> \in overflowed[r]
    BY <1>0 DEF OverflowKnown
  <2>1. CASE m = n
    BY <1>0, <1>1, <2>1 DEF w
  <2>2. CASE m # n
    BY <1>0, <1>1, <2>2 DEF RouteInv, OverflowKnown
  <2> QED BY <2>1, <2>2
<1>4. Whole(r)' /\ InOrder(r)' /\ InFile(r)' = InFile(r)
  BY <1>0, FileKept
<1>5. Behind(r)'
  <2>1. ASSUME NEW f \in InFile(r)
        PROVE  /\ f[1] <= run[r] /\ f[2] <= tail'[r][f[1]] /\ f[1] <= n
               /\ f[2] <= tail'[r][f[1]] - 0
    <3>1. f[1] <= run[r] /\ f[2] <= tail[r][f[1]] /\ f[1] <= n
      BY <1>0 DEF RouteInv, Behind
    <3>2. f[1] \in Runs /\ f[2] \in Nat /\ tail[r][f[1]] \in Nat
      BY InFileTypes, RouteTypes
    <3>3. tail'[r][f[1]] \in Nat /\ tail[r][f[1]] <= tail'[r][f[1]]
      BY <1>0, <1>1, <3>2
    <3> QED BY <3>1, <3>2, <3>3
  <2>2. attached'[r] = n /\ Len(batch'[r]) = 0 /\ run'[r] = run[r] /\ InFile(r)' = InFile(r)
    BY <1>0, <1>4
  <2> QED BY <2>1, <2>2 DEF Behind
<1>6. Somewhere(r)'
  <2> SUFFICES ASSUME NEW m \in Runs, NEW i \in 1 .. tail'[r][m]
               PROVE  <<m, i>> \in InFile(r) \cup Elements(batch[r]) \cup dropped[r] \cup overflowed[r]
    BY <1>0, <1>4 DEF Somewhere
  <2>1. i \in 1 .. tail[r][m] \/ (m = n /\ i \in tail[r][n] + 1 .. w)
    BY <1>0, <1>1
  <2> QED BY <1>1, <2>1 DEF RouteInv, Somewhere
<1> QED BY <1>2, <1>3, <1>4, <1>5, <1>6 DEF RouteInv

\* A full batch goes into the file, behind what is there.
LEMMA WriteOutRouteInv ==
  ASSUME TypeOK, NEW r \in Routes, RouteInv(r), WriteOut(r)
  PROVE  RouteInv(r)'
<1> DEFINE n == attached[r]
           t == tail[r][n]
           b == batch[r]
           z == Size(r)
           o == out[r]
           L == Len(o)
<1>0. /\ UNCHANGED <<run, written, tail, disabled, attached, dropped, overflowed>>
      /\ pc[r] = "write" /\ pc'[r] = "read" /\ batch'[r] = <<>> /\ out'[r] = Append(o, b)
      /\ n \in Runs /\ n # None /\ n <= run[r] /\ t \in Nat /\ z \in Nat \ {0} /\ Len(b) = z
      /\ b \in Seq(Element) /\ o \in Seq(Seq(Element)) /\ L \in Nat
  <2>1. pc[r] = "write" /\ n # None /\ n <= run[r] /\ Len(b) = z
    BY DEF WriteOut, RouteInv, InHand
  <2>2. n \in Runs
    BY <2>1, RouteTypes
  <2> QED BY <2>1, <2>2, RouteTypes, SizePositive DEF WriteOut, TypeOK, producer, ring
<1>1. \A k \in 1 .. z : b[k] = <<n, t - z + k>>
  BY <1>0 DEF RouteInv, InHand
<1>2. /\ Len(out'[r]) = L + 1 /\ out'[r][L + 1] = b /\ \A k \in 1 .. L : out'[r][k] = o[k]
  BY <1>0
<1>3. InFile(r)' = InFile(r) \cup Elements(b)
  BY <1>0, FileAppended
<1>4. \A e \in Elements(b) : e[1] = n /\ e[2] \in Int /\ e[2] <= t
  <2> SUFFICES ASSUME NEW k \in DOMAIN b PROVE b[k][1] = n /\ b[k][2] \in Int /\ b[k][2] <= t
    BY DEF Elements
  <2>1. k \in 1 .. z
    BY <1>0
  <2>2. b[k] = <<n, t - z + k>>
    BY <1>1, <2>1
  <2> QED BY <1>0, <2>1, <2>2
<1>5. \A k \in 1 .. L : Len(o[k]) = z
  BY DEF RouteInv, Whole
<1> HIDE DEF n, t, b, z, o, L
<1>6. InHand(r)'
  BY <1>0 DEF InHand, n, z
<1>7. OverflowKnown(r)'
  BY <1>0 DEF RouteInv, OverflowKnown
<1>8. Whole(r)'
  <2> SUFFICES ASSUME NEW k \in 1 .. L + 1
               PROVE  /\ Len(out'[r][k]) = z
                      /\ \A i \in 1 .. z : out'[r][k][i] = <<out'[r][k][1][1], out'[r][k][1][2] + i - 1>>
    BY <1>2 DEF Whole, z
  <2>1. CASE k = L + 1
    <3>1. b[1] = <<n, t - z + 1>>
      BY <1>0, <1>1
    <3>2. ASSUME NEW i \in 1 .. z PROVE b[i] = <<b[1][1], b[1][2] + i - 1>>
      <4>1. b[i] = <<n, t - z + i>>
        BY <1>1
      <4>2. t - z + i = t - z + 1 + i - 1
        BY <1>0
      <4> QED BY <3>1, <4>1, <4>2
    <3> QED BY <1>0, <1>2, <2>1, <3>2
  <2>2. CASE k # L + 1
    <3>1. k \in 1 .. L
      BY <1>0, <2>2
    <3> QED BY <1>2, <3>1 DEF RouteInv, Whole, o, L, z
  <2> QED BY <2>1, <2>2
<1>9. Behind(r)'
  <2>1. ASSUME NEW e \in InFile(r)'
        PROVE  /\ e[1] <= run[r] /\ e[2] <= tail[r][e[1]] - 0 /\ e[2] <= tail[r][e[1]]
               /\ e[1] <= n
    <3>1. CASE e \in InFile(r)
      <4>1. e[1] \in Runs /\ e[2] \in Nat /\ tail[r][e[1]] \in Nat
        BY <3>1, InFileTypes, RouteTypes
      <4>2. e[1] <= run[r] /\ e[2] <= tail[r][e[1]] /\ e[1] <= n
        BY <1>0, <3>1 DEF RouteInv, Behind, n
      <4> QED BY <4>1, <4>2
    <3>2. CASE e \in Elements(b)
      <4>1. e[1] = n /\ e[2] \in Int /\ e[2] <= t /\ tail[r][e[1]] = t
        BY <1>4, <3>2 DEF t
      <4>2. n <= n
        BY <1>0, RunsAreNat
      <4> QED BY <1>0, <4>1, <4>2
    <3> QED BY <1>3, <2>1, <3>1, <3>2
  <2>2. attached'[r] = n /\ Len(batch'[r]) = 0 /\ run'[r] = run[r] /\ tail'[r] = tail[r]
    BY <1>0 DEF n
  <2> QED BY <2>1, <2>2 DEF Behind
<1>10. InOrder(r)'
  <2> SUFFICES ASSUME NEW k \in 1 .. L + 1, NEW i \in 1 .. k - 1
               PROVE  Before(out'[r][i][Len(out'[r][i])], out'[r][k][1])
    BY <1>2 DEF InOrder, Before
  <2>1. i \in 1 .. L /\ out'[r][i] = o[i]
    BY <1>0, <1>2
  <2>2. CASE k # L + 1
    <3>1. k \in 1 .. L /\ out'[r][k] = o[k]
      BY <1>0, <1>2, <2>2
    <3> QED BY <2>1, <3>1 DEF RouteInv, InOrder, o, L
  <2>3. CASE k = L + 1
    <3> DEFINE e == o[i][Len(o[i])]
    <3>1. e \in InFile(r)
      <4>1. DOMAIN o = 1 .. L
        BY <1>0 DEF L
      <4>2. o[i] \in Seq(Element)
        BY <1>0, <2>1, ElementOfSeq DEF L
      <4>3. Len(o[i]) = z /\ z \in DOMAIN o[i]
        BY <1>0, <1>5, <2>1, <4>2
      <4>4. e \in Elements(o[i])
        BY <4>3 DEF Elements
      <4> QED BY <2>1, <4>1, <4>4 DEF InFile, o
    <3> HIDE DEF e
    <3>2. e[1] \in Runs /\ e[2] \in Nat
      BY <3>1, InFileTypes
    <3>3. e[1] <= n /\ (n = e[1] => e[2] <= tail[r][e[1]] - Len(batch[r]))
      BY <1>0, <3>1 DEF RouteInv, Behind, n
    <3>4. b[1] = <<n, t - z + 1>>
      BY <1>0, <1>1
    <3>5. n = e[1] => e[2] <= t - z
      BY <1>0, <3>3 DEF t, b
    <3>6. n \in Nat /\ e[1] \in Nat
      BY <1>0, <3>2, RunsAreNat
    <3>7. e[1] < n \/ (e[1] = n /\ e[2] < t - z + 1)
      BY <1>0, <3>2, <3>3, <3>5, <3>6
    <3>8. Before(e, b[1])
      BY <3>4, <3>7 DEF Before
    <3> QED BY <1>2, <2>1, <2>3, <3>8 DEF e
  <2> QED BY <2>2, <2>3
<1>11. Somewhere(r)'
  BY <1>0, <1>3 DEF RouteInv, Somewhere, b
<1> QED BY <1>6, <1>7, <1>8, <1>9, <1>10, <1>11 DEF RouteInv

-----------------------------------------------------------------------------
(* The invariant.                                                          *)

\* A step of the process's end keeps the invariant of each route.
LEMMA DownRouteInv ==
  ASSUME TypeOK, NEW r \in Routes, RouteInv(r), Down
  PROVE  RouteInv(r)'
<1>1. /\ UNCHANGED <<run, written, tail, disabled, out, overflowed>>
      /\ pc'[r] \in {"open", "down"} /\ attached'[r] = None /\ batch'[r] = <<>>
      /\ dropped'[r] = dropped[r] \cup Elements(batch[r])
  BY DEF Down, Drop, producer, ring
<1> QED BY <1>1, DropRouteInv

\* A step of a thread keeps the invariant of each route.
LEMMA ThreadRouteInv ==
  ASSUME TypeOK, \A q \in Routes : RouteInv(q), NEW r \in Routes, Thread(r), NEW q \in Routes
  PROVE  RouteInv(q)'
<1>0. RouteInv(q) /\ RouteInv(r)
  OBVIOUS
<1>1. CASE Conflict(r)
  BY <1>0, <1>1, DownRouteInv DEF Conflict
<1>2. CASE ~Conflict(r) /\ q # r
  <2>1. /\ UNCHANGED <<run, written, overflowed>>
        /\ tail'[q] = tail[q] /\ pc'[q] = pc[q] /\ attached'[q] = attached[q]
        /\ batch'[q] = batch[q] /\ out'[q] = out[q] /\ dropped'[q] = dropped[q]
        /\ disabled' \subseteq disabled
    <3>1. CASE Open(r) \/ ReadEmpty(r) \/ ProducerAlive(r)
      BY <1>2, <3>1 DEF TypeOK, Open, ReadEmpty, ProducerAlive, producer, ring, history
    <3>2. CASE ReadSuccess(r)
      BY <1>2, <3>2 DEF TypeOK, ReadSuccess, producer, history
    <3>3. CASE ReadDisabled(r)
      BY <1>2, <3>3 DEF TypeOK, ReadDisabled, producer
    <3>4. CASE ProducerDead(r)
      BY <1>2, <3>4 DEF TypeOK, ProducerDead, Drop, producer, ring
    <3>5. CASE r = Latency /\ LookAtSize
      BY <1>2, <3>5 DEF TypeOK, LookAtSize, producer, ring, history
    <3>6. CASE WriteOut(r)
      BY <1>2, <3>6 DEF TypeOK, WriteOut, producer, ring
    <3> QED BY <1>2, <3>1, <3>2, <3>3, <3>4, <3>5, <3>6 DEF Thread
  <2> QED BY <1>0, <2>1, Frame
<1>3. CASE q = r
  <2>1. CASE Open(r)
    BY <1>0, <1>3, <2>1, OpenRouteInv
  <2>2. CASE ReadSuccess(r)
    BY <1>0, <1>3, <2>2, ReadRouteInv
  <2>3. CASE ReadDisabled(r)
    BY <1>0, <1>3, <2>3, ResetRouteInv
  <2>4. CASE ReadEmpty(r) \/ ProducerAlive(r) \/ (r = Latency /\ LookAtSize)
    <3>1. /\ UNCHANGED <<run, written, tail, disabled, attached, batch, out, dropped, overflowed>>
          /\ \/ pc[r] \in {"read", "check"} /\ pc'[r] \in {"read", "check"}
             \/ pc[r] = "size" /\ pc'[r] = "write"
      BY <2>4 DEF TypeOK, ReadEmpty, ProducerAlive, LookAtSize, producer, ring, history
    <3>2. /\ (pc'[r] \in {"open", "down"}) = (pc[r] \in {"open", "down"})
          /\ (pc'[r] \in {"size", "write"}) = (pc[r] \in {"size", "write"})
      BY <3>1
    <3> QED BY <1>0, <1>3, <3>1, <3>2, PassRouteInv
  <2>5. CASE ProducerDead(r)
    <3>1. /\ UNCHANGED <<run, written, tail, disabled, out, overflowed>>
          /\ pc'[r] \in {"open", "down"} /\ attached'[r] = None /\ batch'[r] = <<>>
          /\ dropped'[r] = dropped[r] \cup Elements(batch[r])
      BY <2>5 DEF TypeOK, ProducerDead, Drop, producer, ring
    <3> QED BY <1>0, <1>3, <3>1, DropRouteInv
  <2>6. CASE WriteOut(r)
    BY <1>0, <1>3, <2>6, WriteOutRouteInv
  <2> QED BY <1>1, <1>3, <2>1, <2>2, <2>3, <2>4, <2>5, <2>6 DEF Thread
<1> QED BY <1>1, <1>2, <1>3

\* Every step keeps the invariant of each route.
LEMMA NextRouteInv == IInv /\ [Next]_vars => \A q \in Routes : RouteInv(q)'
<1> SUFFICES ASSUME TypeOK, \A q \in Routes : RouteInv(q), [Next]_vars, NEW q \in Routes
             PROVE  RouteInv(q)'
  BY DEF IInv
<1>1. ASSUME NEW r \in Routes, Begin(r) \/ Write(r), q # r PROVE RouteInv(q)'
  <2>1. /\ UNCHANGED <<tail, pc, attached, batch, out, dropped>>
        /\ run'[q] = run[q] /\ written'[q] = written[q] /\ overflowed'[q] = overflowed[q]
        /\ \A n \in Runs : <<q, n>> \in disabled' => <<q, n>> \in disabled
    BY <1>1 DEF TypeOK, Begin, Write, producer, ring, thread, file, history
  <2> QED BY <2>1, Frame
<1>2. ASSUME NEW r \in Routes, Begin(r) \/ Write(r) PROVE RouteInv(q)'
  BY <1>1, <1>2, BeginRouteInv, WriteRouteInv
<1>3. ASSUME NEW r \in Routes, End(r) PROVE RouteInv(q)'
  <2>1. UNCHANGED <<run, ring, thread, history>>
    BY <1>3 DEF End
  <2> QED BY <2>1, Frame DEF ring, thread, history
<1>4. CASE Rotate \/ UNCHANGED vars
  <2>1. UNCHANGED <<run, ring, thread, history>>
    BY <1>4 DEF Rotate, producer, vars
  <2> QED BY <2>1, Frame DEF ring, thread, history
<1>5. CASE Crash
  BY <1>5, DownRouteInv DEF Crash
<1>6. CASE Restart
  <2>1. /\ UNCHANGED <<run, written, tail, disabled, attached, batch, out, dropped, overflowed>>
        /\ pc[q] = "down" /\ pc'[q] = "open"
    BY <1>6 DEF Restart, producer, ring, history
  <2> QED BY <2>1, PassRouteInv
<1> QED BY <1>2, <1>3, <1>4, <1>5, <1>6, ThreadRouteInv DEF Next

\* The header: who is about to write a row has seen one, or the file was cut since.
LEMMA NextHeader ==
  IInv /\ [Next]_vars
    => HeaderUnlessCut' /\ (pc[Latency] = "write" /\ csv = "empty" => cut)'
<1> SUFFICES ASSUME TypeOK, [Next]_vars, csv = "headless" => cut,
                    pc[Latency] = "write" /\ csv = "empty" => cut
             PROVE  /\ csv' = "headless" => cut'
                    /\ pc'[Latency] = "write" /\ csv' = "empty" => cut'
  BY DEF IInv, HeaderUnlessCut
<1>0. Latency \in Routes /\ csv \in {"empty", "headed", "headless"}
  BY DEF Routes, TypeOK
<1>1. CASE Rotate
  BY <1>1 DEF Rotate, thread
<1>2. ASSUME NEW r \in Routes, WriteOut(r) PROVE /\ csv' = "headless" => cut'
                                                 /\ pc'[Latency] = "write" /\ csv' = "empty" => cut'
  BY <1>0, <1>2 DEF TypeOK, WriteOut
<1>3. CASE LookAtSize
  BY <1>0, <1>3 DEF LookAtSize
<1>4. CASE \/ \E r \in Routes : \/ Begin(r) \/ End(r) \/ Write(r) \/ Open(r) \/ ReadDisabled(r)
                                \/ ReadEmpty(r) \/ ProducerAlive(r) \/ ProducerDead(r)
                                \/ ReadSuccess(r) \/ Conflict(r)
           \/ Crash \/ Restart \/ UNCHANGED vars
  <2>1. UNCHANGED file
    BY <1>4 DEF Begin, End, Write, Open, ReadDisabled, ReadEmpty, ProducerAlive, ProducerDead,
                ReadSuccess, Conflict, Crash, Restart, Down, vars
  <2>2. pc'[Latency] = "write" => pc[Latency] = "write"
    <3>1. ASSUME NEW r \in Routes, ReadSuccess(r) PROVE pc'[Latency] = "write" => pc[Latency] = "write"
      BY <1>0, <3>1 DEF TypeOK, ReadSuccess
    <3>2. ASSUME NEW r \in Routes,
                 \/ Begin(r) \/ End(r) \/ Write(r) \/ Open(r) \/ ReadDisabled(r)
                 \/ ReadEmpty(r) \/ ProducerAlive(r) \/ ProducerDead(r) \/ Conflict(r)
          PROVE  pc'[Latency] = "write" => pc[Latency] = "write"
      BY <1>0, <3>2 DEF TypeOK, Begin, End, Write, Open, ReadDisabled, ReadEmpty, ProducerAlive,
         ProducerDead, Conflict, Down, thread
    <3>3. CASE Crash \/ Restart \/ UNCHANGED vars
      BY <1>0, <3>3 DEF Crash, Restart, Down, vars, thread
    <3> QED BY <1>4, <3>1, <3>2, <3>3
  <2> QED BY <2>1, <2>2 DEF file
<1> QED BY <1>1, <1>2, <1>3, <1>4 DEF Next, Thread

\* The inductive invariant holds of every reachable state.
THEOREM Invariant == Spec => []IInv
<1>1. Init => IInv
  <2>1. Init => HeaderUnlessCut /\ (pc[Latency] = "write" /\ csv = "empty" => cut)
    BY DEF Init, HeaderUnlessCut, Routes
  <2> QED BY <2>1, InitTypeOK, InitRouteInv DEF IInv
<1>2. IInv /\ [Next]_vars => IInv'
  <2>1. IInv /\ [Next]_vars => (\A q \in Routes : RouteInv(q))'
    BY NextRouteInv
  <2> QED BY <2>1, NextTypeOK, NextHeader DEF IInv
<1> QED BY <1>1, <1>2, PTL DEF Spec

\* Every batch in a file is whole, over crashes, resets and deaths of producers.
THEOREM WholeBatches == Spec => []BatchesWhole
<1>1. IInv => BatchesWhole
  BY DEF IInv, RouteInv, BatchesWhole
<1> QED BY Invariant, <1>1, PTL

\* The files are in order and have nothing twice.
THEOREM NothingTwice == Spec => []InOrderOnce
<1>1. IInv => InOrderOnce
  BY DEF IInv, RouteInv, InOrderOnce
<1> QED BY Invariant, <1>1, PTL

\* Nothing that was read or passed over is unaccounted for.
THEOREM NothingUnaccounted == Spec => []Accounted
<1>1. IInv => Accounted
  BY DEF IInv, RouteInv, Accounted
<1> QED BY Invariant, <1>1, PTL

\* Without logrotate the latency file has its header: a row is only written to an empty
\* file when it was truncated after the look at its size (LatencyProcessor).
THEOREM HeaderFirst == Spec => []HeaderUnlessCut
<1>1. IInv => HeaderUnlessCut
  BY DEF IInv
<1> QED BY Invariant, <1>1, PTL

\* Lines of a log are only lost with the process.
THEOREM OnlyCrashesLose == Spec => LinesLostInCrash
<1>1. IInv /\ [Next]_vars
        => [\A r \in LogRoutes : dropped'[r] # dropped[r] => pc' = [q \in Routes |-> "down"]]_vars
  <2> SUFFICES ASSUME IInv, Next, NEW r \in LogRoutes
               PROVE  dropped'[r] = dropped[r] \/ pc' = [q \in Routes |-> "down"]
    OBVIOUS
  <2>0. TypeOK /\ r \in Routes /\ r # Latency /\ Size(r) = 1 /\ InHand(r)
    BY ObserverAssumption DEF IInv, RouteInv, Routes, Size
  <2>1. pc[r] \in {"read", "check"} => Elements(batch[r]) = {}
    <3>1. batch[r] \in Seq(Element)
      BY <2>0 DEF TypeOK
    <3>2. pc[r] \in {"read", "check"} => Len(batch[r]) # 1 /\ Len(batch[r]) <= 1
      BY <2>0 DEF InHand
    <3>3. Len(batch[r]) \in Nat
      BY <3>1
    <3>4. ASSUME pc[r] \in {"read", "check"} PROVE DOMAIN batch[r] = {}
      <4> DEFINE l == Len(batch[r])
      <4>1. l \in Nat /\ l # 1 /\ l <= 1
        BY <3>2, <3>3, <3>4
      <4>2. DOMAIN batch[r] = 1 .. l
        BY <3>1
      <4> HIDE DEF l
      <4>3. l = 0
        BY <4>1
      <4> QED BY <4>2, <4>3
    <3> QED BY <3>4 DEF Elements
  <2>2. CASE Crash \/ \E q \in Routes : Conflict(q)
    BY <2>2 DEF Crash, Conflict, Down
  <2>3. ASSUME NEW q \in Routes, ReadDisabled(q) PROVE dropped'[r] = dropped[r]
    BY <2>0, <2>1, <2>3 DEF TypeOK, ReadDisabled
  <2>4. ASSUME NEW q \in Routes, ProducerDead(q) PROVE dropped'[r] = dropped[r]
    BY <2>0, <2>1, <2>4 DEF TypeOK, ProducerDead, Drop
  <2>5. CASE \/ \E q \in Routes : \/ Begin(q) \/ End(q) \/ Write(q) \/ Open(q) \/ ReadEmpty(q)
                                  \/ ProducerAlive(q) \/ ReadSuccess(q) \/ WriteOut(q)
             \/ LookAtSize \/ Rotate \/ Restart
    BY <2>5 DEF Begin, End, Write, Open, ReadEmpty, ProducerAlive, ReadSuccess, WriteOut,
       LookAtSize, Rotate, Restart, history
  <2> QED BY <2>2, <2>3, <2>4, <2>5 DEF Next, Thread
<1> QED BY Invariant, <1>1, PTL DEF Spec, LinesLostInCrash

-----------------------------------------------------------------------------
(* A row.                                                                  *)

\* A product of a number with a share of 100 is within 100 times the number.
LEMMA ShareBound ==
  ASSUME NEW n \in Nat, NEW perc \in 0 .. 100
  PROVE  n * perc \in Nat /\ n * perc <= n * 100 /\ (n * perc) \div 100 \in 0 .. n
<1>1. n * perc \in Nat /\ n * perc <= n * 100
  BY Z3
<1> DEFINE x == n * perc
<1> HIDE DEF x
<1>2. \A y \in Nat : y <= n * 100 => y \div 100 \in 0 .. n
  OBVIOUS
<1> QED BY <1>1, <1>2

\* A percentile is a sample of the batch, and a higher one is not less: the columns of a
\* row never decrease from p50 to p99.
THEOREM PercentilesInOrder ==
  ASSUME NEW s \in Seq(Nat), s # <<>>, \A i, j \in 1 .. Len(s) : i <= j => s[i] <= s[j],
         NEW p \in 0 .. 100, NEW q \in 0 .. 100, p <= q
  PROVE  /\ \E i \in 1 .. Len(s) : Percentile(s, p) = s[i]
         /\ Percentile(s, p) <= Percentile(s, q)
<1> DEFINE n == Len(s) - 1
           i == (n * p) \div 100
           j == (n * q) \div 100
<1>1. n \in Nat /\ Len(s) = n + 1
  OBVIOUS
<1>2. n * p \in Nat /\ n * q \in Nat /\ i \in 0 .. n /\ j \in 0 .. n
  BY <1>1, ShareBound
<1>3. n * p <= n * q
  <2>1. q - p \in Nat /\ q = p + (q - p)
    OBVIOUS
  <2> HIDE DEF n
  <2> QED BY <1>1, <2>1, Z3
<1>4. i <= j
  <2>1. \A x, y \in Nat : x <= y => x \div 100 <= y \div 100
    OBVIOUS
  <2> QED BY <1>2, <1>3, <2>1
<1>5. Percentile(s, p) = s[i + 1] /\ Percentile(s, q) = s[j + 1]
  BY DEF Percentile
<1> HIDE DEF n, i, j
<1>6. i + 1 \in 1 .. Len(s) /\ j + 1 \in 1 .. Len(s) /\ i + 1 <= j + 1
  BY <1>1, <1>2, <1>4
<1> QED BY <1>5, <1>6

\* Of a batch of whole hundreds a percentile is the nearest rank: perc of each hundred
\* samples are not above it.
THEOREM NearestRank ==
  ASSUME NEW s \in Seq(Nat), NEW c \in Nat \ {0}, Len(s) = 100 * c, NEW p \in 1 .. 100
  PROVE  Percentile(s, p) = s[c * p]
<1>1. s # <<>>
  OBVIOUS
<1>2. (100 * c - 1) * p = 100 * (c * p) - p /\ c * p \in Nat
  BY Z3
<1>3. \A x \in Nat : (100 * x - p) \div 100 = x - 1
  OBVIOUS
<1>4. ((Len(s) - 1) * p) \div 100 + 1 = c * p
  BY <1>2, <1>3
<1> QED BY <1>1, <1>4 DEF Percentile

=============================================================================
