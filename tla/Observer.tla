------------------------------ MODULE Observer ------------------------------
(***************************************************************************)
(* The observer: one process with a thread for each route, from a ring in  *)
(* shared memory to a file.  The producers come and go, each of their runs *)
(* with a segment of its own; the observer crashes and is started again;   *)
(* what a thread has read is only in its memory until it is in the file.   *)
(*                                                                         *)
(* A log route writes every line as it is read, which makes its batch one  *)
(* line long; the latency route collects a batch of samples and writes a   *)
(* row of percentiles, after a header if logrotate has left the file       *)
(* empty.  A Read, a ResetConsumer and a Write are one step each: module   *)
(* SpscRingBuffer takes them apart, and SharedMemory the opening of a      *)
(* segment.  Time is left out: that a heartbeat is old is found or not.    *)
(***************************************************************************)
EXTENDS Integers, Sequences, FiniteSets

CONSTANTS
  LogRoutes,     \* the routes of the log rings
  Latency,       \* the route of the latency ring
  LeftSegments,  \* of each route: the segment left from before, "none", "ours" or "other"
  BatchSize,     \* kLatencyBatchSize
  Capacity,      \* of each route: elements its ring holds
  MaxRuns,       \* bound: runs of a producer
  MaxWrites,     \* bound: of each route, elements a run writes
  MaxCrashes     \* bound: crashes of the observer

Routes == LogRoutes \cup {Latency}

ASSUME ObserverAssumption ==
  /\ Latency \notin LogRoutes
  /\ BatchSize \in Nat \ {0} /\ LeftSegments \subseteq [Routes -> {"none", "ours", "other"}]
  /\ Capacity \in [Routes -> Nat \ {0}] /\ MaxWrites \in [Routes -> Nat]
  /\ MaxRuns \in Nat /\ MaxCrashes \in Nat
Runs   == 0 .. MaxRuns
None   == -1

\* Faulty: lines are collected like samples.
SizeOfAll(route) == BatchSize

\* As many elements as a thread reads before it writes.
Size(route) == IF route = Latency THEN BatchSize ELSE 1

VARIABLES
  left,       \* the segments left from before
  run,        \* of each route: the producer's run; 0 is what was left
  up,         \* the routes whose producer is running
  written,    \* of each route and run: elements written
  tail,       \* ... and read or skipped
  disabled,   \* the rings, <<route, run>>, whose consumer is disabled
  pc,         \* of each thread: "open", "read", "check", "size", "write" or "down"
  attached,   \* of each thread: the run whose segment it has mapped, or None
  batch,      \* of each thread: the elements, <<run, number>>, it has in hand
  csv,        \* the latency file: "empty", "headed", or "headless"
  crashes,    \* bound
  out,        \* history: of each route, the batches written to its file
  dropped,    \* history: of each route, elements read that no file will have
  overflowed, \* history: of each route, elements that were in a ring written while full
  cut         \* history: csv was truncated between the look at its size and a row

producer == <<left, run, up>>
ring     == <<written, tail, disabled>>
thread   == <<pc, attached, batch>>
history  == <<out, dropped, overflowed>>
file     == <<csv, cut>>
vars     == <<producer, ring, thread, file, crashes, history>>

Init ==
  /\ left \in LeftSegments
  /\ run = [r \in Routes |-> 0] /\ up = {}
  /\ written = [r \in Routes |-> [n \in Runs |-> IF n = 0 /\ left[r] = "ours" THEN 1 ELSE 0]]
  /\ tail = [r \in Routes |-> [n \in Runs |-> 0]] /\ disabled = {}
  /\ pc = [r \in Routes |-> "open"] /\ attached = [r \in Routes |-> None]
  /\ batch = [r \in Routes |-> <<>>]
  /\ csv = "empty" /\ cut = FALSE /\ crashes = 0
  /\ out = [r \in Routes |-> <<>>]
  /\ dropped = [r \in Routes |-> {}] /\ overflowed = [r \in Routes |-> {}]

-----------------------------------------------------------------------------
(* The producers and logrotate.                                            *)

\* A run of the producer begins with a segment of its own under the name.
Begin(r) ==
  /\ r \notin up /\ run[r] < MaxRuns
  /\ run' = [run EXCEPT ![r] = @ + 1] /\ up' = up \cup {r}
  /\ UNCHANGED <<left, ring, thread, file, crashes, history>>

End(r) ==
  /\ r \in up /\ up' = up \ {r}
  /\ UNCHANGED <<left, run, ring, thread, file, crashes, history>>

\* Write: it disables a consumer that is Capacity elements behind.
Write(r) ==
  LET n == run[r]
  IN  /\ r \in up /\ written[r][n] < MaxWrites[r]
      /\ written' = [written EXCEPT ![r][n] = @ + 1]
      /\ disabled' = IF written[r][n] - tail[r][n] = Capacity[r]
                     THEN disabled \cup {<<r, n>>} ELSE disabled
      /\ overflowed' = IF <<r, n>> \in disabled'
                       THEN [overflowed EXCEPT ![r] =
                               @ \cup {<<n, i>> : i \in tail[r][n] + 1 .. written'[r][n]}]
                       ELSE overflowed
      /\ UNCHANGED <<producer, tail, thread, file, crashes, out, dropped>>

\* logrotate's copytruncate of the latency file, with notifempty.
Rotate ==
  /\ csv # "empty" /\ csv' = "empty"
  /\ cut' = (pc[Latency] = "write")
  /\ UNCHANGED <<producer, ring, thread, crashes, history>>

-----------------------------------------------------------------------------
(* A thread.                                                               *)

Elements(b) == {b[k] : k \in DOMAIN b}

\* What a thread has in hand is gone with it, or with the process.
Drop(rs) ==
  /\ dropped' = [r \in Routes |->
                   IF r \in rs THEN dropped[r] \cup Elements(batch[r]) ELSE dropped[r]]
  /\ batch' = [r \in Routes |-> IF r \in rs THEN <<>> ELSE batch[r]]
  /\ attached' = [r \in Routes |-> IF r \in rs THEN None ELSE attached[r]]

\* The process ends, with all its threads.
Down ==
  /\ pc' = [r \in Routes |-> "down"] /\ Drop(Routes)
  /\ UNCHANGED <<producer, ring, file, out, overflowed>>

Named(r) == run[r] > 0 \/ left[r] # "none"

\* Faulty: as the trader does, the thread resets the ring it opens.
OpenReset(r) ==
  /\ pc[r] = "open" /\ Named(r) /\ (run[r] > 0 \/ left[r] = "ours")
  /\ attached' = [attached EXCEPT ![r] = run[r]] /\ pc' = [pc EXCEPT ![r] = "read"]
  /\ tail' = [tail EXCEPT ![r][run[r]] = written[r][run[r]]]
  /\ UNCHANGED <<producer, written, disabled, batch, file, crashes, history>>

\* A segment of our version is mapped and read on from where it was left.
Open(r) ==
  /\ pc[r] = "open" /\ Named(r) /\ (run[r] > 0 \/ left[r] = "ours")
  /\ attached' = [attached EXCEPT ![r] = run[r]] /\ pc' = [pc EXCEPT ![r] = "read"]
  /\ UNCHANGED <<producer, ring, batch, file, crashes, history>>

\* ShmVersionConflict: the attempt returns 1, and exit ends the process.
Conflict(r) ==
  /\ pc[r] = "open" /\ run[r] = 0 /\ left[r] = "other" /\ Down
  /\ UNCHANGED crashes

\* Read returns kSuccess: the element is taken from the ring at once.
ReadSuccess(r) ==
  LET n == attached[r]
  IN  /\ pc[r] = "read" /\ <<r, n>> \notin disabled /\ tail[r][n] < written[r][n]
      /\ tail' = [tail EXCEPT ![r][n] = @ + 1]
      /\ batch' = [batch EXCEPT ![r] = Append(@, <<n, tail'[r][n]>>)]
      /\ pc' = [pc EXCEPT ![r] =
                  IF Len(batch'[r]) < Size(r) THEN "read"
                  ELSE IF r = Latency THEN "size" ELSE "write"]
      /\ UNCHANGED <<producer, written, disabled, attached, file, crashes, history>>

\* Faulty: the partial batch is kept.
ReadDisabledKept(r) ==
  LET n == attached[r]
  IN  /\ pc[r] = "read" /\ <<r, n>> \in disabled /\ disabled' = disabled \ {<<r, n>>}
      /\ tail' = [tail EXCEPT ![r][n] = written[r][n]]
      /\ UNCHANGED <<producer, written, thread, file, crashes, history>>

\* Read returns kConsumerIsDisabled: the batch is cleared and the ring reset.
ReadDisabled(r) ==
  LET n == attached[r]
  IN  /\ pc[r] = "read" /\ <<r, n>> \in disabled /\ disabled' = disabled \ {<<r, n>>}
      /\ batch' = [batch EXCEPT ![r] = <<>>]
      /\ dropped' = [dropped EXCEPT ![r] = @ \cup Elements(batch[r])]
      /\ tail' = [tail EXCEPT ![r][n] = written[r][n]]
      /\ UNCHANGED <<producer, written, pc, attached, file, crashes, out, overflowed>>

\* Read returns kBufferIsEmpty; then the heartbeat is looked at ...
ReadEmpty(r) ==
  LET n == attached[r]
  IN  /\ pc[r] = "read" /\ <<r, n>> \notin disabled /\ tail[r][n] = written[r][n]
      /\ pc' = [pc EXCEPT ![r] = "check"]
      /\ UNCHANGED <<producer, ring, attached, batch, file, crashes, history>>

\* ... which may be young though the producer is gone,
ProducerAlive(r) ==
  /\ pc[r] = "check" /\ pc' = [pc EXCEPT ![r] = "read"]
  /\ UNCHANGED <<producer, ring, attached, batch, file, crashes, history>>

\* Faulty: the thread ends with its producer.
ProducerDeadForGood(r) ==
  /\ pc[r] = "check" /\ pc' = [pc EXCEPT ![r] = "down"] /\ Drop({r})
  /\ UNCHANGED <<producer, ring, file, crashes, out, overflowed>>

\* Faulty: the next attempt goes on with the partial batch of this one.
ProducerDeadKept(r) ==
  /\ pc[r] = "check" /\ pc' = [pc EXCEPT ![r] = "open"]
  /\ attached' = [attached EXCEPT ![r] = None]
  /\ UNCHANGED <<producer, ring, batch, file, crashes, history>>

\* ... or old though it is there.  The attempt returns and the next one opens.
ProducerDead(r) ==
  /\ pc[r] = "check" /\ pc' = [pc EXCEPT ![r] = "open"] /\ Drop({r})
  /\ UNCHANGED <<producer, ring, file, crashes, out, overflowed>>

\* Faulty: the header is only written by the first attempt.
LookAtSizeOnce ==
  /\ pc[Latency] = "size" /\ pc' = [pc EXCEPT ![Latency] = "write"]
  /\ csv' = IF csv = "empty" /\ out[Latency] = <<>> THEN "headed" ELSE csv
  /\ UNCHANGED <<producer, ring, attached, batch, cut, crashes, history>>

\* file_size, and the header for an empty file.
LookAtSize ==
  /\ pc[Latency] = "size" /\ pc' = [pc EXCEPT ![Latency] = "write"]
  /\ csv' = IF csv = "empty" THEN "headed" ELSE csv
  /\ UNCHANGED <<producer, ring, attached, batch, cut, crashes, history>>

\* Faulty: the batch is not cleared, and written once more.
WriteOutKept(r) ==
  /\ pc[r] = "write" /\ pc' = [pc EXCEPT ![r] = IF r = Latency THEN "size" ELSE "read"]
  /\ out' = [out EXCEPT ![r] = Append(@, batch[r])]
  /\ batch' = [batch EXCEPT ![r] = IF r = Latency THEN @ ELSE <<>>]
  /\ csv' = IF r = Latency /\ csv = "empty" THEN "headless" ELSE csv
  /\ UNCHANGED <<producer, ring, attached, cut, crashes, dropped, overflowed>>

\* WriteLog, or the row with the percentiles of the batch, appended to the file.
WriteOut(r) ==
  /\ pc[r] = "write" /\ pc' = [pc EXCEPT ![r] = "read"]
  /\ out' = [out EXCEPT ![r] = Append(@, batch[r])] /\ batch' = [batch EXCEPT ![r] = <<>>]
  /\ csv' = IF r = Latency /\ csv = "empty" THEN "headless" ELSE csv
  /\ UNCHANGED <<producer, ring, attached, cut, crashes, dropped, overflowed>>

Thread(r) ==
  \/ Open(r) \/ Conflict(r)
  \/ ReadSuccess(r) \/ ReadDisabled(r) \/ ReadEmpty(r)
  \/ ProducerAlive(r) \/ ProducerDead(r)
  \/ r = Latency /\ LookAtSize
  \/ WriteOut(r)

Crash ==
  /\ crashes < MaxCrashes /\ crashes' = crashes + 1
  /\ \E r \in Routes : pc[r] # "down"
  /\ Down

\* systemd starts the process again.
Restart ==
  /\ \A r \in Routes : pc[r] = "down"
  /\ pc' = [r \in Routes |-> "open"]
  /\ UNCHANGED <<producer, ring, attached, batch, file, crashes, history>>

Next ==
  \/ \E r \in Routes : Begin(r) \/ End(r) \/ Write(r) \/ Thread(r)
  \/ Rotate \/ Crash \/ Restart

\* A producer that is not there any more, so that its heartbeat grows old.
Gone(r) == attached[r] # run[r] \/ r \notin up

\* The threads run, systemd starts who is down, and heartbeats grow old.
Fairness ==
  /\ \A r \in Routes :
       WF_vars(Thread(r)) /\ WF_vars(Begin(r)) /\ SF_vars(Gone(r) /\ ProducerDead(r))
  /\ WF_vars(Restart)

Spec == Init /\ [][Next]_vars /\ Fairness

-----------------------------------------------------------------------------
(* A row.                                                                  *)

\* PercentileFromSorted: of a batch that has been sorted.
Percentile(sorted, perc) ==
  IF sorted = <<>> THEN 0 ELSE sorted[((Len(sorted) - 1) * perc) \div 100 + 1]

-----------------------------------------------------------------------------
(* Properties.                                                             *)

Element == Runs \X (Nat \ {0})

TypeOK ==
  /\ left \in [Routes -> {"none", "ours", "other"}]
  /\ run \in [Routes -> Runs] /\ up \subseteq Routes
  /\ written \in [Routes -> [Runs -> Nat]] /\ tail \in [Routes -> [Runs -> Nat]]
  /\ disabled \subseteq Routes \X Runs
  /\ pc \in [Routes -> {"open", "read", "check", "size", "write", "down"}]
  /\ attached \in [Routes -> Runs \cup {None}]
  /\ batch \in [Routes -> Seq(Element)] /\ out \in [Routes -> Seq(Seq(Element))]
  /\ dropped \in [Routes -> SUBSET Element] /\ overflowed \in [Routes -> SUBSET Element]
  /\ csv \in {"empty", "headed", "headless"} /\ cut \in BOOLEAN
  /\ crashes \in Nat

\* What a thread has in hand: consecutive elements, the last of them the last one read, a
\* full batch exactly when it is about to be written.
InHand(r) ==
  /\ (attached[r] = None) = (pc[r] \in {"open", "down"})
  /\ attached[r] = None => batch[r] = <<>>
  /\ attached[r] <= run[r]
  /\ (pc[r] \in {"size", "write"}) = (Len(batch[r]) = Size(r))
  /\ Len(batch[r]) <= Size(r)
  /\ \A k \in 1 .. Len(batch[r]) :
       batch[r][k] = <<attached[r], tail[r][attached[r]] - Len(batch[r]) + k>>

\* What a disabled ring has that was not read was there when it overflowed.
OverflowKnown(r) ==
  \A n \in Runs :
    /\ tail[r][n] <= written[r][n]
    /\ <<r, n>> \in disabled =>
         \A i \in tail[r][n] + 1 .. written[r][n] : <<n, i>> \in overflowed[r]

\* A batch in the file is as many elements of one run as belong in it, one after the other.
Whole(r) ==
  \A k \in 1 .. Len(out[r]) :
    /\ Len(out[r][k]) = Size(r)
    /\ \A i \in 1 .. Size(r) : out[r][k][i] = <<out[r][k][1][1], out[r][k][1][2] + i - 1>>

InFile(r) == UNION {Elements(out[r][k]) : k \in DOMAIN out[r]}

\* What is in the file is of no later run than what is in hand, and of elements before it.
Behind(r) ==
  \A e \in InFile(r) :
    /\ e[1] <= run[r] /\ e[2] <= tail[r][e[1]]
    /\ attached[r] # None => e[1] <= attached[r]
    /\ attached[r] = e[1] => e[2] <= tail[r][e[1]] - Len(batch[r])

Before(e, f) == e[1] < f[1] \/ (e[1] = f[1] /\ e[2] < f[2])

\* The last element of a batch in the file is before the first one of a later batch.
InOrder(r) ==
  \A k \in 1 .. Len(out[r]) : \A i \in 1 .. k - 1 :
    Before(out[r][i][Len(out[r][i])], out[r][k][1])

\* Elements that were read, or passed over by a reset, are somewhere.
Somewhere(r) ==
  \A n \in Runs : \A i \in 1 .. tail[r][n] :
    <<n, i>> \in InFile(r) \cup Elements(batch[r]) \cup dropped[r] \cup overflowed[r]

\* No row mixes two runs of the producer, or samples before and after a reset, or before
\* and after a crash, and none is shorter or longer than a batch.
BatchesWhole == \A r \in Routes : Whole(r)

\* The files have what they have in the order in which it was written, and once, over
\* the runs of the producer and of the observer.
InOrderOnce == \A r \in Routes : InOrder(r)

\* Whatever has been read from a ring, or passed over in it, is in the file, in hand,
\* lost with what a thread had in hand, or was in the ring when it overflowed.
Accounted == \A r \in Routes : Somewhere(r)

\* The latency file begins with its header, unless logrotate has truncated it between the
\* look at its size and the row that is written then.
HeaderUnlessCut == csv = "headless" => cut

\* The inductive invariant: of each route by itself, and that a row is written to an empty
\* file only after a truncation.
RouteInv(r) ==
  InHand(r) /\ OverflowKnown(r) /\ Whole(r) /\ Behind(r) /\ InOrder(r) /\ Somewhere(r)

IInv ==
  /\ TypeOK
  /\ \A r \in Routes : RouteInv(r)
  /\ HeaderUnlessCut
  /\ pc[Latency] = "write" /\ csv = "empty" => cut

\* A line of a log that was read is only lost with the process: neither the end of its
\* producer nor a reset costs one, as they cost samples of a batch.
LinesLostInCrash ==
  [][\A r \in LogRoutes : dropped'[r] # dropped[r] => pc' = [q \in Routes |-> "down"]]_vars

\* Of a log nothing stays behind: again and again there is no line but those that are in
\* the file, lost as above, or left in the segment of a run that was replaced before the
\* observer had opened it again.
Drained ==
  \A r \in LogRoutes :
    []<>(\A n \in Runs : \A i \in 1 .. written[r][n] :
           \/ <<n, i>> \in InFile(r) \cup dropped[r] \cup overflowed[r]
           \/ run[r] > n /\ attached[r] # n)
=============================================================================
