------------------------ MODULE ExclusiveAccessProofs ------------------------
(***************************************************************************)
(* Guests of one Simulator that share memory: one guest, and any number of *)
(* guests that its callbacks run, at any depth and with any read-modify-   *)
(* write sequence, between its instructions and after each of its writes.  *)
(* A write replaces what its sequence has read and no update is lost, as   *)
(* long as no callback lays a sequence open.                               *)
(***************************************************************************)
EXTENDS ExclusiveAccess, TLAPS, FiniteSetTheorems, SequenceTheorems

\* One Simulator: every guest runs on it.
OneSimulator == \A g, h \in Guests : SimOf[g] = SimOf[h]

LlscPlaces == {"ldxp", "ldxp high", "other", "stxp", "stxp high"}
CaspPlaces == {"ldp low", "ldp high", "casp", "casp high", "casp write", "casp write high"}
CasPlaces == {"ldar low", "cas low", "cas write", "ldar high", "cas high", "cas write high"}

\* The sequences that need not clear the local monitor.
Unmonitored == {"ldadd low", "add low", "ldadd high", "add high", "swpa", "swpa write",
                "ldr low", "str low", "ldr high", "str high", "stlr"}
Places == {"next"} \cup LlscPlaces \cup CaspPlaces \cup CasPlaces \cup Unmonitored

\* Between the two exclusive accesses, and where a callback may come between.
Window == {"ldxp high", "other", "stxp"}
Open == {"other", "stxp"}

\* Where a register holds what the word it was read from holds.
LowRead == {"ldxp high", "casp write", "cas write", "add low", "str low"}
HighRead == {"casp write", "cas write high", "add high", "str high"}

\* Where a sequence has written the low word, and where also the high one.
LowWritten == {"stxp high", "casp write high", "ldar high", "cas high", "cas write high",
               "ldadd high", "add high", "ldr high", "str high", "stlr"}
HighWritten == {"stlr"}

\* Where the sequence has cleared the local monitor.
ReleasedPlaces == {"stxp high", "casp high", "casp write", "casp write high",
                   "cas write", "cas write high"}

Record == [at : Places, low : Nat, high : Nat, rs : {0, 1}]

MemTyped == mem \in Seq(Nat) /\ Len(mem) = 2
LockTyped == lock \in {0, 1}
MonitorTyped == monitor \in [Sims -> {Cleared, Pair}]
GuestTyped == guest \in [Guests -> Record]
DoneTyped == done \in [Guests -> 0 .. Iterations]
HistoryTyped == exposed \subseteq Guests /\ torn \subseteq Guests
Typed == MemTyped /\ LockTyped /\ MonitorTyped /\ GuestTyped /\ DoneTyped /\ HistoryTyped

\* A guest h below a running guest g waits for its callback, and is exposed
\* wherever what g does may be lost on it.
Waits(h, g) ==
    /\ guest[h].at \in Callback
    /\ guest[h].at \in HalfWritten => h \in exposed
    /\ guest[h].at \in Open /\ guest[g].at \in Unmonitored => h \in exposed

RunsAlone == \A g \in Guests : ~At(g, "next") => \A h \in Below(g) : Waits(h, g)

\* The monitor is marked, and not by a guest above: of nested exclusive
\* sequences only the topmost one can store.
Marked(g) == monitor[SimOf[g]] = Pair /\ \A h \in Above(g) : guest[h].at \notin Window

\* What the registers of a guest and the monitor say of the memory.
Coherent(g) ==
    /\ guest[g].at \in LowRead => guest[g].low = mem[1]
    /\ guest[g].at \in HighRead => guest[g].high = mem[2]
    /\ guest[g].at \in HalfWritten /\ g \notin exposed => guest[g].high = mem[2]
    /\ guest[g].at = "casp high" /\ guest[g].rs = 0 => guest[g].low = mem[1]
    /\ guest[g].at \in Open /\ Marked(g) /\ g \notin exposed =>
          guest[g].low = mem[1] /\ guest[g].high = mem[2]

Released(g) == guest[g].at \in ReleasedPlaces => ~Marked(g)
Begun(g) == ~At(g, "next") => done[g] < Iterations

Own(g) == Coherent(g) /\ Released(g) /\ Begun(g)

\* The words hold the increments written to them, completed or not.
Made(g, written) == done[g] + IF guest[g].at \in written THEN 1 ELSE 0
lows == [g \in Guests |-> Made(g, LowWritten)]
highs == [g \in Guests |-> Made(g, HighWritten)]
Counted == torn = {} => mem[1] = Tally(lows) /\ mem[2] = Tally(highs)

AllOwn == \A g \in Guests : Own(g)

AccessInv == Typed /\ RunsAlone /\ AllOwn /\ Counted

-----------------------------------------------------------------------------
(***************************************************************************)
(* The pair of words and the tally.                                        *)
(***************************************************************************)
LEMMA WriteWord ==
    ASSUME NEW m \in Seq(Nat), Len(m) = 2, NEW x \in Nat
    PROVE  /\ [m EXCEPT ![1] = x] \in Seq(Nat) /\ Len([m EXCEPT ![1] = x]) = 2
           /\ [m EXCEPT ![1] = x][1] = x /\ [m EXCEPT ![1] = x][2] = m[2]
           /\ [m EXCEPT ![2] = x] \in Seq(Nat) /\ Len([m EXCEPT ![2] = x]) = 2
           /\ [m EXCEPT ![2] = x][1] = m[1] /\ [m EXCEPT ![2] = x][2] = x
           /\ m[1] \in Nat /\ m[2] \in Nat
  <1>1. /\ m \in [1 .. 2 -> Nat] /\ 1 \in 1 .. 2 /\ 2 \in 1 .. 2
        /\ 1 \in 1 .. Len(m) /\ 2 \in 1 .. Len(m)
    OBVIOUS
  <1>2. m[1] \in Nat /\ m[2] \in Nat
    BY <1>1
  <1>3. \A f \in [1 .. 2 -> Nat] : f \in Seq(Nat) /\ Len(f) = 2
    <2> SUFFICES ASSUME NEW f \in [1 .. 2 -> Nat] PROVE f \in Seq(Nat) /\ Len(f) = 2
      OBVIOUS
    <2>1. DOMAIN f = 1 .. 2 /\ 2 \in Nat
      OBVIOUS
    <2>2. f \in Seq(Nat)
      BY <2>1, SeqDef
    <2>3. Len(f) = 2
      BY <2>1, <2>2, LenProperties
    <2>4. QED
      BY <2>2, <2>3
  <1>4. [m EXCEPT ![1] = x] \in [1 .. 2 -> Nat] /\ [m EXCEPT ![2] = x] \in [1 .. 2 -> Nat]
    BY <1>1
  <1>5. /\ [m EXCEPT ![1] = x][1] = x /\ [m EXCEPT ![1] = x][2] = m[2]
        /\ [m EXCEPT ![2] = x][1] = m[1] /\ [m EXCEPT ![2] = x][2] = x
    BY <1>1
  <1>6. QED
    BY <1>2, <1>3, <1>4, <1>5

LEMMA TallyAdds ==
    ASSUME NEW f \in [Guests -> 0 .. Iterations], NEW g \in Guests
    PROVE  /\ Tally(f) \in Nat
           /\ f[g] < Iterations => Tally([f EXCEPT ![g] = f[g] + 1]) = Tally(f) + 1
  <1> DEFINE All == Guests \X (1 .. Iterations)
             S == {i \in All : i[2] <= f[i[1]]}
             x == <<g, f[g] + 1>>
             T == {i \in All : i[2] <= [f EXCEPT ![g] = f[g] + 1][i[1]]}
  <1>1. IsFiniteSet(All) /\ Iterations \in Nat
    <2>1. 1 \in Int /\ Iterations \in Int /\ Iterations \in Nat
      BY ExclusiveAssumption
    <2>2. IsFiniteSet(1 .. Iterations) /\ IsFiniteSet(Guests)
      BY <2>1, FS_Interval, ExclusiveAssumption
    <2>3. QED
      BY <2>1, <2>2, FS_Product
  <1>2. S \in SUBSET All
    OBVIOUS
  <1>3. IsFiniteSet(S)
    <2> HIDE DEF S, All
    <2>1. QED
      BY <1>1, <1>2, FS_Subset
  <1>4. Cardinality(S) \in Nat
    BY <1>3, FS_CardinalityType
  <1>5. Tally(f) = Cardinality(S)
    BY DEF Tally
  <1>6. ASSUME f[g] < Iterations
        PROVE  Tally([f EXCEPT ![g] = f[g] + 1]) = Tally(f) + 1
    <2>1. x \in All /\ x \notin S
      BY <1>1, <1>6
    <2>2. T = S \cup {x}
      <3>1. ASSUME NEW i \in All
            PROVE  i \in T <=> i \in S \cup {x}
        <4>1. PICK a \in Guests, k \in 1 .. Iterations : i = <<a, k>>
          OBVIOUS
        <4>2. CASE a = g
          BY <1>1, <4>1, <4>2
        <4>3. CASE a # g
          BY <1>1, <4>1, <4>3
        <4>4. QED
          BY <4>2, <4>3
      <3>2. T \subseteq All /\ S \cup {x} \subseteq All
        BY <2>1
      <3> HIDE DEF T, S, x, All
      <3>3. QED
        BY <3>1, <3>2
    <2>3. Tally([f EXCEPT ![g] = f[g] + 1]) = Cardinality(T)
      BY DEF Tally
    <2> HIDE DEF T, S, x, All
    <2>4. QED
      BY <1>3, <1>5, <2>1, <2>2, <2>3, FS_AddElement
  <1>7. QED
    BY <1>4, <1>5, <1>6

-----------------------------------------------------------------------------
(***************************************************************************)
(* What one step of a guest does.                                          *)
(***************************************************************************)
Others(g) == \A h \in Guests \ {g} : guest'[h] = guest[h] /\ done'[h] = done[h]

\* A sequence starts while the guests below wait for it.
Starts(g) == At(g, "next") => mem' = mem /\ \A h \in Below(g) : Waits(h, g)'

\* A sequence stays one that need not clear the monitor, or one that must.
SameKind(a, b) == a # "next" /\ b \in Unmonitored => a \in Unmonitored

\* A write is one of a sequence that need not clear the monitor, or comes
\* after the monitor has been cleared.
Disturbs(g) ==
    mem' = mem \/ guest[g].at \in Unmonitored \/ monitor'[SimOf[g]] = Cleared

\* From place a to b, outside the exclusive accesses at last, no mark is set
\* and none is left behind.
LeavesMark(a, b, old, new) == b \notin Window /\ new = Pair => old = Pair /\ a \notin Window

\* A word changes exactly when the guest's count of it does.
GrowsBy(before, after, old, new) ==
    \/ after = before /\ new = old
    \/ after = before + 1 /\ new = old + 1

Grows(g) ==
    torn' = {} =>
        /\ GrowsBy(Made(g, LowWritten), Made(g, LowWritten)', mem[1], mem'[1])
        /\ GrowsBy(Made(g, HighWritten), Made(g, HighWritten)', mem[2], mem'[2])

History(g) == exposed \ {g} \subseteq exposed' /\ torn \subseteq torn'

Moves(g) ==
    /\ Typed' /\ Others(g) /\ Own(g)' /\ Starts(g) /\ Grows(g) /\ History(g) /\ Disturbs(g)
    /\ SameKind(guest[g].at, guest'[g].at)
    /\ LeavesMark(guest[g].at, guest'[g].at, monitor[SimOf[g]], monitor'[SimOf[g]])

\* The registers r of a guest that runs agree with the words m, the monitor
\* mark and the exposed guests ex.
Fits(g, r, m, mark, ex) ==
    /\ r.at \in LowRead => r.low = m[1]
    /\ r.at \in HighRead => r.high = m[2]
    /\ r.at \in HalfWritten /\ g \notin ex => r.high = m[2]
    /\ r.at = "casp high" /\ r.rs = 0 => r.low = m[1]
    /\ r.at \in Open /\ mark = Pair /\ g \notin ex => r.low = m[1] /\ r.high = m[2]
    /\ r.at \in ReleasedPlaces => mark # Pair

FitsNow(g) == Fits(g, guest[g], mem, monitor[SimOf[g]], exposed)
FitsThen(g) == Fits(g, guest'[g], mem', monitor'[SimOf[g]], exposed')

LEMMA OwnFits ==
    ASSUME NEW g \in Guests, MayRun(g), Own(g)
    PROVE  FitsNow(g)
  <1>1. \A h \in Above(g) : guest[h].at \notin Window
    BY DEF MayRun, At, Window
  <1>2. Marked(g) <=> monitor[SimOf[g]] = Pair
    BY <1>1 DEF Marked
  <1>3. QED
    BY <1>2 DEF Own, Coherent, Released, FitsNow, Fits

LEMMA FitsOwn ==
    ASSUME NEW g \in Guests, FitsThen(g), Begun(g)'
    PROVE  Own(g)'
  <1>1. Marked(g)' => monitor'[SimOf[g]] = Pair
    BY DEF Marked
  <1>2. Coherent(g)' /\ Released(g)'
    BY <1>1 DEF Coherent, Released, FitsThen, Fits
  <1>3. QED
    BY <1>2 DEF Own

\* From place a to place b a sequence writes a word, or leaves it.
Writes(a, b, written, old, new) ==
    \/ (a \in written <=> b \in written) /\ new = old
    \/ a \notin written /\ b \in written /\ new = old + 1

WritesBoth(a, b) ==
    torn' = {} =>
        /\ Writes(a, b, LowWritten, mem[1], mem'[1])
        /\ Writes(a, b, HighWritten, mem[2], mem'[2])

Runs(g) == Typed /\ MayRun(g) /\ Own(g)

LEMMA StepMoves ==
    ASSUME NEW g \in Guests, Runs(g), NEW r \in Record,
           guest[g].at # "next", guest' = [guest EXCEPT ![g] = r], done' = done, r.at # "next",
           MemTyped', LockTyped', MonitorTyped', HistoryTyped', History(g), Disturbs(g),
           Fits(g, r, mem', monitor'[SimOf[g]], exposed'),
           SameKind(guest[g].at, r.at),
           LeavesMark(guest[g].at, r.at, monitor[SimOf[g]], monitor'[SimOf[g]]),
           WritesBoth(guest[g].at, r.at)
    PROVE  Moves(g)
  <1>1. /\ guest' \in [Guests -> Record] /\ guest'[g] = r
        /\ \A h \in Guests \ {g} : guest'[h] = guest[h]
    BY DEF Runs, Typed, GuestTyped
  <1>2. Typed' /\ Others(g) /\ Starts(g)
    BY <1>1 DEF Runs, Typed, GuestTyped, DoneTyped, Others, Starts, At
  <1>3. Own(g)'
    <2>1. FitsThen(g)
      BY <1>1 DEF FitsThen
    <2>2. Begun(g)'
      BY <1>1 DEF Begun, Own, Runs, At
    <2>3. QED
      BY <2>1, <2>2, FitsOwn
  <1>4. Grows(g)
    <2>1. done[g] \in Nat
      BY ExclusiveAssumption DEF Runs, Typed, DoneTyped
    <2>2. ASSUME NEW written, NEW x, NEW y, Writes(guest[g].at, r.at, written, x, y)
          PROVE  GrowsBy(Made(g, written), Made(g, written)', x, y)
      BY <1>1, <2>1, <2>2 DEF Writes, GrowsBy, Made
    <2>3. QED
      BY <2>2 DEF Grows, WritesBoth
  <1>5. /\ SameKind(guest[g].at, guest'[g].at)
        /\ LeavesMark(guest[g].at, guest'[g].at, monitor[SimOf[g]], monitor'[SimOf[g]])
    BY <1>1
  <1>6. QED
    BY <1>2, <1>3, <1>4, <1>5 DEF Moves

LEMMA FreshType == Fresh \in Record /\ Fresh.at = "next"
  BY DEF Fresh, Record, Places

\* The last step of a sequence writes the high word, or gives the lock back.
Ending == {"stxp high", "add high", "casp write high", "cas write high"}

LEMMA EndsMove ==
    ASSUME NEW g \in Guests, Runs(g), Complete(g), LockTyped', MonitorTyped', MemTyped',
           torn' \subseteq Guests, torn \subseteq torn', Disturbs(g),
           monitor'[SimOf[g]] = Pair => monitor[SimOf[g]] = Pair,
           guest[g].at \in Ending \cup {"stlr"},
           mem'[1] = mem[1],
           torn' = {} => mem'[2] = IF guest[g].at = "stlr" THEN mem[2] ELSE mem[2] + 1
    PROVE  Moves(g)
  <1>1. /\ guest' \in [Guests -> Record] /\ guest'[g] = Fresh
        /\ \A h \in Guests \ {g} : guest'[h] = guest[h]
    BY FreshType DEF Runs, Typed, GuestTyped, Complete
  <1>2. guest[g].at # "next" /\ done[g] < Iterations /\ done[g] \in Nat /\ Iterations \in Nat
    <2>1. guest[g].at # "next" /\ done[g] < Iterations
      BY DEF Runs, Own, Begun, At, Ending
    <2>2. done[g] \in Nat /\ Iterations \in Nat
      BY ExclusiveAssumption DEF Runs, Typed, DoneTyped
    <2>3. QED
      BY <2>1, <2>2
  <1>3. /\ done' \in [Guests -> 0 .. Iterations] /\ done'[g] = done[g] + 1
        /\ \A h \in Guests \ {g} : done'[h] = done[h]
    BY <1>2 DEF Runs, Typed, DoneTyped, Complete
  <1>4. HistoryTyped' /\ History(g)
    BY DEF Runs, Typed, HistoryTyped, History, Complete
  <1>5. Typed' /\ Others(g) /\ Starts(g)
    BY <1>1, <1>2, <1>3, <1>4 DEF Typed, GuestTyped, DoneTyped, Others, Starts, At
  <1>6. Own(g)'
    <2>1. guest'[g].at = "next"
      BY <1>1, FreshType
    <2>2. FitsThen(g)
      BY <2>1 DEF FitsThen, Fits, LowRead, HighRead, HalfWritten, Open, ReleasedPlaces
    <2>3. Begun(g)'
      BY <2>1 DEF Begun, At
    <2>4. QED
      BY <2>2, <2>3, FitsOwn
  <1>7. Grows(g)
    <2>1. "next" \notin LowWritten /\ "next" \notin HighWritten
          /\ guest[g].at \in LowWritten
          /\ (guest[g].at \in HighWritten <=> guest[g].at = "stlr")
      BY DEF LowWritten, HighWritten, Ending
    <2>2. GrowsBy(Made(g, LowWritten), Made(g, LowWritten)', mem[1], mem'[1])
      BY <1>1, <1>2, <1>3, <2>1, FreshType DEF GrowsBy, Made
    <2>3. torn' = {} => GrowsBy(Made(g, HighWritten), Made(g, HighWritten)', mem[2], mem'[2])
      BY <1>1, <1>2, <1>3, <2>1, FreshType DEF GrowsBy, Made
    <2>4. QED
      BY <2>2, <2>3 DEF Grows
  <1>8. /\ SameKind(guest[g].at, guest'[g].at)
        /\ LeavesMark(guest[g].at, guest'[g].at, monitor[SimOf[g]], monitor'[SimOf[g]])
    <2>1. guest'[g].at = "next"
      BY <1>1, FreshType
    <2>2. guest[g].at \notin Window /\ "next" \notin Unmonitored
      BY DEF Window, Unmonitored, Ending
    <2>3. QED
      BY <2>1, <2>2 DEF SameKind, LeavesMark
  <1>9. QED
    BY <1>4, <1>5, <1>6, <1>7, <1>8 DEF Moves

-----------------------------------------------------------------------------
(***************************************************************************)
(* Every step of a guest is such a move.                                   *)
(***************************************************************************)
Rec(at, low, high, rs) == [at |-> at, low |-> low, high |-> high, rs |-> rs]

\* What the assignments of the actions leave in the registers.
SetsAt(g, a) == guest' = [guest EXCEPT ![g].at = a]
SetsLow(g, a, x) == guest' = [guest EXCEPT ![g].at = a, ![g].low = x]
SetsHigh(g, a, x) == guest' = [guest EXCEPT ![g].at = a, ![g].high = x]
SetsRs(g, a, x) == guest' = [guest EXCEPT ![g].at = a, ![g].rs = x]
Becomes(g, r) == guest' = [guest EXCEPT ![g] = r]

LEMMA SetRegisters ==
    ASSUME GuestTyped, NEW g \in Guests, NEW a, NEW x
    PROVE  /\ SetsAt(g, a) => Becomes(g, Rec(a, guest[g].low, guest[g].high, guest[g].rs))
           /\ SetsLow(g, a, x) => Becomes(g, Rec(a, x, guest[g].high, guest[g].rs))
           /\ SetsHigh(g, a, x) => Becomes(g, Rec(a, guest[g].low, x, guest[g].rs))
           /\ SetsRs(g, a, x) => Becomes(g, Rec(a, guest[g].low, guest[g].high, x))
  <1> DEFINE r == guest[g]
             s == Rec(a, r.low, r.high, r.rs)
  <1>1. r \in Record /\ guest \in [Guests -> Record]
    BY DEF GuestTyped
  <1>2. [r EXCEPT !.at = a] = s
    BY <1>1 DEF Record, Rec
  <1>3. /\ [s EXCEPT !.low = x] = Rec(a, x, r.high, r.rs)
        /\ [s EXCEPT !.high = x] = Rec(a, r.low, x, r.rs)
        /\ [s EXCEPT !.rs = x] = Rec(a, r.low, r.high, x)
    BY DEF Rec
  <1>4. /\ [r EXCEPT !.at = a, !.low = x] = [[r EXCEPT !.at = a] EXCEPT !.low = x]
        /\ [r EXCEPT !.at = a, !.high = x] = [[r EXCEPT !.at = a] EXCEPT !.high = x]
        /\ [r EXCEPT !.at = a, !.rs = x] = [[r EXCEPT !.at = a] EXCEPT !.rs = x]
    OBVIOUS
  <1>5. /\ [r EXCEPT !.at = a, !.low = x] = Rec(a, x, r.high, r.rs)
        /\ [r EXCEPT !.at = a, !.high = x] = Rec(a, r.low, x, r.rs)
        /\ [r EXCEPT !.at = a, !.rs = x] = Rec(a, r.low, r.high, x)
    <2> HIDE DEF s
    <2>1. QED
      BY <1>2, <1>3, <1>4
  <1>6. /\ SetsAt(g, a) => Becomes(g, [r EXCEPT !.at = a])
        /\ SetsLow(g, a, x) => Becomes(g, [r EXCEPT !.at = a, !.low = x])
        /\ SetsHigh(g, a, x) => Becomes(g, [r EXCEPT !.at = a, !.high = x])
        /\ SetsRs(g, a, x) => Becomes(g, [r EXCEPT !.at = a, !.rs = x])
    <2>1. SetsAt(g, a) => Becomes(g, [r EXCEPT !.at = a])
      BY <1>1 DEF SetsAt, Becomes
    <2>2. SetsLow(g, a, x) => Becomes(g, [r EXCEPT !.at = a, !.low = x])
      BY <1>1 DEF SetsLow, Becomes
    <2>3. SetsHigh(g, a, x) => Becomes(g, [r EXCEPT !.at = a, !.high = x])
      BY <1>1 DEF SetsHigh, Becomes
    <2>4. SetsRs(g, a, x) => Becomes(g, [r EXCEPT !.at = a, !.rs = x])
      BY <1>1 DEF SetsRs, Becomes
    <2>5. QED
      BY <2>1, <2>2, <2>3, <2>4
  <1>7. QED
    BY <1>2, <1>5, <1>6

LEMMA MonitorSet ==
    ASSUME MonitorTyped, NEW g \in Guests, NEW m \in {Cleared, Pair},
           monitor' = [monitor EXCEPT ![SimOf[g]] = m]
    PROVE  MonitorTyped' /\ monitor'[SimOf[g]] = m
  <1>1. SimOf[g] \in Sims
    BY DEF Sims
  <1>2. QED
    BY <1>1 DEF MonitorTyped

LEMMA MonitorValue ==
    ASSUME MonitorTyped, NEW g \in Guests
    PROVE  monitor[SimOf[g]] \in {Cleared, Pair}
  <1>1. SimOf[g] \in Sims
    BY DEF Sims
  <1>2. QED
    BY <1>1 DEF MonitorTyped


LEMMA MonitorMaybe ==
    ASSUME MonitorTyped, NEW g \in Guests, MaybeClear(g) \/ SetMonitor(g, Cleared)
    PROVE  MonitorTyped' /\ (monitor'[SimOf[g]] = Pair => monitor[SimOf[g]] = Pair)
  <1>1. CASE monitor' = monitor
    BY <1>1 DEF MonitorTyped
  <1>2. CASE SetMonitor(g, Cleared)
    <2>1. MonitorTyped' /\ monitor'[SimOf[g]] = Cleared
      BY <1>2, MonitorSet DEF SetMonitor
    <2>2. QED
      BY <2>1 DEF Cleared, Pair
  <1>3. QED
    BY <1>1, <1>2 DEF MaybeClear

\* Between two places of one sequence with no write between them.
Between(a, b) ==
    /\ a # "next" /\ b \in Places \ {"next"}
    /\ SameKind(a, b)
    /\ a \in LowWritten <=> b \in LowWritten
    /\ a \in HighWritten <=> b \in HighWritten

\* Nothing is written.
Frame(g) ==
    /\ mem' = mem /\ done' = done /\ torn' = torn /\ LockTyped' /\ MonitorTyped'
    /\ exposed' \in {exposed, exposed \ {g}}

LEMMA ReadMoves ==
    ASSUME NEW g \in Guests, Runs(g), NEW b, NEW x \in Nat, NEW y \in Nat, NEW z \in {0, 1},
           Becomes(g, Rec(b, x, y, z)), Frame(g), Between(guest[g].at, b),
           LeavesMark(guest[g].at, b, monitor[SimOf[g]], monitor'[SimOf[g]]),
           Fits(g, Rec(b, x, y, z), mem, monitor'[SimOf[g]], exposed')
    PROVE  Moves(g)
  <1>1. PICK r : r = Rec(b, x, y, z)
    OBVIOUS
  <1>2. r \in Record /\ r.at = b
    BY <1>1 DEF Record, Rec, Between
  <1>3. /\ MemTyped' /\ HistoryTyped' /\ History(g) /\ Disturbs(g)
        /\ LockTyped' /\ MonitorTyped' /\ done' = done
    BY DEF Runs, Typed, MemTyped, HistoryTyped, History, Disturbs, Frame
  <1>4. WritesBoth(guest[g].at, r.at)
    BY <1>2 DEF Writes, WritesBoth, Between, Frame
  <1>5. /\ guest[g].at # "next" /\ r.at # "next" /\ SameKind(guest[g].at, r.at)
        /\ LeavesMark(guest[g].at, r.at, monitor[SimOf[g]], monitor'[SimOf[g]])
    BY <1>2 DEF Between
  <1>6. Fits(g, r, mem', monitor'[SimOf[g]], exposed') /\ guest' = [guest EXCEPT ![g] = r]
    BY <1>1 DEF Becomes, Frame
  <1>7. QED
    BY <1>2, <1>3, <1>4, <1>5, <1>6, StepMoves

LEMMA Registered ==
    ASSUME Typed, NEW g \in Guests
    PROVE  /\ guest[g].low \in Nat /\ guest[g].high \in Nat /\ guest[g].rs \in {0, 1}
           /\ guest[g].at \in Places
           /\ mem[1] \in Nat /\ mem[2] \in Nat
  <1>1. guest[g] \in Record
    BY DEF Typed, GuestTyped
  <1>2. QED
    BY <1>1, WriteWord DEF Typed, MemTyped, Record

LEMMA LockKept == LockTyped /\ lock' = lock => LockTyped'
  BY DEF LockTyped

\* The reads that precede the write of a word, or a comparison.
LowReadFrom(a, b) ==
    \/ a = "ldadd low" /\ b = "add low"
    \/ a = "ldp low" /\ b = "ldp high"
    \/ a = "ldar low" /\ b = "cas low"
    \/ a = "ldr low" /\ b = "str low"

HighReadFrom(a, b) ==
    \/ a = "ldadd high" /\ b = "add high"
    \/ a = "ldp high" /\ b = "casp"
    \/ a = "ldar high" /\ b = "cas high"
    \/ a = "ldr high" /\ b = "str high"

LEMMA ReadPlaces ==
    ASSUME NEW a, NEW b, LowReadFrom(a, b) \/ HighReadFrom(a, b)
    PROVE  /\ Between(a, b)
           /\ a \notin Window
           /\ b \notin HalfWritten \cup Open \cup ReleasedPlaces \cup {"casp high"}
           /\ LowReadFrom(a, b) => b \notin HighRead
           /\ HighReadFrom(a, b) => b \notin LowRead
  <1>1. /\ a # "next" /\ b \in Places \ {"next"} /\ a \notin Window
        /\ b \notin HalfWritten \cup Open \cup ReleasedPlaces \cup {"casp high"}
    BY DEF LowReadFrom, HighReadFrom, Places, LlscPlaces, CaspPlaces, CasPlaces, Unmonitored,
           Window, HalfWritten, Open, ReleasedPlaces
  <1>2. SameKind(a, b)
    BY DEF LowReadFrom, HighReadFrom, SameKind, Unmonitored
  <1>3. /\ a \in LowWritten <=> b \in LowWritten
        /\ a \in HighWritten <=> b \in HighWritten
    BY DEF LowReadFrom, HighReadFrom, LowWritten, HighWritten
  <1>4. /\ LowReadFrom(a, b) => b \notin HighRead
        /\ HighReadFrom(a, b) => b \notin LowRead
    BY DEF LowReadFrom, HighReadFrom, LowRead, HighRead
  <1>5. QED
    BY <1>1, <1>2, <1>3, <1>4 DEF Between

LEMMA LowReadMoves ==
    ASSUME NEW g \in Guests, Runs(g), NEW a, NEW b, LowReadFrom(a, b), ReadLow(g, a, b),
           exposed' = exposed, MaybeClear(g) \/ SetMonitor(g, Cleared)
    PROVE  Moves(g)
  <1>1. guest[g].at = a /\ Frame(g) /\ (monitor'[SimOf[g]] = Pair => monitor[SimOf[g]] = Pair)
    BY MonitorMaybe, LockKept DEF ReadLow, At, Frame, Runs, Typed
  <1>2. Becomes(g, Rec(b, mem[1], guest[g].high, guest[g].rs))
    BY SetRegisters DEF ReadLow, SetsLow, Runs, Typed
  <1>3. Fits(g, Rec(b, mem[1], guest[g].high, guest[g].rs), mem, monitor'[SimOf[g]], exposed')
    BY ReadPlaces DEF Fits, Rec
  <1>4. Between(a, b) /\ LeavesMark(a, b, monitor[SimOf[g]], monitor'[SimOf[g]])
    BY <1>1, ReadPlaces DEF LeavesMark
  <1>5. QED
    BY <1>1, <1>2, <1>3, <1>4, ReadMoves, Registered DEF Runs

LEMMA HighReadMoves ==
    ASSUME NEW g \in Guests, Runs(g), NEW a, NEW b, HighReadFrom(a, b), ReadHigh(g, a, b),
           MaybeClear(g) \/ SetMonitor(g, Cleared)
    PROVE  Moves(g)
  <1>1. guest[g].at = a /\ Frame(g) /\ (monitor'[SimOf[g]] = Pair => monitor[SimOf[g]] = Pair)
    BY MonitorMaybe, LockKept DEF ReadHigh, At, Frame, Runs, Typed
  <1>2. Becomes(g, Rec(b, guest[g].low, mem[2], guest[g].rs))
    BY SetRegisters DEF ReadHigh, SetsHigh, Runs, Typed
  <1>3. Fits(g, Rec(b, guest[g].low, mem[2], guest[g].rs), mem, monitor'[SimOf[g]], exposed')
    BY ReadPlaces DEF Fits, Rec
  <1>4. Between(a, b) /\ LeavesMark(a, b, monitor[SimOf[g]], monitor'[SimOf[g]])
    BY <1>1, ReadPlaces DEF LeavesMark
  <1>5. QED
    BY <1>1, <1>2, <1>3, <1>4, ReadMoves, Registered DEF Runs

\* LDADD, LDP, LDAR, LDAPR and LDR.
LEMMA LoadsMove ==
    ASSUME NEW g \in Guests, Runs(g),
           \/ AtomicRead(g) \/ LoadPair(g) \/ LoadOrdinary(g)
           \/ LoadAcquire(g, FALSE) \/ LoadAcquireRCpcHelper(g)
    PROVE  Moves(g)
  <1>1. CASE AtomicRead(g)
    <2>1. MaybeClear(g)
      BY <1>1 DEF AtomicRead, MaybeClear
    <2>2. CASE ReadLow(g, "ldadd low", "add low") /\ exposed' = exposed
      BY <2>1, <2>2, LowReadMoves DEF LowReadFrom
    <2>3. CASE ReadHigh(g, "ldadd high", "add high")
      BY <2>1, <2>3, HighReadMoves DEF HighReadFrom
    <2>4. QED
      BY <1>1, <2>2, <2>3 DEF AtomicRead
  <1>2. CASE LoadPair(g)
    <2>1. CASE ReadLow(g, "ldp low", "ldp high") /\ exposed' = exposed /\ monitor' = monitor
      BY <2>1, LowReadMoves DEF LowReadFrom, MaybeClear
    <2>2. CASE ReadHigh(g, "ldp high", "casp") /\ MaybeClear(g)
      BY <2>2, HighReadMoves DEF HighReadFrom
    <2>3. QED
      BY <1>2, <2>1, <2>2 DEF LoadPair
  <1>3. CASE LoadOrdinary(g)
    <2>1. MaybeClear(g)
      BY <1>3 DEF LoadOrdinary
    <2>2. CASE ReadLow(g, "ldr low", "str low") /\ exposed' = exposed
      BY <2>1, <2>2, LowReadMoves DEF LowReadFrom
    <2>3. CASE ReadHigh(g, "ldr high", "str high")
      BY <2>1, <2>3, HighReadMoves DEF HighReadFrom
    <2>4. QED
      BY <1>3, <2>2, <2>3 DEF LoadOrdinary
  <1>4. CASE LoadAcquire(g, FALSE) \/ LoadAcquireRCpcHelper(g)
    <2>1. MaybeClear(g) \/ SetMonitor(g, Cleared)
      BY <1>4 DEF LoadAcquire, LoadAcquireRCpcHelper, MaybeClear
    <2>2. CASE ReadLow(g, "ldar low", "cas low") /\ exposed' = exposed
      BY <2>1, <2>2, LowReadMoves DEF LowReadFrom
    <2>3. CASE ReadHigh(g, "ldar high", "cas high")
      BY <2>1, <2>3, HighReadMoves DEF HighReadFrom
    <2>4. QED
      BY <1>4, <2>2, <2>3 DEF LoadAcquire, LoadAcquireRCpcHelper
  <1>5. QED
    BY <1>1, <1>2, <1>3, <1>4

LEMMA LoadExclusiveMoves ==
    ASSUME NEW g \in Guests, Runs(g), LoadExclusive(g)
    PROVE  Moves(g)
  <1>1. guest[g].at = "ldxp" /\ Frame(g)
    BY MonitorSet, LockKept DEF LoadExclusive, ReadLow, SetMonitor, At, Frame, Runs, Typed
  <1>2. Becomes(g, Rec("ldxp high", mem[1], guest[g].high, guest[g].rs))
    BY SetRegisters DEF LoadExclusive, ReadLow, SetsLow, Runs, Typed
  <1>3. Fits(g, Rec("ldxp high", mem[1], guest[g].high, guest[g].rs), mem,
             monitor'[SimOf[g]], exposed')
    BY DEF Fits, Rec, LowRead, HighRead, HalfWritten, Open, ReleasedPlaces
  <1>4. Between("ldxp", "ldxp high")
    BY DEF Between, SameKind, Places, LlscPlaces, Unmonitored, LowWritten, HighWritten
  <1>5. LeavesMark("ldxp", "ldxp high", monitor[SimOf[g]], monitor'[SimOf[g]])
    BY DEF LeavesMark, Window
  <1>6. QED
    BY <1>1, <1>2, <1>3, <1>4, <1>5, ReadMoves, Registered DEF Runs

LEMMA LoadExclusiveHighMoves ==
    ASSUME NEW g \in Guests, Runs(g), LoadExclusiveHigh(g)
    PROVE  Moves(g)
  <1>1. PICK b \in {"other", "stxp"} : ReadHigh(g, "ldxp high", b)
    BY DEF LoadExclusiveHigh
  <1>2. guest[g].at = "ldxp high" /\ Frame(g) /\ exposed' = exposed
    BY <1>1, LockKept DEF LoadExclusiveHigh, ReadHigh, At, Frame, Runs, Typed, MonitorTyped
  <1>3. Becomes(g, Rec(b, guest[g].low, mem[2], guest[g].rs))
    BY <1>1, SetRegisters DEF ReadHigh, SetsHigh, Runs, Typed
  <1>4. guest[g].low = mem[1]
    BY <1>2, OwnFits DEF Runs, FitsNow, Fits, LowRead
  <1>5. Fits(g, Rec(b, guest[g].low, mem[2], guest[g].rs), mem, monitor'[SimOf[g]], exposed')
    BY <1>4 DEF Fits, Rec, LowRead, HighRead, HalfWritten, Open, ReleasedPlaces
  <1>6. Between("ldxp high", b)
    BY DEF Between, SameKind, Places, LlscPlaces, Unmonitored, LowWritten, HighWritten
  <1>7. LeavesMark("ldxp high", b, monitor[SimOf[g]], monitor'[SimOf[g]])
    BY DEF LeavesMark, Window
  <1>8. QED
    BY <1>2, <1>3, <1>5, <1>6, <1>7, ReadMoves, Registered DEF Runs

LEMMA OtherAccessMoves ==
    ASSUME NEW g \in Guests, Runs(g), OtherAccess(g)
    PROVE  Moves(g)
  <1>1. /\ guest[g].at = "other" /\ Frame(g) /\ exposed' = exposed
        /\ (monitor'[SimOf[g]] = Pair => monitor[SimOf[g]] = Pair)
    BY MonitorMaybe, LockKept DEF OtherAccess, At, Frame, Runs, Typed
  <1>2. Becomes(g, Rec("stxp", guest[g].low, guest[g].high, guest[g].rs))
    BY SetRegisters DEF OtherAccess, Go, SetsAt, Runs, Typed
  <1>3. monitor[SimOf[g]] = Pair /\ g \notin exposed =>
           guest[g].low = mem[1] /\ guest[g].high = mem[2]
    BY <1>1, OwnFits DEF Runs, FitsNow, Fits, Open
  <1>4. Fits(g, Rec("stxp", guest[g].low, guest[g].high, guest[g].rs), mem,
             monitor'[SimOf[g]], exposed')
    BY <1>1, <1>3 DEF Fits, Rec, LowRead, HighRead, HalfWritten, Open, ReleasedPlaces
  <1>5. Between("other", "stxp")
    BY DEF Between, SameKind, Places, LlscPlaces, Unmonitored, LowWritten, HighWritten
  <1>6. LeavesMark("other", "stxp", monitor[SimOf[g]], monitor'[SimOf[g]])
    BY DEF LeavesMark, Window
  <1>7. QED
    BY <1>1, <1>2, <1>4, <1>5, <1>6, ReadMoves, Registered DEF Runs

\* Steps that clear the monitor or leave it, and read no word into a register.
LEMMA GoMoves ==
    ASSUME NEW g \in Guests, Runs(g), NEW b, NEW z \in {0, 1},
           Becomes(g, Rec(b, guest[g].low, guest[g].high, z)), Frame(g), exposed' = exposed,
           monitor'[SimOf[g]] = Pair => monitor[SimOf[g]] = Pair,
           guest[g].at \notin Window, Between(guest[g].at, b),
           Fits(g, Rec(b, guest[g].low, guest[g].high, z), mem, monitor'[SimOf[g]], exposed')
    PROVE  Moves(g)
  <1>1. LeavesMark(guest[g].at, b, monitor[SimOf[g]], monitor'[SimOf[g]])
    BY DEF LeavesMark
  <1>2. QED
    BY <1>1, ReadMoves, Registered DEF Runs

LEMMA CompareLowMoves ==
    ASSUME NEW g \in Guests, Runs(g), CompareLow(g)
    PROVE  Moves(g)
  <1>1. /\ guest[g].at = "casp" /\ Frame(g) /\ exposed' = exposed
        /\ monitor'[SimOf[g]] = Cleared
    BY MonitorSet, LockKept DEF CompareLow, SetMonitor, At, Frame, Runs, Typed
  <1>2. PICK z \in {0, 1} : z = IF mem[1] = guest[g].low THEN 0 ELSE 1
    OBVIOUS
  <1>3. Becomes(g, Rec("casp high", guest[g].low, guest[g].high, z))
    BY <1>2, SetRegisters DEF CompareLow, SetsRs, Runs, Typed
  <1>4. Fits(g, Rec("casp high", guest[g].low, guest[g].high, z), mem,
             monitor'[SimOf[g]], exposed')
    BY <1>1, <1>2 DEF Fits, Rec, LowRead, HighRead, HalfWritten, Open, ReleasedPlaces,
                      Cleared, Pair
  <1>5. Between("casp", "casp high") /\ "casp" \notin Window
    BY DEF Between, SameKind, Places, CaspPlaces, Unmonitored, LowWritten, HighWritten, Window
  <1>6. monitor'[SimOf[g]] # Pair
    BY <1>1 DEF Cleared, Pair
  <1>7. QED
    BY <1>1, <1>3, <1>4, <1>5, <1>6, GoMoves

LEMMA CompareHighMoves ==
    ASSUME NEW g \in Guests, Runs(g), CompareHigh(g)
    PROVE  Moves(g)
  <1>1. /\ guest[g].at = "casp high" /\ Frame(g) /\ exposed' = exposed /\ monitor' = monitor
    BY LockKept DEF CompareHigh, At, Frame, Runs, Typed, MonitorTyped
  <1>2. monitor[SimOf[g]] # Pair /\ (guest[g].rs = 0 => guest[g].low = mem[1])
    BY <1>1, OwnFits DEF Runs, FitsNow, Fits, ReleasedPlaces
  <1>3. "casp high" \notin Window /\ guest[g].rs \in {0, 1}
    BY Registered DEF Window, Runs
  <1>4. CASE Same(g)
    <2>1. Becomes(g, Rec("casp write", guest[g].low, guest[g].high, guest[g].rs))
      BY <1>4, SetRegisters DEF CompareHigh, Go, SetsAt, Runs, Typed
    <2>2. Fits(g, Rec("casp write", guest[g].low, guest[g].high, guest[g].rs), mem,
               monitor'[SimOf[g]], exposed')
      BY <1>1, <1>2, <1>4 DEF Same, Fits, Rec, LowRead, HighRead, HalfWritten, Open
    <2>3. Between("casp high", "casp write")
      BY DEF Between, SameKind, Places, CaspPlaces, Unmonitored, LowWritten, HighWritten
    <2>4. QED
      BY <1>1, <1>3, <2>1, <2>2, <2>3, GoMoves
  <1>5. CASE ~Same(g)
    <2>1. Becomes(g, Rec("ldp low", guest[g].low, guest[g].high, guest[g].rs))
      BY <1>5, SetRegisters DEF CompareHigh, Go, SetsAt, Runs, Typed
    <2>2. Fits(g, Rec("ldp low", guest[g].low, guest[g].high, guest[g].rs), mem,
               monitor'[SimOf[g]], exposed')
      BY DEF Fits, Rec, LowRead, HighRead, HalfWritten, Open, ReleasedPlaces
    <2>3. Between("casp high", "ldp low")
      BY DEF Between, SameKind, Places, CaspPlaces, Unmonitored, LowWritten, HighWritten
    <2>4. QED
      BY <1>1, <1>3, <2>1, <2>2, <2>3, GoMoves
  <1>6. QED
    BY <1>4, <1>5

LEMMA CompareAndSwapMoves ==
    ASSUME NEW g \in Guests, Runs(g), CompareAndSwap(g)
    PROVE  Moves(g)
  <1>1. /\ guest[g].at \in {"cas low", "cas high"} /\ Frame(g) /\ exposed' = exposed
        /\ monitor'[SimOf[g]] = Cleared
    <2>1. guest[g].at \in {"cas low", "cas high"}
      BY DEF CompareAndSwap, At
    <2>2. MonitorTyped' /\ monitor'[SimOf[g]] = Cleared
      BY MonitorSet DEF CompareAndSwap, SetMonitor, Runs, Typed
    <2>3. Frame(g) /\ exposed' = exposed
      BY <2>2, LockKept DEF CompareAndSwap, Frame, Runs, Typed
    <2>4. QED
      BY <2>1, <2>2, <2>3
  <1>2. /\ monitor'[SimOf[g]] # Pair /\ guest[g].at \notin Window /\ guest[g].rs \in {0, 1}
    <2>1. Cleared # Pair
      BY DEF Cleared, Pair
    <2>2. guest[g].at \notin Window
      <3>1. guest[g].at = "cas low" \/ guest[g].at = "cas high"
        BY <1>1
      <3>2. QED
        BY <3>1 DEF Window
    <2>3. guest[g].rs \in {0, 1}
      BY Registered DEF Runs
    <2>4. QED
      BY <1>1, <2>1, <2>2, <2>3
  <1>3. PICK b : /\ SetsAt(g, b)
                 /\ \/ guest[g].at = "cas low" /\ b = "cas write" /\ mem[1] = guest[g].low
                    \/ guest[g].at = "cas low" /\ b = "ldar low"
                    \/ guest[g].at = "cas high" /\ b = "cas write high" /\ mem[2] = guest[g].high
                    \/ guest[g].at = "cas high" /\ b = "ldar high"
    BY DEF CompareAndSwap, At, Go, SetsAt
  <1>4. Becomes(g, Rec(b, guest[g].low, guest[g].high, guest[g].rs))
    BY <1>3, SetRegisters DEF Runs, Typed
  <1>5. Fits(g, Rec(b, guest[g].low, guest[g].high, guest[g].rs), mem,
             monitor'[SimOf[g]], exposed')
    BY <1>2, <1>3 DEF Fits, Rec, LowRead, HighRead, HalfWritten, Open, ReleasedPlaces
  <1>6. Between(guest[g].at, b)
    BY <1>3 DEF Between, SameKind, Places, CasPlaces, Unmonitored, LowWritten, HighWritten
  <1>7. QED
    BY <1>1, <1>2, <1>4, <1>5, <1>6, GoMoves

LEMMA SwapMoves ==
    ASSUME NEW g \in Guests, Runs(g), SwapRead(g) \/ SwapWrite(g)
    PROVE  Moves(g)
  <1>1. CASE SwapRead(g)
    <2>1. guest[g].at = "swpa" /\ Frame(g) /\ exposed' = exposed /\ monitor' = monitor
      BY <1>1, LockKept DEF SwapRead, At, Frame, Runs, Typed, MonitorTyped
    <2>2. PICK z \in {0, 1} : z = lock
      BY DEF Runs, Typed, LockTyped
    <2>3. Becomes(g, Rec("swpa write", guest[g].low, guest[g].high, z))
      BY <1>1, <2>2, SetRegisters DEF SwapRead, SetsRs, Runs, Typed
    <2>4. Fits(g, Rec("swpa write", guest[g].low, guest[g].high, z), mem,
               monitor'[SimOf[g]], exposed')
      BY DEF Fits, Rec, LowRead, HighRead, HalfWritten, Open, ReleasedPlaces
    <2>5. Between("swpa", "swpa write") /\ "swpa" \notin Window
      BY DEF Between, SameKind, Places, Unmonitored, LowWritten, HighWritten, Window
    <2>6. QED
      BY <2>1, <2>3, <2>4, <2>5, GoMoves
  <1>2. CASE SwapWrite(g)
    <2>1. guest[g].at = "swpa write" /\ Frame(g) /\ exposed' = exposed /\ monitor' = monitor
      BY <1>2 DEF SwapWrite, At, Frame, Runs, Typed, MonitorTyped, LockTyped
    <2>2. PICK b \in {"ldr low", "swpa"} : SetsAt(g, b)
      BY <1>2 DEF SwapWrite, Go, SetsAt
    <2>3. Becomes(g, Rec(b, guest[g].low, guest[g].high, guest[g].rs))
      BY <2>2, SetRegisters DEF Runs, Typed
    <2>4. Fits(g, Rec(b, guest[g].low, guest[g].high, guest[g].rs), mem,
               monitor'[SimOf[g]], exposed')
      BY DEF Fits, Rec, LowRead, HighRead, HalfWritten, Open, ReleasedPlaces
    <2>5. Between("swpa write", b) /\ "swpa write" \notin Window /\ guest[g].rs \in {0, 1}
      BY Registered DEF Between, SameKind, Places, Unmonitored, LowWritten, HighWritten, Window, Runs
    <2>6. QED
      BY <2>1, <2>3, <2>4, <2>5, GoMoves
  <1>3. QED
    BY <1>1, <1>2

-----------------------------------------------------------------------------
(***************************************************************************)
(* The writes.                                                             *)
(***************************************************************************)
WriteFrom(a, b) ==
    \/ a = "add low" /\ b = "ldadd high"
    \/ a = "casp write" /\ b = "casp write high"
    \/ a = "cas write" /\ b = "ldar high"
    \/ a = "str low" /\ b = "ldr high"

LEMMA LowWriteMoves ==
    ASSUME NEW g \in Guests, Runs(g), NEW a, NEW b, WriteFrom(a, b), WriteLow(g, a, b)
    PROVE  Moves(g)
  <1>1. /\ guest[g].at = a /\ LockTyped' /\ MonitorTyped' /\ HistoryTyped' /\ History(g)
        /\ monitor' = monitor /\ exposed' = exposed /\ done' = done
    BY LockKept DEF WriteLow, At, Runs, Typed, MonitorTyped, HistoryTyped, History
  <1>2. /\ a \in LowRead /\ a # "next" /\ a \notin Window
        /\ a \in Unmonitored \/ a \in ReleasedPlaces
        /\ b \in Places \ {"next"} /\ b \notin LowRead \cup HighRead \cup Open \cup {"casp high"}
    BY DEF WriteFrom, LowRead, HighRead, Window, Unmonitored, ReleasedPlaces, Places, CaspPlaces,
           CasPlaces, Open
  <1>3. FitsNow(g)
    BY OwnFits DEF Runs
  <1>4. guest[g].low = mem[1]
    BY <1>1, <1>2, <1>3 DEF FitsNow, Fits
  <1>5. PICK x \in Nat : x = mem[1] + 1
    BY Registered DEF Runs
  <1>6. MemTyped' /\ mem'[1] = mem[1] + 1 /\ mem'[2] = mem[2]
    <2>1. mem' = [mem EXCEPT ![1] = x]
      BY <1>4, <1>5 DEF WriteLow
    <2>2. QED
      BY <1>5, <2>1, WriteWord DEF Runs, Typed, MemTyped
  <1>7. Disturbs(g)
    <2>1. CASE a \in Unmonitored
      BY <1>1, <2>1 DEF Disturbs
    <2>2. CASE a \in ReleasedPlaces
      <3>1. monitor[SimOf[g]] # Pair
        BY <1>1, <1>3, <2>2 DEF FitsNow, Fits
      <3>2. monitor'[SimOf[g]] = Cleared
        BY <1>1, <3>1, MonitorValue DEF Runs, Typed
      <3>3. QED
        BY <3>2 DEF Disturbs
    <2>3. QED
      BY <1>2, <2>1, <2>2
  <1>8. PICK r : r = Rec(b, guest[g].low, guest[g].high, guest[g].rs)
    OBVIOUS
  <1>9. r \in Record /\ r.at = b /\ r.high = guest[g].high
    BY <1>2, <1>8, Registered DEF Record, Rec, Runs
  <1>10. guest' = [guest EXCEPT ![g] = r]
    BY <1>8, SetRegisters DEF WriteLow, Go, SetsAt, Becomes, Runs, Typed
  <1>11. Fits(g, r, mem', monitor'[SimOf[g]], exposed')
    <2>1. b \in HalfWritten \cup ReleasedPlaces => a = "casp write"
      BY DEF WriteFrom, HalfWritten, ReleasedPlaces
    <2>2. a = "casp write" => guest[g].high = mem[2] /\ monitor[SimOf[g]] # Pair
      BY <1>1, <1>3 DEF FitsNow, Fits, HighRead, ReleasedPlaces
    <2>3. QED
      BY <1>1, <1>2, <1>6, <1>9, <2>1, <2>2 DEF Fits
  <1>12. SameKind(a, b)
    BY DEF SameKind, WriteFrom, Unmonitored
  <1>13. LeavesMark(a, b, monitor[SimOf[g]], monitor'[SimOf[g]])
    BY <1>1, <1>2 DEF LeavesMark
  <1>14. WritesBoth(a, b)
    <2>1. a \notin LowWritten /\ b \in LowWritten /\ a \notin HighWritten /\ b \notin HighWritten
      BY DEF WriteFrom, LowWritten, HighWritten
    <2>2. QED
      BY <1>6, <2>1 DEF WritesBoth, Writes
  <1>15. QED
    BY <1>1, <1>2, <1>6, <1>7, <1>9, <1>10, <1>11, <1>12, <1>13, <1>14, StepMoves

LEMMA HighWriteMoves ==
    ASSUME NEW g \in Guests, Runs(g), NEW a \in Ending, WriteHigh(g, a)
    PROVE  Moves(g)
  <1>1. /\ guest[g].at = a /\ LockTyped' /\ MonitorTyped' /\ monitor' = monitor
        /\ torn' \subseteq Guests /\ torn \subseteq torn' /\ Complete(g)
    BY LockKept DEF WriteHigh, At, Runs, Typed, MonitorTyped, HistoryTyped
  <1>2. a \in HighRead \/ a \in HalfWritten
    BY DEF Ending, HighRead, HalfWritten
  <1>3. FitsNow(g)
    BY OwnFits DEF Runs
  <1>4. torn' = {} => guest[g].high = mem[2]
    <2> SUFFICES ASSUME torn' = {} PROVE guest[g].high = mem[2]
      OBVIOUS
    <2>1. g \notin exposed
      BY DEF WriteHigh
    <2>2. QED
      BY <1>1, <1>2, <1>3, <2>1 DEF FitsNow, Fits
  <1>5. PICK x \in Nat : x = guest[g].high + 1
    BY Registered DEF Runs
  <1>6. MemTyped' /\ mem'[1] = mem[1] /\ mem'[2] = x
    <2>1. mem' = [mem EXCEPT ![2] = x]
      BY <1>5 DEF WriteHigh
    <2>2. QED
      BY <2>1, WriteWord DEF Runs, Typed, MemTyped
  <1>7. Disturbs(g)
    <2>1. CASE a \in Unmonitored
      BY <1>1, <2>1 DEF Disturbs
    <2>2. CASE a \notin Unmonitored
      <3>1. a \in ReleasedPlaces
        BY <2>2 DEF Ending, Unmonitored, ReleasedPlaces
      <3>2. monitor[SimOf[g]] # Pair
        BY <1>1, <1>3, <3>1 DEF FitsNow, Fits
      <3>3. monitor'[SimOf[g]] = Cleared
        BY <1>1, <3>2, MonitorValue DEF Runs, Typed
      <3>4. QED
        BY <3>3 DEF Disturbs
    <2>3. QED
      BY <2>1, <2>2
  <1>8. guest[g].at \in Ending \cup {"stlr"} /\ guest[g].at # "stlr"
    BY <1>1 DEF Ending
  <1>9. torn' = {} => mem'[2] = IF guest[g].at = "stlr" THEN mem[2] ELSE mem[2] + 1
    BY <1>4, <1>5, <1>6, <1>8
  <1>10. monitor'[SimOf[g]] = Pair => monitor[SimOf[g]] = Pair
    BY <1>1
  <1>11. QED
    BY <1>1, <1>6, <1>7, <1>8, <1>9, <1>10, EndsMove

LEMMA UnlockMoves ==
    ASSUME NEW g \in Guests, Runs(g), Unlock(g)
    PROVE  Moves(g)
  <1>1. /\ guest[g].at = "stlr" /\ mem' = mem /\ torn' = torn /\ Complete(g)
        /\ LockTyped' /\ MonitorTyped'
        /\ (monitor'[SimOf[g]] = Pair => monitor[SimOf[g]] = Pair)
    BY MonitorMaybe DEF Unlock, At, Runs, Typed, LockTyped
  <1>2. MemTyped' /\ torn' \subseteq Guests /\ Disturbs(g)
    BY <1>1 DEF Runs, Typed, MemTyped, HistoryTyped, Disturbs
  <1>3. QED
    BY <1>1, <1>2, EndsMove

LEMMA StoreOrdinaryMoves ==
    ASSUME NEW g \in Guests, Runs(g), StoreOrdinary(g)
    PROVE  Moves(g)
  <1>1. CASE WriteLow(g, "str low", "ldr high")
    BY <1>1, LowWriteMoves DEF WriteFrom
  <1>2. CASE ~WriteLow(g, "str low", "ldr high")
    <2>1. /\ guest[g].at = "str high" /\ LockTyped' /\ MonitorTyped' /\ HistoryTyped' /\ History(g)
          /\ monitor' = monitor /\ exposed' = exposed /\ done' = done
          /\ mem' = [mem EXCEPT ![2] = guest[g].high + 1] /\ SetsAt(g, "stlr")
      BY <1>2, LockKept
      DEF StoreOrdinary, At, Go, SetsAt, Runs, Typed, MonitorTyped, HistoryTyped, History
    <2>2. guest[g].high = mem[2]
      BY <2>1, OwnFits DEF Runs, FitsNow, Fits, HighRead
    <2>3. PICK x \in Nat : x = mem[2] + 1
      BY Registered DEF Runs
    <2>4. MemTyped' /\ mem'[1] = mem[1] /\ mem'[2] = mem[2] + 1
      <3>1. mem' = [mem EXCEPT ![2] = x]
        BY <2>1, <2>2, <2>3
      <3>2. QED
        BY <2>3, <3>1, WriteWord DEF Runs, Typed, MemTyped
    <2>5. PICK r : r = Rec("stlr", guest[g].low, guest[g].high, guest[g].rs)
      OBVIOUS
    <2>6. r \in Record /\ r.at = "stlr"
      BY <2>5, Registered DEF Record, Rec, Runs, Places, Unmonitored
    <2>7. guest' = [guest EXCEPT ![g] = r]
      BY <2>1, <2>5, SetRegisters DEF Becomes, Runs, Typed
    <2>8. Fits(g, r, mem', monitor'[SimOf[g]], exposed')
      BY <2>6 DEF Fits, LowRead, HighRead, HalfWritten, Open, ReleasedPlaces
    <2>9. Disturbs(g) /\ SameKind("str high", "stlr")
      BY <2>1 DEF Disturbs, SameKind, Unmonitored
    <2>10. LeavesMark("str high", "stlr", monitor[SimOf[g]], monitor'[SimOf[g]])
      BY <2>1 DEF LeavesMark, Window
    <2>11. WritesBoth("str high", "stlr")
      BY <2>4 DEF WritesBoth, Writes, LowWritten, HighWritten
    <2>12. QED
      BY <2>1, <2>4, <2>6, <2>7, <2>8, <2>9, <2>10, <2>11, StepMoves
  <1>3. QED
    BY <1>1, <1>2

LEMMA StoreExclusiveMoves ==
    ASSUME NEW g \in Guests, Runs(g), StoreExclusive(g)
    PROVE  Moves(g)
  <1>1. /\ guest[g].at = "stxp" /\ LockTyped' /\ MonitorTyped' /\ monitor'[SimOf[g]] = Cleared
        /\ exposed' = exposed /\ done' = done
    BY LockKept, MonitorSet DEF StoreExclusive, SetMonitor, At, Runs, Typed
  <1>2. monitor'[SimOf[g]] # Pair
    BY <1>1 DEF Cleared, Pair
  <1>3. CASE guest' = [guest EXCEPT ![g].at = "ldxp", ![g].rs = 1] /\ mem' = mem /\ torn' = torn
    <2>1. Frame(g)
      BY <1>1, <1>3 DEF Frame
    <2>2. Becomes(g, Rec("ldxp", guest[g].low, guest[g].high, 1))
      BY <1>3, SetRegisters DEF SetsRs, Runs, Typed
    <2>3. Fits(g, Rec("ldxp", guest[g].low, guest[g].high, 1), mem, monitor'[SimOf[g]], exposed')
      BY DEF Fits, Rec, LowRead, HighRead, HalfWritten, Open, ReleasedPlaces
    <2>4. Between("stxp", "ldxp")
      BY DEF Between, SameKind, Places, LlscPlaces, Unmonitored, LowWritten, HighWritten
    <2>5. LeavesMark("stxp", "ldxp", monitor[SimOf[g]], monitor'[SimOf[g]])
      BY <1>2 DEF LeavesMark
    <2>6. 1 \in {0, 1}
      OBVIOUS
    <2>7. QED
      BY <1>1, <2>1, <2>2, <2>3, <2>4, <2>5, <2>6, ReadMoves, Registered DEF Runs
  <1>4. CASE /\ monitor[SimOf[g]] = Pair
             /\ guest' = [guest EXCEPT ![g].at = "stxp high", ![g].rs = 0]
             /\ mem' = [mem EXCEPT ![1] = guest[g].low + 1]
             /\ torn' = torn \cup (exposed \cap {g})
    <2>1. g \notin exposed => guest[g].low = mem[1] /\ guest[g].high = mem[2]
      BY <1>1, <1>4, OwnFits DEF Runs, FitsNow, Fits, Open
    <2>2. PICK x \in Nat : x = guest[g].low + 1
      BY Registered DEF Runs
    <2>3. MemTyped' /\ mem'[1] = x /\ mem'[2] = mem[2]
      <3>1. mem' = [mem EXCEPT ![1] = x]
        BY <1>4, <2>2
      <3>2. QED
        BY <3>1, WriteWord DEF Runs, Typed, MemTyped
    <2>4. PICK r : r = Rec("stxp high", guest[g].low, guest[g].high, 0)
      OBVIOUS
    <2>5. r \in Record /\ r.at = "stxp high" /\ r.high = guest[g].high
      BY <2>4, Registered DEF Record, Rec, Runs, Places, LlscPlaces
    <2>6. guest' = [guest EXCEPT ![g] = r]
      <3>1. SetsRs(g, "stxp high", 0)
        BY <1>4 DEF SetsRs
      <3>2. Becomes(g, Rec("stxp high", guest[g].low, guest[g].high, 0))
        BY <3>1, SetRegisters DEF Runs, Typed
      <3>3. QED
        BY <2>4, <3>2 DEF Becomes
    <2>7. Fits(g, r, mem', monitor'[SimOf[g]], exposed')
      BY <1>1, <1>2, <2>1, <2>3, <2>5 DEF Fits, LowRead, HighRead, HalfWritten, Open
    <2>8. Disturbs(g) /\ SameKind("stxp", "stxp high") /\ HistoryTyped' /\ History(g)
      BY <1>1, <1>4 DEF Disturbs, SameKind, Unmonitored, HistoryTyped, History, Runs, Typed
    <2>9. LeavesMark("stxp", "stxp high", monitor[SimOf[g]], monitor'[SimOf[g]])
      BY <1>2 DEF LeavesMark
    <2>10. WritesBoth("stxp", "stxp high")
      <3> SUFFICES ASSUME torn' = {}
                   PROVE  /\ Writes("stxp", "stxp high", LowWritten, mem[1], mem'[1])
                          /\ Writes("stxp", "stxp high", HighWritten, mem[2], mem'[2])
        BY DEF WritesBoth
      <3>1. g \notin exposed
        BY <1>4
      <3>2. mem'[1] = mem[1] + 1 /\ mem'[2] = mem[2]
        BY <2>1, <2>2, <2>3, <3>1
      <3>3. QED
        BY <3>2 DEF Writes, LowWritten, HighWritten
    <2>11. QED
      BY <1>1, <2>3, <2>5, <2>6, <2>7, <2>8, <2>9, <2>10, StepMoves
  <1>5. QED
    BY <1>3, <1>4 DEF StoreExclusive, IsExclusive

\* STXP's second write, LDADD, CASP, CAS: the writes of the sequences.
LEMMA WritesMove ==
    ASSUME NEW g \in Guests, Runs(g),
           \/ StoreExclusiveHigh(g) \/ AtomicWrite(g) \/ SwapLow(g) \/ SwapHigh(g)
           \/ CompareAndSwapWrite(g)
    PROVE  Moves(g)
  <1>1. CASE \/ WriteLow(g, "add low", "ldadd high") \/ WriteLow(g, "casp write", "casp write high")
             \/ WriteLow(g, "cas write", "ldar high")
    BY <1>1, LowWriteMoves DEF WriteFrom
  <1>2. CASE \/ WriteHigh(g, "stxp high") \/ WriteHigh(g, "add high")
             \/ WriteHigh(g, "casp write high") \/ WriteHigh(g, "cas write high")
    BY <1>2, HighWriteMoves DEF Ending
  <1>3. QED
    BY <1>1, <1>2 DEF StoreExclusiveHigh, AtomicWrite, SwapLow, SwapHigh, CompareAndSwapWrite

\* A sequence begins while the guests below wait, exposed where they must be.
LEMMA BeginMoves ==
    ASSUME OneSimulator, NEW g \in Guests, Runs(g), Begin(g)
    PROVE  Moves(g)
  <1>1. PICK method, b :
            /\ Next0(g, method, b)
            /\ \/ method \in {"llsc", "casp", "cas"} /\ b \in {"ldxp", "ldp low", "ldar low"}
               \/ method \in {"ldadd", "swp"} /\ b \in {"ldadd low", "swpa"}
    BY DEF Begin
  <1>2. /\ guest[g].at = "next" /\ done[g] < Iterations /\ SetsAt(g, b)
        /\ mem' = mem /\ lock' = lock /\ monitor' = monitor /\ done' = done /\ torn' = torn
        /\ exposed' = exposed \cup Exposes(g, method)
        /\ \A h \in Below(g) : guest[h].at \in Callback
    BY <1>1 DEF Next0, At, Go, SetsAt
  <1>3. PICK r : r = Rec(b, guest[g].low, guest[g].high, guest[g].rs)
    OBVIOUS
  <1>4. r \in Record /\ r.at = b
    <2>1. b \in Places
      BY <1>1 DEF Places, LlscPlaces, CaspPlaces, CasPlaces, Unmonitored
    <2>2. QED
      BY <1>3, <2>1, Registered DEF Record, Rec, Runs
  <1>5. /\ guest' \in [Guests -> Record] /\ guest'[g] = r
        /\ \A h \in Guests \ {g} : guest'[h] = guest[h]
    <2>1. guest' = [guest EXCEPT ![g] = r]
      BY <1>2, <1>3, SetRegisters DEF Becomes, Runs, Typed
    <2>2. QED
      BY <1>4, <2>1 DEF Runs, Typed, GuestTyped
  <1>6. HistoryTyped' /\ History(g)
    BY <1>2 DEF HistoryTyped, History, Exposes, Below, Runs, Typed
  <1>7. Typed' /\ Others(g) /\ Disturbs(g)
    BY <1>2, <1>5, <1>6
    DEF Runs, Typed, MemTyped, LockTyped, MonitorTyped, GuestTyped, DoneTyped, Others, Disturbs
  <1>8. Own(g)'
    <2>1. FitsThen(g)
      BY <1>1, <1>4, <1>5
      DEF FitsThen, Fits, LowRead, HighRead, HalfWritten, Open, ReleasedPlaces
    <2>2. Begun(g)'
      BY <1>2 DEF Begun
    <2>3. QED
      BY <2>1, <2>2, FitsOwn
  <1>9. Starts(g)
    <2> SUFFICES ASSUME NEW h \in Below(g) PROVE Waits(h, g)'
      BY <1>2 DEF Starts
    <2>1. h \in Guests \ {g} /\ guest'[h] = guest[h]
      BY <1>5, ExclusiveAssumption DEF Below
    <2>2. guest'[h].at \in Callback
      BY <1>2, <2>1
    <2>3. guest'[h].at \in HalfWritten => h \in exposed'
      BY <1>2, <2>1 DEF Exposes
    <2>4. guest'[h].at \in Open /\ guest'[g].at \in Unmonitored => h \in exposed'
      <3> SUFFICES ASSUME guest'[h].at \in Open, guest'[g].at \in Unmonitored
                   PROVE  h \in exposed'
        OBVIOUS
      <3>1. b \in Unmonitored
        BY <1>4, <1>5
      <3>2. method \in {"ldadd", "swp"}
        BY <1>1, <3>1 DEF Unmonitored
      <3>3. h \in Exposes(g, method)
        BY <2>1, <3>2 DEF Exposes, Open
      <3>4. QED
        BY <1>2, <3>3
    <2>5. QED
      BY <2>2, <2>3, <2>4 DEF Waits
  <1>10. Grows(g)
    <2>1. /\ "next" \notin LowWritten /\ "next" \notin HighWritten
          /\ b \notin LowWritten /\ b \notin HighWritten
      BY <1>1 DEF LowWritten, HighWritten
    <2>2. Made(g, LowWritten)' = Made(g, LowWritten) /\ Made(g, HighWritten)' = Made(g, HighWritten)
      BY <1>2, <1>4, <1>5, <2>1 DEF Made
    <2>3. QED
      BY <1>2, <2>2 DEF Grows, GrowsBy
  <1>11. /\ SameKind(guest[g].at, guest'[g].at)
         /\ LeavesMark(guest[g].at, guest'[g].at, monitor[SimOf[g]], monitor'[SimOf[g]])
    BY <1>2 DEF SameKind, LeavesMark, Window
  <1>12. QED
    BY <1>6, <1>7, <1>8, <1>9, <1>10, <1>11 DEF Moves

LEMMA StepIsMove ==
    ASSUME OneSimulator, Typed, NEW g \in Guests, Own(g), Step(g)
    PROVE  Moves(g) /\ MayRun(g)
  <1>1. Runs(g) /\ MayRun(g)
    BY DEF Runs, Step
  <1>2. CASE Begin(g)
    BY <1>1, <1>2, BeginMoves
  <1>3. CASE LoadExclusive(g) \/ LoadExclusiveHigh(g) \/ OtherAccess(g)
    BY <1>1, <1>3, LoadExclusiveMoves, LoadExclusiveHighMoves, OtherAccessMoves
  <1>4. CASE StoreExclusive(g) \/ Unlock(g) \/ StoreOrdinary(g)
    BY <1>1, <1>4, StoreExclusiveMoves, UnlockMoves, StoreOrdinaryMoves
  <1>5. CASE CompareLow(g) \/ CompareHigh(g) \/ CompareAndSwap(g)
    BY <1>1, <1>5, CompareLowMoves, CompareHighMoves, CompareAndSwapMoves
  <1>6. CASE SwapRead(g) \/ SwapWrite(g)
    BY <1>1, <1>6, SwapMoves
  <1>7. CASE \/ AtomicRead(g) \/ LoadPair(g) \/ LoadOrdinary(g)
             \/ LoadAcquire(g, FALSE) \/ LoadAcquireRCpcHelper(g)
    BY <1>1, <1>7, LoadsMove
  <1>8. CASE \/ StoreExclusiveHigh(g) \/ AtomicWrite(g) \/ SwapLow(g) \/ SwapHigh(g)
             \/ CompareAndSwapWrite(g)
    BY <1>1, <1>8, WritesMove
  <1>9. QED
    BY <1>1, <1>2, <1>3, <1>4, <1>5, <1>6, <1>7, <1>8
    DEF Step, VisitLoadStoreExclusive, VisitAtomicMemory

-----------------------------------------------------------------------------
(***************************************************************************)
(* The other guests wait meanwhile.                                        *)
(***************************************************************************)
LEMMA Ordered ==
    ASSUME OneSimulator, NEW g \in Guests, NEW h \in Guests, g # h
    PROVE  /\ g \in Above(h) \/ g \in Below(h)
           /\ g \in Above(h) <=> h \in Below(g)
           /\ ~(g \in Above(h) /\ g \in Below(h))
  <1>1. Level[g] \in Nat /\ Level[h] \in Nat /\ SimOf[g] = SimOf[h] /\ Level[g] # Level[h]
    BY ExclusiveAssumption DEF OneSimulator
  <1>2. QED
    BY <1>1 DEF Above, Below

\* A guest below the one that moves waits for it, before the step or after it.
LEMMA BelowWaits ==
    ASSUME RunsAlone, NEW g \in Guests, Moves(g), NEW h \in Below(g), h \in Guests \ {g},
           guest'[g].at # "next"
    PROVE  Waits(h, g)'
  <1>1. CASE At(g, "next")
    BY <1>1 DEF Moves, Starts
  <1>2. CASE ~At(g, "next")
    <2>1. Waits(h, g)
      BY <1>2 DEF RunsAlone
    <2>2. guest'[h] = guest[h] /\ (h \in exposed => h \in exposed')
      BY DEF Moves, Others, History
    <2>3. guest'[g].at \in Unmonitored => guest[g].at \in Unmonitored
      BY <1>2 DEF Moves, SameKind, At
    <2>4. QED
      BY <2>1, <2>2, <2>3 DEF Waits
  <1>3. QED
    BY <1>1, <1>2

\* A guest below finds the monitor marked for itself only as it was before.
LEMMA MarkKept ==
    ASSUME OneSimulator, NEW g \in Guests, MayRun(g), Moves(g),
           NEW h \in Below(g), h \in Guests \ {g}, Marked(h)'
    PROVE  Marked(h)
  <1>1. SimOf[h] = SimOf[g] /\ g \in Above(h)
    BY Ordered DEF OneSimulator
  <1>2. monitor'[SimOf[g]] = Pair /\ guest'[g].at \notin Window
    BY <1>1 DEF Marked
  <1>3. monitor[SimOf[g]] = Pair /\ guest[g].at \notin Window
    BY <1>2 DEF Moves, LeavesMark
  <1>4. ASSUME NEW a \in Above(h) PROVE guest[a].at \notin Window
    <2>1. CASE a = g
      BY <1>3, <2>1
    <2>2. CASE a # g
      <3>1. a \in Guests /\ guest'[a] = guest[a]
        BY <2>2 DEF Above, Moves, Others
      <3>2. guest'[a].at \notin Window
        BY DEF Marked
      <3>3. QED
        BY <3>1, <3>2
    <2>3. QED
      BY <2>1, <2>2
  <1>5. QED
    BY <1>1, <1>3, <1>4 DEF Marked

LEMMA OthersOwn ==
    ASSUME OneSimulator, RunsAlone, NEW g \in Guests, MayRun(g), Moves(g),
           NEW h \in Guests \ {g}, Own(h)
    PROVE  Own(h)'
  <1>1. guest'[h] = guest[h] /\ done'[h] = done[h] /\ (h \in exposed => h \in exposed')
    BY DEF Moves, Others, History
  <1>2. Begun(h)'
    BY <1>1 DEF Own, Begun, At
  <1>3. CASE At(h, "next")
    <2>1. guest'[h].at = "next"
      BY <1>1, <1>3 DEF At
    <2>2. Coherent(h)' /\ Released(h)'
      BY <2>1 DEF Coherent, Released, LowRead, HighRead, HalfWritten, Open, ReleasedPlaces
    <2>3. QED
      BY <1>2, <2>2 DEF Own
  <1>4. CASE ~At(h, "next")
    <2>1. h \notin Above(g)
      BY <1>4 DEF MayRun
    <2>2. h \in Below(g)
      BY <2>1, Ordered
    <2>3. /\ guest[h].at \in Callback
          /\ mem' # mem /\ guest[h].at \in HalfWritten => h \in exposed'
          /\ mem' # mem /\ guest[h].at \in Open /\ guest[g].at \in Unmonitored => h \in exposed'
      <3>1. CASE At(g, "next")
        <4>1. mem' = mem /\ Waits(h, g)'
          BY <2>2, <3>1 DEF Moves, Starts
        <4>2. QED
          BY <1>1, <4>1 DEF Waits
      <3>2. CASE ~At(g, "next")
        <4>1. Waits(h, g)
          BY <2>2, <3>2 DEF RunsAlone
        <4>2. QED
          BY <1>1, <4>1 DEF Waits
      <3>3. QED
        BY <3>1, <3>2
    <2>4. guest[h].at \notin LowRead \cup HighRead \cup {"casp high"}
      BY <2>3 DEF Callback, AtBranch, AfterWrite, HalfWritten, LowRead, HighRead
    <2>5. Marked(h)' => Marked(h)
      BY <2>2, MarkKept
    <2>6. Released(h)'
      BY <1>1, <2>5 DEF Own, Released
    <2>7. guest[h].at \in HalfWritten /\ h \notin exposed' => guest[h].high = mem'[2]
      <3> SUFFICES ASSUME guest[h].at \in HalfWritten, h \notin exposed'
                   PROVE  guest[h].high = mem'[2]
        OBVIOUS
      <3>1. mem' = mem /\ h \notin exposed
        BY <1>1, <2>3
      <3>2. QED
        BY <3>1 DEF Own, Coherent
    <2>8. guest[h].at \in Open /\ Marked(h)' /\ h \notin exposed' =>
             guest[h].low = mem'[1] /\ guest[h].high = mem'[2]
      <3> SUFFICES ASSUME guest[h].at \in Open, Marked(h)', h \notin exposed'
                   PROVE  guest[h].low = mem'[1] /\ guest[h].high = mem'[2]
        OBVIOUS
      <3>1. monitor'[SimOf[g]] # Cleared
        BY DEF Marked, OneSimulator, Cleared, Pair
      <3>2. mem' = mem
        BY <2>3, <3>1 DEF Moves, Disturbs
      <3>3. QED
        BY <1>1, <2>5, <3>2 DEF Own, Coherent
    <2>9. Coherent(h)'
      BY <1>1, <2>4, <2>7, <2>8 DEF Coherent
    <2>10. QED
      BY <1>2, <2>6, <2>9 DEF Own
  <1>5. QED
    BY <1>3, <1>4

LEMMA AloneKept ==
    ASSUME OneSimulator, RunsAlone, NEW g \in Guests, MayRun(g), Moves(g)
    PROVE  RunsAlone'
  <1> SUFFICES ASSUME NEW a \in Guests, guest'[a].at # "next", NEW h \in Below(a)
               PROVE  Waits(h, a)'
    BY DEF RunsAlone, At, Below
  <1>1. h \in Guests \ {a}
    BY ExclusiveAssumption DEF Below
  <1>2. CASE a = g
    BY <1>1, <1>2, BelowWaits
  <1>3. CASE a # g
    <2>1. guest'[a] = guest[a] /\ ~At(a, "next")
      BY <1>3 DEF Moves, Others, At
    <2>2. a \notin Above(g)
      BY <2>1 DEF MayRun
    <2>3. a \in Below(g)
      BY <1>3, <2>2, Ordered
    <2>4. h # g
      <3>1. Level[a] \in Nat /\ Level[g] \in Nat /\ Level[h] \in Nat
        BY <1>1, ExclusiveAssumption
      <3>2. QED
        BY <2>3, <3>1 DEF Below
    <2>5. guest'[h] = guest[h] /\ (h \in exposed => h \in exposed')
      BY <1>1, <2>4 DEF Moves, Others, History
    <2>6. Waits(h, a)
      BY <2>1 DEF RunsAlone
    <2>7. QED
      BY <2>1, <2>5, <2>6 DEF Waits
  <1>4. QED
    BY <1>2, <1>3

MadeTyped == lows \in [Guests -> 0 .. Iterations] /\ highs \in [Guests -> 0 .. Iterations]

LEMMA MadeType == Typed /\ AllOwn => MadeTyped
  <1> SUFFICES ASSUME Typed, AllOwn PROVE MadeTyped
    OBVIOUS
  <1>1. ASSUME NEW g \in Guests
        PROVE  Made(g, LowWritten) \in 0 .. Iterations
               /\ Made(g, HighWritten) \in 0 .. Iterations
    <2>1. done[g] \in 0 .. Iterations /\ Iterations \in Nat
      BY ExclusiveAssumption DEF Typed, DoneTyped
    <2>2. guest[g].at \in LowWritten \/ guest[g].at \in HighWritten => done[g] < Iterations
      BY DEF AllOwn, Own, Begun, At, LowWritten, HighWritten
    <2>3. QED
      BY <2>1, <2>2 DEF Made
  <1>2. QED
    BY <1>1 DEF lows, highs, MadeTyped

LEMMA MadeTypeNext == Typed' /\ AllOwn' => MadeTyped'
  BY MadeType, PTL

LEMMA CountedKept ==
    ASSUME Typed, AllOwn, Typed', AllOwn', NEW h \in Guests, Moves(h), Counted
    PROVE  Counted'
  <1> SUFFICES ASSUME torn' = {} PROVE mem'[1] = Tally(lows') /\ mem'[2] = Tally(highs')
    BY DEF Counted
  <1>0. mem[1] = Tally(lows) /\ mem[2] = Tally(highs)
    <2>1. torn = {}
      BY DEF Moves, History
    <2>2. QED
      BY <2>1 DEF Counted
  <1>1. lows \in [Guests -> 0 .. Iterations] /\ highs \in [Guests -> 0 .. Iterations]
    BY MadeType DEF MadeTyped
  <1>2. lows' \in [Guests -> 0 .. Iterations] /\ highs' \in [Guests -> 0 .. Iterations]
    BY MadeTypeNext DEF MadeTyped
  <1>3. ASSUME NEW g \in Guests \ {h} PROVE lows'[g] = lows[g] /\ highs'[g] = highs[g]
    BY <1>3 DEF Moves, Others, lows, highs, Made
  <1>4. /\ GrowsBy(lows[h], lows'[h], mem[1], mem'[1])
        /\ GrowsBy(highs[h], highs'[h], mem[2], mem'[2])
    BY DEF Moves, Grows, lows, highs
  <1>5. ASSUME NEW f \in [Guests -> 0 .. Iterations], NEW k \in [Guests -> 0 .. Iterations],
               \A g \in Guests \ {h} : k[g] = f[g], NEW x, NEW y,
               GrowsBy(f[h], k[h], x, y), x = Tally(f)
        PROVE  y = Tally(k)
    <2>1. CASE k[h] = f[h] /\ y = x
      <3>1. k = f
        BY <1>5, <2>1
      <3>2. QED
        BY <1>5, <2>1, <3>1
    <2>2. CASE k[h] = f[h] + 1 /\ y = x + 1
      <3>1. f[h] < Iterations
        BY <2>2, ExclusiveAssumption
      <3>2. k = [f EXCEPT ![h] = f[h] + 1]
        BY <1>5, <2>2
      <3>3. QED
        BY <1>5, <2>2, <3>1, <3>2, TallyAdds
    <2>3. QED
      BY <1>5, <2>1, <2>2 DEF GrowsBy
  <1>6. mem'[1] = Tally(lows')
    BY <1>0, <1>1, <1>2, <1>3, <1>4, <1>5
  <1>7. mem'[2] = Tally(highs')
    BY <1>0, <1>1, <1>2, <1>3, <1>4, <1>5
  <1>8. QED
    BY <1>6, <1>7

LEMMA AccessStep ==
    ASSUME OneSimulator, AccessInv, [Next]_exVars
    PROVE  AccessInv'
  <1>1. CASE UNCHANGED exVars
    <2>1. /\ mem' = mem /\ lock' = lock /\ monitor' = monitor
          /\ guest' = guest /\ done' = done /\ exposed' = exposed /\ torn' = torn
      BY <1>1 DEF exVars
    <2>2. Typed' /\ RunsAlone'
      BY <2>1 DEF AccessInv, Typed, MemTyped, LockTyped, MonitorTyped, GuestTyped, DoneTyped,
                  HistoryTyped, RunsAlone, Waits, At
    <2>3. AllOwn'
      BY <2>1 DEF AccessInv, AllOwn, Own, Coherent, Released, Begun, Marked, At
    <2>4. Counted'
      BY <2>1 DEF AccessInv, Counted, lows, highs, Made
    <2>5. QED
      BY <2>2, <2>3, <2>4 DEF AccessInv
  <1>2. ASSUME NEW h \in Guests, Step(h) PROVE AccessInv'
    <2>1. Moves(h) /\ MayRun(h)
      BY <1>2, StepIsMove DEF AccessInv, AllOwn, Step
    <2>2. Typed' /\ Own(h)'
      BY <2>1 DEF Moves
    <2>3. RunsAlone'
      BY <2>1, AloneKept DEF AccessInv
    <2>4. AllOwn'
      <3> SUFFICES ASSUME NEW g \in Guests PROVE Own(g)'
        BY DEF AllOwn
      <3>1. CASE g = h
        BY <2>2, <3>1
      <3>2. CASE g # h
        BY <2>1, <3>2, OthersOwn DEF AccessInv, AllOwn
      <3>3. QED
        BY <3>1, <3>2
    <2>5. Counted'
      BY <2>1, <2>2, <2>4, CountedKept DEF AccessInv
    <2>6. QED
      BY <2>2, <2>3, <2>4, <2>5 DEF AccessInv
  <1>3. QED
    BY <1>1, <1>2 DEF Next, Finished

LEMMA AccessInit == ASSUME Init PROVE AccessInv
  <1>1. /\ mem[1] = 0 /\ mem[2] = 0 /\ MemTyped
        /\ \A g \in Guests : guest[g] = Fresh /\ done[g] = 0
    BY DEF Init, MemTyped
  <1>2. Typed
    BY <1>1, FreshType, ExclusiveAssumption
    DEF Init, Typed, LockTyped, MonitorTyped, GuestTyped, DoneTyped, HistoryTyped
  <1>3. RunsAlone
    BY <1>1, FreshType, ExclusiveAssumption DEF RunsAlone, At
  <1>4. AllOwn
    BY <1>1, FreshType
    DEF AllOwn, Own, Coherent, Released, Begun, At, LowRead, HighRead, HalfWritten, Open,
        ReleasedPlaces
  <1>5. Counted
    <2>1. lows = [g \in Guests |-> 0] /\ highs = [g \in Guests |-> 0]
      <3>1. "next" \notin LowWritten /\ "next" \notin HighWritten
        BY DEF LowWritten, HighWritten
      <3>2. ASSUME NEW g \in Guests
            PROVE  Made(g, LowWritten) = 0 /\ Made(g, HighWritten) = 0
        BY <1>1, <3>1, FreshType DEF Made
      <3>3. QED
        BY <3>2 DEF lows, highs
    <2>2. Tally([g \in Guests |-> 0]) = 0
      <3>1. {i \in Guests \X (1 .. Iterations) : i[2] <= [g \in Guests |-> 0][i[1]]} = {}
        BY ExclusiveAssumption
      <3>2. QED
        BY <3>1, FS_EmptySet DEF Tally
    <2>3. QED
      BY <1>1, <2>1, <2>2 DEF Counted
  <1>6. QED
    BY <1>2, <1>3, <1>4, <1>5 DEF AccessInv

\* On one Simulator the invariant holds throughout: a callback's guest runs
\* while those below it wait, what registers and monitor say of the memory is
\* so, and the words hold the increments written to them.
THEOREM AccessInvariant ==
    ASSUME OneSimulator
    PROVE  Spec => []AccessInv
  <1>1. Init => AccessInv
    BY AccessInit
  <1>2. AccessInv /\ [Next]_exVars => AccessInv'
    BY AccessStep
  <1>3. QED
    BY <1>1, <1>2, PTL DEF Spec

\* For any number of guests, any depth of callbacks, any choice of sequences and
\* any number of iterations no update of either word is lost or made twice,
\* unless an exposed sequence has written: whenever no sequence is under way,
\* both words hold the number of completed ones.
THEOREM NoUpdateLost ==
    ASSUME OneSimulator
    PROVE  Spec => []NoLostUpdate
  <1>1. ASSUME AccessInv PROVE NoLostUpdate
    <2>1. TypeOK
      BY <1>1 DEF AccessInv, Typed, MemTyped, LockTyped, MonitorTyped, GuestTyped, DoneTyped,
                  HistoryTyped, TypeOK, Record
    <2>2. ASSUME \A g \in Guests : At(g, "next"), torn = {} PROVE mem = <<Total, Total>>
      <3>1. lows = done /\ highs = done
        <4>1. ASSUME NEW g \in Guests
              PROVE  Made(g, LowWritten) = done[g] /\ Made(g, HighWritten) = done[g]
          <5>1. done[g] \in Nat
            BY <1>1, ExclusiveAssumption DEF AccessInv, Typed, DoneTyped
          <5>2. guest[g].at \notin LowWritten /\ guest[g].at \notin HighWritten
            BY <2>2 DEF At, LowWritten, HighWritten
          <5>3. QED
            BY <5>1, <5>2 DEF Made
        <4>2. QED
          BY <1>1, <4>1 DEF lows, highs, AccessInv, Typed, DoneTyped
      <3>2. mem[1] = Total /\ mem[2] = Total
        BY <1>1, <2>2, <3>1 DEF AccessInv, Counted, Total
      <3>3. QED
        BY <1>1, <3>2 DEF AccessInv, Typed, MemTyped
    <2>3. QED
      BY <2>1, <2>2 DEF NoLostUpdate
  <1>2. QED
    BY <1>1, AccessInvariant, PTL

\* A store exclusive that goes on to its second write has found the mark.
LEMMA AtStore ==
    ASSUME NEW g \in Guests, Step(g), guest[g].at = "stxp", GuestTyped,
           guest'[g].at = "stxp high"
    PROVE  monitor[SimOf[g]] = Pair
  <1>1. StoreExclusive(g)
    BY DEF Step, Begin, Next0, VisitLoadStoreExclusive, VisitAtomicMemory, LoadExclusive,
           LoadExclusiveHigh, StoreExclusiveHigh, LoadAcquire, Unlock, CompareAndSwap,
           CompareAndSwapWrite, CompareLow, CompareHigh, SwapLow, SwapHigh, AtomicRead,
           AtomicWrite, SwapRead, SwapWrite, LoadAcquireRCpcHelper, OtherAccess, LoadPair,
           LoadOrdinary, StoreOrdinary, ReadLow, ReadHigh, WriteLow, WriteHigh, At
  <1>2. guest' # [guest EXCEPT ![g].at = "ldxp", ![g].rs = 1]
    <2> SUFFICES ASSUME SetsRs(g, "ldxp", 1) PROVE FALSE
      BY DEF SetsRs
    <2>1. Becomes(g, Rec("ldxp", guest[g].low, guest[g].high, 1))
      BY SetRegisters
    <2>2. guest'[g] = Rec("ldxp", guest[g].low, guest[g].high, 1)
      BY <2>1 DEF Becomes, GuestTyped
    <2>3. QED
      BY <2>2 DEF Rec
  <1>3. QED
    BY <1>1, <1>2 DEF StoreExclusive, IsExclusive

Replaces(g) ==
    guest'[g].at # guest[g].at =>
       /\ guest[g].at \in {"add low", "str low", "cas write"} => mem[1] = guest[g].low
       /\ guest[g].at \in {"add high", "str high", "cas write high"} => mem[2] = guest[g].high
       /\ guest[g].at = "casp write" => mem = <<guest[g].low, guest[g].high>>
       /\ guest[g].at = "stxp" /\ guest'[g].at = "stxp high" /\ g \notin exposed =>
             mem = <<guest[g].low, guest[g].high>>
       /\ guest[g].at \in HalfWritten /\ g \notin exposed => mem[2] = guest[g].high

\* On one Simulator every write of a sequence, of either half of a pair too,
\* replaces what the sequence has read, whatever the callbacks in between have
\* done, unless they have exposed a store exclusive or a compare-and-swap pair.
THEOREM ReplacesOnlyRead ==
    ASSUME OneSimulator
    PROVE  Spec => ReplacesWhatWasRead
  <1>1. ASSUME AccessInv, [Next]_exVars
        PROVE  [\A g \in Guests : Replaces(g)]_exVars
    <2> SUFFICES ASSUME NEW h \in Guests, Step(h), NEW g \in Guests,
                        guest'[g].at # guest[g].at
                 PROVE  Replaces(g)
      BY <1>1 DEF Next, Finished, Replaces
    <2>1. g = h
      BY <1>1, StepIsMove DEF AccessInv, AllOwn, Moves, Others
    <2>2. MayRun(g) /\ Own(g) /\ MemTyped /\ GuestTyped
      BY <1>1, <2>1 DEF AccessInv, AllOwn, Typed, Step
    <2>3. FitsNow(g)
      BY <2>2, OwnFits
    <2>4. ASSUME guest[g].low = mem[1], guest[g].high = mem[2]
          PROVE  mem = <<guest[g].low, guest[g].high>>
      BY <2>2, <2>4 DEF MemTyped
    <2>5. guest[g].at \in {"add low", "str low", "cas write"} => mem[1] = guest[g].low
      BY <2>3 DEF FitsNow, Fits, LowRead
    <2>6. guest[g].at \in {"add high", "str high", "cas write high"} => mem[2] = guest[g].high
      BY <2>3 DEF FitsNow, Fits, HighRead
    <2>7. guest[g].at = "casp write" => mem = <<guest[g].low, guest[g].high>>
      BY <2>3, <2>4 DEF FitsNow, Fits, LowRead, HighRead
    <2>8. guest[g].at = "stxp" /\ guest'[g].at = "stxp high" /\ g \notin exposed =>
             mem = <<guest[g].low, guest[g].high>>
      <3> SUFFICES ASSUME guest[g].at = "stxp", guest'[g].at = "stxp high", g \notin exposed
                   PROVE  mem = <<guest[g].low, guest[g].high>>
        OBVIOUS
      <3>1. monitor[SimOf[g]] = Pair
        BY <2>1, <2>2, AtStore
      <3>2. guest[g].low = mem[1] /\ guest[g].high = mem[2]
        BY <2>3, <3>1 DEF FitsNow, Fits, Open
      <3>3. QED
        BY <2>4, <3>2
    <2>9. guest[g].at \in HalfWritten /\ g \notin exposed => mem[2] = guest[g].high
      BY <2>3 DEF FitsNow, Fits
    <2>10. QED
      BY <2>5, <2>6, <2>7, <2>8, <2>9 DEF Replaces
  <1>2. QED
    BY <1>1, AccessInvariant, PTL DEF Spec, ReplacesWhatWasRead, Replaces
=============================================================================
