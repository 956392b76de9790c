----------------------------- MODULE FlowProofs -----------------------------
(***************************************************************************)
(* Proofs about OrderFlow: that every fill of the exchange reaches its      *)
(* order exactly once, that the OMS and the exchange agree when no report   *)
(* is under way, and that the positions are the sum of the fills, however   *)
(* requests, reports and repeated reports interleave.                      *)
(***************************************************************************)
EXTENDS OrderFlow, HandlerProofs, ExchangeProofs

(* What the exchange reports of an order the gateway took: never NewReject. *)
ReportTypes == {"NewAck", "PartialFill", "Fill", "CancelAck", "CancelReject"}

(* The types of a report. *)
ReportRecord ==
    [client : Nat \ {0}, exch : Nat \ {0}, type : ReportTypes, symbol : Symbols, side : Sides,
     price : Nat, last : Nat, cumulative : Nat, leaves : Nat]

(* The places of the reports of order x in the sequence T, those of its fills *)
(* up to place k, and what these fills add up to.                          *)
ReportsOf(T, x) == {k \in 1 .. Len(T) : T[k].exch = x}
(* The fills of order x among the first k reports, their quantities and sum. *)
FillsUpTo(T, x, k) == {j \in DOMAIN T : j <= k /\ IsFill(T[j]) /\ T[j].exch = x}
Amount(T) == [k \in DOMAIN T |-> T[k].last]
UpTo(T, x, k) == SumFunctionOnSet(Amount(T), FillsUpTo(T, x, k))

(* The reports that end an order. *)
Ends == {"Fill", "CancelAck"}

(* A fill is one of its order. *)
FillAgrees(r, o) ==
    /\ r.last > 0 /\ r.price > 0 /\ r.cumulative + r.leaves = o.quantity
    /\ r.type = "Fill" <=> r.leaves = 0
    /\ r.symbol = o.symbol /\ r.side = o.side

(* The acknowledgement comes first, and is under way while the order waits    *)
(* for it.                                                                 *)
AckFirst(T, x, o) ==
    /\ \A k \in ReportsOf(T, x) : T[k].type = "NewAck" =>
          o.status = "PendingNew" /\ \A j \in ReportsOf(T, x) : k <= j
    /\ o.status = "PendingNew" => \E k \in ReportsOf(T, x) : T[k].type = "NewAck"
    /\ o.status # "PendingNew" => o.exchange_id = x

(* An order that is no longer live at the exchange is final in the OMS or its *)
(* final report is under way, and only refused cancels follow that report.   *)
EndsOnce(T, x, o, live) ==
    /\ \A k \in ReportsOf(T, x) : T[k].type \in Ends =>
          /\ ~live /\ ~is_terminal(o.status)
          /\ \A j \in ReportsOf(T, x) : k < j => T[j].type = "CancelReject"
    /\ \A k \in ReportsOf(T, x) : T[k].type = "CancelAck" => o.status = "PendingCancel"
    /\ \A k \in ReportsOf(T, x) : T[k].type = "CancelReject" =>
          is_terminal(o.status) \/ \E j \in ReportsOf(T, x) : j < k /\ T[j].type \in Ends
    /\ is_terminal(o.status) =>
          ~live /\ \A k \in ReportsOf(T, x) : T[k].type = "CancelReject"
    /\ ~live => is_terminal(o.status) \/ \E k \in ReportsOf(T, x) : T[k].type \in Ends

(* Each fill under way carries the sum of the fills up to it, and all of them  *)
(* are what the exchange has reported beyond what the OMS has booked.        *)
AddsUp(T, x, o, reported) ==
    /\ \A k \in ReportsOf(T, x) : IsFill(T[k]) =>
          FillAgrees(T[k], o) /\ T[k].cumulative = o.filled + UpTo(T, x, k)
    /\ reported = o.filled + UpTo(T, x, Len(T))

(* What the reports under way say of one order. *)
Tracks(T, x, o, reported, live) ==
    /\ o.status \in {"PendingNew", "Filled", "Canceled"} \cup Working
    /\ AckFirst(T, x, o) /\ EndsOnce(T, x, o, live) /\ AddsUp(T, x, o, reported)

(* The exchange order ids that can still trade. *)
LiveIds ==
    {r.order.exch : r \in Resting}
        \cup {x \in {work.exch} : work # Idle /\ work.remaining > 0}

(* The gateway takes the order. *)
Taken(id, o) == Gateway!valid_new_order(id, o)

(* Every order of the exchange is one of the OMS, and no two are the same;    *)
(* the OMS's other orders were refused by the gateway.                     *)
Named ==
    /\ \A x \in 1 .. Len(ledger) :
          LET id == ledger[x].client
          IN /\ id \in ClientIds /\ Taken(id, orders[id])
             /\ ledger[x].side = orders[id].side /\ ledger[x].quantity = orders[id].quantity
    /\ \A x, y \in 1 .. Len(ledger) : ledger[x].client = ledger[y].client => x = y
    /\ \A id \in ClientIds :
          (\A x \in 1 .. Len(ledger) : ledger[x].client # id) =>
              ~Taken(id, orders[id]) /\ orders[id].status = "PendingNew"

(* It stands at the exchange as the OMS has it. *)
SameTerms(o, symbol, side, price) == o.symbol = symbol /\ o.side = side /\ o.price = price
Terms ==
    /\ \A r \in Resting : SameTerms(orders[r.order.client], r.order.symbol, r.side, r.price)
    /\ work # Idle => SameTerms(orders[work.client], work.symbol, work.side, work.price)

(* The reports under way are well typed and of accepted orders. *)
Flight ==
    /\ wire \in Seq(ReportRecord) /\ batch \in Seq(ReportRecord)
    /\ work # Idle => batch # <<>>
    /\ \A k \in 1 .. Len(InTransit) :
          /\ InTransit[k].exch \in 1 .. Len(ledger)
          /\ InTransit[k].client = ledger[InTransit[k].exch].client

(* They track every order. *)
Tracked ==
    \A x \in 1 .. Len(ledger) :
        Tracks(InTransit, x, orders[ledger[x].client], ledger[x].reported, x \in LiveIds)

(* A delivered report would be refused: the OMS refuses it or its key is known. *)
Settled(r, o) ==
    /\ r.type = "NewAck" => o.status # "PendingNew"
    /\ IsFill(r) => r.cumulative <= o.filled
    /\ r.type \in {"CancelAck", "CancelReject"} => is_terminal(o.status)
Handled ==
    /\ \A r \in delivered :
          /\ r \in ReportRecord /\ r.exch \in 1 .. Len(ledger)
          /\ r.client = ledger[r.exch].client /\ Settled(r, orders[r.client])
          /\ IsFill(r) => report_key(r) \in seen_reports
    /\ seen_reports \subseteq {report_key(r) : r \in delivered}

(* Requests are numbered without gaps. *)
Numbered ==
    /\ next_sequence = Len(ledger) + cancels + 1 /\ cancels \in Nat

(* The inductive invariant. *)
FlowInv ==
    /\ OInv /\ PosInv /\ ExchangeInv /\ Room /\ Accounts
    /\ Named /\ Terms /\ Flight /\ Tracked /\ Handled /\ Numbered /\ PositionIsFills

-----------------------------------------------------------------------------
(* Sums over the fills under way.                                          *)

(* What the report in place k adds to them. *)
Share(T, x, k) == IF IsFill(T[k]) /\ T[k].exch = x THEN T[k].last ELSE 0

(* The sum is one of naturals over finitely many places. *)
LEMMA UpToFacts ==
    ASSUME NEW T \in Seq(ReportRecord), NEW x, NEW k
    PROVE  /\ IsFiniteSet(FillsUpTo(T, x, k)) /\ FillsUpTo(T, x, k) \subseteq 1 .. Len(T)
           /\ \A j \in 1 .. Len(T) :
                 T[j] \in ReportRecord /\ T[j].last \in Nat /\ Amount(T)[j] = T[j].last
           /\ UpTo(T, x, k) \in Nat
<1>1. DOMAIN T = 1 .. Len(T) /\ Len(T) \in Nat
  OBVIOUS
<1>2. FillsUpTo(T, x, k) \subseteq 1 .. Len(T)
  BY <1>1 DEF FillsUpTo
<1>3. IsFiniteSet(FillsUpTo(T, x, k))
  <2>1. IsFiniteSet(1 .. Len(T))
    BY <1>1, FS_Interval
  <2> QED
    BY <1>2, <2>1, FS_Subset
<1>4. \A j \in 1 .. Len(T) :
          T[j] \in ReportRecord /\ T[j].last \in Nat /\ Amount(T)[j] = T[j].last
  <2>1. \A j \in 1 .. Len(T) : T[j] \in ReportRecord
    BY <1>1
  <2>2. \A r \in ReportRecord : r.last \in Nat
    BY DEF ReportRecord
  <2>3. \A j \in 1 .. Len(T) : Amount(T)[j] = T[j].last
    BY <1>1 DEF Amount
  <2> QED
    BY <2>1, <2>2, <2>3
<1>5. UpTo(T, x, k) \in Nat
  <2>1. \A j \in FillsUpTo(T, x, k) : Amount(T)[j] \in Nat
    BY <1>2, <1>4
  <2> QED
    BY <1>3, <2>1, SumNat DEF UpTo
<1> QED
  BY <1>2, <1>3, <1>4, <1>5

(* No report, no fills. *)
LEMMA UpToNone ==
    ASSUME NEW T \in Seq(ReportRecord), NEW x
    PROVE  UpTo(T, x, 0) = 0
<1>1. FillsUpTo(T, x, 0) = {}
  BY DEF FillsUpTo
<1> QED
  BY <1>1, SumEmpty DEF UpTo

(* One report further. *)
LEMMA UpToNext ==
    ASSUME NEW T \in Seq(ReportRecord), NEW x, NEW k \in 0 .. (Len(T) - 1)
    PROVE  UpTo(T, x, k + 1) = UpTo(T, x, k) + Share(T, x, k + 1)
<1> DEFINE S == FillsUpTo(T, x, k)
           f == Amount(T)
<1>1. IsFiniteSet(S) /\ UpTo(T, x, k) \in Nat /\ \A j \in 1 .. Len(T) : f[j] \in Nat
  BY UpToFacts
<1>2. S \subseteq 1 .. Len(T)
  BY UpToFacts
<1>3. k + 1 \in 1 .. Len(T) /\ k + 1 \notin S /\ DOMAIN T = 1 .. Len(T)
  BY DEF FillsUpTo
<1>4. CASE IsFill(T[k + 1]) /\ T[k + 1].exch = x
  <2>1. FillsUpTo(T, x, k + 1) = S \cup {k + 1}
    BY <1>3, <1>4 DEF FillsUpTo
  <2>2. \A j \in S \cup {k + 1} : f[j] \in Int
    BY <1>1, <1>2, <1>3
  <2>3. SumFunctionOnSet(f, S \cup {k + 1}) = f[k + 1] + SumFunctionOnSet(f, S)
    <3> HIDE DEF f, S
    <3> QED
      BY <1>1, <1>3, <2>2, SumAdd
  <2>4. f[k + 1] = T[k + 1].last /\ f[k + 1] \in Nat
    BY <1>3, UpToFacts
  <2>5. UpTo(T, x, k + 1) = SumFunctionOnSet(f, S \cup {k + 1})
    BY <2>1 DEF UpTo
  <2>6. UpTo(T, x, k) = SumFunctionOnSet(f, S)
    BY DEF UpTo
  <2>7. Share(T, x, k + 1) = f[k + 1]
    BY <1>4, <2>4 DEF Share
  <2> HIDE DEF f, S
  <2> QED
    BY <1>1, <2>3, <2>4, <2>5, <2>6, <2>7
<1>5. CASE ~(IsFill(T[k + 1]) /\ T[k + 1].exch = x)
  <2>1. FillsUpTo(T, x, k + 1) = S
    BY <1>3, <1>5 DEF FillsUpTo
  <2> QED
    BY <1>1, <1>5, <2>1 DEF UpTo, Share
<1> QED
  BY <1>4, <1>5

(* Only the reports up to there matter. *)
LEMMA UpToAgree ==
    ASSUME NEW T \in Seq(ReportRecord), NEW U \in Seq(ReportRecord), NEW x,
           NEW k \in 0 .. Len(T), k <= Len(U), \A j \in 1 .. k : U[j] = T[j]
    PROVE  UpTo(U, x, k) = UpTo(T, x, k)
<1>1. FillsUpTo(U, x, k) = FillsUpTo(T, x, k)
  BY DEF FillsUpTo
<1>2. \A j \in FillsUpTo(T, x, k) : Amount(T)[j] = Amount(U)[j]
  BY DEF FillsUpTo, Amount
<1>3. IsFiniteSet(FillsUpTo(T, x, k))
  BY UpToFacts
<1> QED
  BY <1>1, <1>2, <1>3, SumAgree DEF UpTo

(* The sequence without its first report. *)
LEMMA TailFacts ==
    ASSUME NEW T \in Seq(ReportRecord), T # <<>>
    PROVE  /\ Tail(T) \in Seq(ReportRecord) /\ Len(Tail(T)) = Len(T) - 1
           /\ Len(T) \in Nat \ {0} /\ T[1] \in ReportRecord /\ Head(T) = T[1]
           /\ \A k \in 1 .. Len(T) - 1 : Tail(T)[k] = T[k + 1]
OBVIOUS

(* The sums shift by the first report's share. *)
LEMMA UpToTail ==
    ASSUME NEW T \in Seq(ReportRecord), T # <<>>, NEW x
    PROVE  \A k \in 0 .. (Len(T) - 1) : UpTo(T, x, k + 1) = Share(T, x, 1) + UpTo(Tail(T), x, k)
<1> DEFINE U == Tail(T)
           P(k) == k <= Len(T) - 1 => UpTo(T, x, k + 1) = Share(T, x, 1) + UpTo(U, x, k)
           I == {k \in Nat : P(k)}
<1>1. U \in Seq(ReportRecord) /\ Len(U) = Len(T) - 1 /\ Len(T) \in Nat \ {0}
      /\ \A k \in 1 .. Len(T) - 1 : U[k] = T[k + 1]
  BY TailFacts
<1> HIDE DEF U
<1>2. Share(T, x, 1) \in Nat
  BY <1>1, UpToFacts DEF Share
<1>3. 0 \in I
  <2>1. UpTo(T, x, 0) = 0 /\ UpTo(U, x, 0) = 0
    BY <1>1, UpToNone
  <2>2. UpTo(T, x, 0 + 1) = UpTo(T, x, 0) + Share(T, x, 0 + 1)
    BY <1>1, UpToNext
  <2> QED
    BY <1>2, <2>1, <2>2
<1>4. ASSUME NEW k \in Nat, k \in I PROVE k + 1 \in I
  <2>1. SUFFICES ASSUME k + 1 <= Len(T) - 1
                 PROVE  UpTo(T, x, (k + 1) + 1) = Share(T, x, 1) + UpTo(U, x, k + 1)
    OBVIOUS
  <2>2. UpTo(T, x, k + 1) = Share(T, x, 1) + UpTo(U, x, k)
    BY <1>1, <1>4, <2>1
  <2>3. UpTo(T, x, (k + 1) + 1) = UpTo(T, x, k + 1) + Share(T, x, (k + 1) + 1)
    BY <1>1, <2>1, UpToNext
  <2>4. UpTo(U, x, k + 1) = UpTo(U, x, k) + Share(U, x, k + 1)
    BY <1>1, <2>1, UpToNext
  <2>5. Share(U, x, k + 1) = Share(T, x, (k + 1) + 1) /\ Share(U, x, k + 1) \in Nat
    <3>1. k + 1 \in 1 .. Len(T) - 1 /\ k + 1 \in 1 .. Len(U)
      BY <1>1, <2>1
    <3>2. U[k + 1] = T[(k + 1) + 1]
      BY <1>1, <3>1
    <3>3. U[k + 1].last \in Nat
      BY <1>1, <3>1, UpToFacts
    <3> QED
      BY <3>2, <3>3 DEF Share
  <2>6. UpTo(U, x, k) \in Nat
    BY <1>1, UpToFacts
  <2> QED
    BY <1>2, <2>2, <2>3, <2>4, <2>5, <2>6
<1>5. \A k \in Nat : k \in I
  <2> HIDE DEF I
  <2> QED
    BY <1>3, <1>4, NatSetInduction
<1> QED
  BY <1>1, <1>5 DEF U

(* FilledInTransit is the sum over the whole sequence. *)
LEMMA TransitSum ==
    ASSUME InTransit \in Seq(ReportRecord), NEW x
    PROVE  FilledInTransit(x) = UpTo(InTransit, x, Len(InTransit))
<1>1. FillsUpTo(InTransit, x, Len(InTransit)) =
          {k \in DOMAIN InTransit : IsFill(InTransit[k]) /\ InTransit[k].exch = x}
  BY DEF FillsUpTo
<1> QED
  BY <1>1 DEF FilledInTransit, UpTo, Amount

-----------------------------------------------------------------------------
(* What a report that is added, or handled, changes for one order.         *)

(* U is T with one more report, seen from order x. *)
Longer(T, U, r, x) ==
    /\ U \in Seq(ReportRecord) /\ Len(U) = Len(T) + 1 /\ U[Len(U)] = r /\ Len(T) \in Nat
    /\ \A k \in 1 .. Len(T) : U[k] = T[k]
    /\ ReportsOf(U, x) = IF r.exch = x THEN ReportsOf(T, x) \cup {Len(U)} ELSE ReportsOf(T, x)
    /\ \A k \in ReportsOf(T, x) :
          k \in 1 .. Len(T) /\ U[k] = T[k] /\ UpTo(U, x, k) = UpTo(T, x, k)
    /\ UpTo(U, x, Len(U)) = UpTo(T, x, Len(T)) + Share(U, x, Len(U))

(* That is what Append makes. *)
LEMMA AppendReports ==
    ASSUME NEW T \in Seq(ReportRecord), NEW r \in ReportRecord, NEW x
    PROVE  Longer(T, Append(T, r), r, x)
<1> DEFINE U == Append(T, r)
<1>1. /\ U \in Seq(ReportRecord) /\ Len(U) = Len(T) + 1 /\ U[Len(U)] = r /\ Len(T) \in Nat
      /\ \A k \in 1 .. Len(T) : U[k] = T[k]
  OBVIOUS
<1> HIDE DEF U
<1>2. ReportsOf(U, x) = IF r.exch = x THEN ReportsOf(T, x) \cup {Len(U)} ELSE ReportsOf(T, x)
  BY <1>1 DEF ReportsOf
<1>3. ASSUME NEW k \in 0 .. Len(T) PROVE UpTo(U, x, k) = UpTo(T, x, k)
  <2>1. k <= Len(U) /\ \A j \in 1 .. k : U[j] = T[j]
    BY <1>1
  <2> QED
    BY <1>1, <2>1, UpToAgree
<1>4. UpTo(U, x, Len(U)) = UpTo(T, x, Len(T)) + Share(U, x, Len(U))
  <2>1. Len(T) \in 0 .. (Len(U) - 1)
    BY <1>1
  <2>2. UpTo(U, x, Len(T) + 1) = UpTo(U, x, Len(T)) + Share(U, x, Len(T) + 1)
    BY <1>1, <2>1, UpToNext
  <2>3. UpTo(U, x, Len(T)) = UpTo(T, x, Len(T))
    BY <1>1, <1>3
  <2> QED
    BY <1>1, <2>2, <2>3
<1>5. ASSUME NEW k \in ReportsOf(T, x) PROVE k \in 1 .. Len(T)
  BY DEF ReportsOf
<1>6. Longer(T, U, r, x)
  BY <1>1, <1>2, <1>3, <1>4, <1>5 DEF Longer
<1> QED
  BY <1>6 DEF U

(* Only the order's own reports matter. *)
LEMMA TracksSame ==
    ASSUME NEW T, NEW U, NEW x, NEW o, NEW reported, NEW live,
           ReportsOf(U, x) = ReportsOf(T, x),
           \A k \in ReportsOf(T, x) : U[k] = T[k] /\ UpTo(U, x, k) = UpTo(T, x, k),
           UpTo(U, x, Len(U)) = UpTo(T, x, Len(T)),
           Tracks(T, x, o, reported, live)
    PROVE  Tracks(U, x, o, reported, live)
<1>1. AckFirst(U, x, o)
  BY DEF Tracks, AckFirst
<1>2. EndsOnce(U, x, o, live)
  BY DEF Tracks, EndsOnce
<1>3. AddsUp(U, x, o, reported)
  BY DEF Tracks, AddsUp
<1> QED
  BY <1>1, <1>2, <1>3 DEF Tracks

(* A report of another order is added. *)
LEMMA OtherAppended ==
    ASSUME NEW T \in Seq(ReportRecord), NEW r \in ReportRecord, NEW x, r.exch # x,
           NEW o, NEW reported, NEW live, Tracks(T, x, o, reported, live)
    PROVE  Tracks(Append(T, r), x, o, reported, live)
<1> DEFINE U == Append(T, r)
<1>1. Longer(T, U, r, x)
  BY AppendReports
<1> HIDE DEF U
<1>2. Share(U, x, Len(U)) = 0 /\ UpTo(T, x, Len(T)) \in Nat
  BY <1>1, UpToFacts DEF Longer, Share
<1>3. ReportsOf(U, x) = ReportsOf(T, x) /\ UpTo(U, x, Len(U)) = UpTo(T, x, Len(T))
  BY <1>1, <1>2 DEF Longer
<1>4. Tracks(U, x, o, reported, live)
  BY <1>1, <1>3, TracksSame DEF Longer
<1> QED
  BY <1>4 DEF U

(* A new order is acknowledged. *)
LEMMA AckAppended ==
    ASSUME NEW T \in Seq(ReportRecord), NEW r \in ReportRecord, NEW x, r.exch = x,
           r.type = "NewAck", \A k \in 1 .. Len(T) : T[k].exch # x,
           NEW o, o.status = "PendingNew", o.filled = 0
    PROVE  Tracks(Append(T, r), x, o, 0, TRUE)
<1> DEFINE U == Append(T, r)
<1>1. Longer(T, U, r, x)
  BY AppendReports
<1> HIDE DEF U
<1>2. ReportsOf(U, x) = {Len(U)}
  <2>1. ReportsOf(T, x) = {}
    BY DEF ReportsOf
  <2> QED
    BY <1>1, <2>1 DEF Longer
<1>3. UpTo(U, x, Len(U)) = 0
  <2>1. FillsUpTo(T, x, Len(T)) = {}
    BY DEF FillsUpTo
  <2>2. UpTo(T, x, Len(T)) = 0
    BY <2>1, SumEmpty DEF UpTo
  <2>3. Share(U, x, Len(U)) = 0
    BY <1>1 DEF Longer, Share, IsFill
  <2> QED
    BY <1>1, <2>2, <2>3 DEF Longer
<1>4. AckFirst(U, x, o)
  BY <1>1, <1>2 DEF Longer, AckFirst
<1>5. EndsOnce(U, x, o, TRUE)
  BY <1>1, <1>2 DEF Longer, EndsOnce, Ends, is_terminal
<1>6. AddsUp(U, x, o, 0)
  BY <1>1, <1>2, <1>3 DEF Longer, AddsUp, IsFill
<1>7. Tracks(U, x, o, 0, TRUE)
  BY <1>4, <1>5, <1>6 DEF Tracks
<1> QED
  BY <1>7 DEF U

(* A live order has no final report under way, and no refused cancel. *)
LEMMA LiveReports ==
    ASSUME NEW T, NEW x, NEW o, NEW reported, Tracks(T, x, o, reported, TRUE)
    PROVE  /\ ~is_terminal(o.status)
           /\ \A k \in ReportsOf(T, x) : T[k].type \notin Ends /\ T[k].type # "CancelReject"
BY DEF Tracks, EndsOnce

(* It fills, in part or to the end. *)
LEMMA FillAppended ==
    ASSUME NEW T \in Seq(ReportRecord), NEW r \in ReportRecord, NEW x, r.exch = x, IsFill(r),
           NEW o, NEW reported, o.filled \in Nat, Tracks(T, x, o, reported, TRUE),
           FillAgrees(r, o), r.cumulative = reported + r.last
    PROVE  Tracks(Append(T, r), x, o, reported + r.last, r.leaves # 0)
<1> DEFINE U == Append(T, r)
           n == Len(U)
<1>1. /\ U \in Seq(ReportRecord) /\ n = Len(T) + 1 /\ U[n] = r /\ Len(T) \in Nat
      /\ ReportsOf(U, x) = ReportsOf(T, x) \cup {n}
      /\ \A k \in ReportsOf(T, x) :
            k \in 1 .. Len(T) /\ U[k] = T[k] /\ UpTo(U, x, k) = UpTo(T, x, k)
      /\ UpTo(U, x, n) = UpTo(T, x, Len(T)) + Share(U, x, n)
  BY AppendReports DEF Longer
<1> HIDE DEF U, n
<1>2. UpTo(U, x, n) = UpTo(T, x, Len(T)) + r.last /\ UpTo(T, x, Len(T)) \in Nat /\ r.last \in Nat
  BY <1>1, UpToFacts DEF Share, ReportRecord
<1>3. reported = o.filled + UpTo(T, x, Len(T))
  BY DEF Tracks, AddsUp
<1>4. /\ ~is_terminal(o.status)
      /\ \A k \in ReportsOf(T, x) : T[k].type \notin Ends /\ T[k].type # "CancelReject"
  BY LiveReports
<1>5. AckFirst(U, x, o)
  <2>1. r.type # "NewAck"
    BY DEF IsFill
  <2>2. \A k \in ReportsOf(T, x) : k <= n
    BY <1>1
  <2> QED
    BY <1>1, <2>1, <2>2 DEF Tracks, AckFirst
<1>6. EndsOnce(U, x, o, r.leaves # 0)
  <2>1. r.type \in Ends <=> r.leaves = 0
    BY DEF IsFill, FillAgrees, Ends
  <2>2. r.type # "CancelAck" /\ r.type # "CancelReject"
    BY DEF IsFill
  <2>3. \A k \in ReportsOf(U, x) : ~(n < k)
    BY <1>1
  <2>4. \A k \in ReportsOf(T, x) : U[k].type \notin Ends /\ U[k].type # "CancelReject"
    BY <1>1, <1>4
  <2>5. \A k \in ReportsOf(T, x) : U[k].type # "CancelAck"
    BY <2>4 DEF Ends
  <2>6. n \in ReportsOf(U, x)
    BY <1>1
  <2> QED
    BY <1>1, <1>4, <2>1, <2>2, <2>3, <2>4, <2>5, <2>6 DEF EndsOnce
<1>7. AddsUp(U, x, o, reported + r.last)
  <2>1. r.cumulative = o.filled + UpTo(U, x, n)
    BY <1>2, <1>3
  <2>2. reported + r.last = o.filled + UpTo(U, x, Len(U))
    BY <1>2, <1>3 DEF n
  <2> QED
    BY <1>1, <2>1, <2>2 DEF Tracks, AddsUp
<1>8. Tracks(U, x, o, reported + r.last, r.leaves # 0)
  BY <1>5, <1>6, <1>7 DEF Tracks
<1> QED
  BY <1>8 DEF U

(* It is canceled. *)
LEMMA CancelAckAppended ==
    ASSUME NEW T \in Seq(ReportRecord), NEW r \in ReportRecord, NEW x, r.exch = x,
           r.type = "CancelAck",
           NEW o, NEW reported, Tracks(T, x, o, reported, TRUE), o.status = "PendingCancel"
    PROVE  Tracks(Append(T, r), x, o, reported, FALSE)
<1> DEFINE U == Append(T, r)
           n == Len(U)
<1>1. /\ U \in Seq(ReportRecord) /\ n = Len(T) + 1 /\ U[n] = r /\ Len(T) \in Nat
      /\ ReportsOf(U, x) = ReportsOf(T, x) \cup {n}
      /\ \A k \in ReportsOf(T, x) :
            k \in 1 .. Len(T) /\ U[k] = T[k] /\ UpTo(U, x, k) = UpTo(T, x, k)
      /\ UpTo(U, x, n) = UpTo(T, x, Len(T)) + Share(U, x, n)
  BY AppendReports DEF Longer
<1>2. UpTo(U, x, Len(U)) = UpTo(T, x, Len(T))
  <2>1. Share(U, x, n) = 0
    BY <1>1 DEF Share, IsFill
  <2>2. UpTo(T, x, Len(T)) \in Nat
    BY UpToFacts
  <2> HIDE DEF U
  <2> QED
    BY <1>1, <2>1, <2>2
<1> HIDE DEF U, n
<1>3. /\ ~is_terminal(o.status)
      /\ \A k \in ReportsOf(T, x) : T[k].type \notin Ends /\ T[k].type # "CancelReject"
  BY LiveReports
<1>4. AckFirst(U, x, o)
  <2>1. \A k \in ReportsOf(T, x) : k <= n
    BY <1>1
  <2> QED
    BY <1>1, <2>1 DEF Tracks, AckFirst
<1>5. EndsOnce(U, x, o, FALSE)
  <2>1. \A k \in ReportsOf(U, x) : ~(n < k)
    BY <1>1
  <2>2. \A k \in ReportsOf(T, x) : U[k].type \notin Ends /\ U[k].type # "CancelReject"
    BY <1>1, <1>3
  <2>3. U[n].type \in Ends /\ U[n].type # "CancelReject" /\ n \in ReportsOf(U, x)
    BY <1>1 DEF Ends
  <2> QED
    BY <1>1, <1>3, <2>1, <2>2, <2>3 DEF EndsOnce
<1>6. AddsUp(U, x, o, reported)
  <2>1. ~IsFill(U[n])
    BY <1>1 DEF IsFill
  <2> QED
    BY <1>1, <1>2, <2>1 DEF Tracks, AddsUp
<1>7. Tracks(U, x, o, reported, FALSE)
  BY <1>4, <1>5, <1>6 DEF Tracks
<1> QED
  BY <1>7 DEF U

(* A cancel comes too late for it. *)
LEMMA CancelRejectAppended ==
    ASSUME NEW T \in Seq(ReportRecord), NEW r \in ReportRecord, NEW x, r.exch = x,
           r.type = "CancelReject",
           NEW o, NEW reported, Tracks(T, x, o, reported, FALSE)
    PROVE  Tracks(Append(T, r), x, o, reported, FALSE)
<1> DEFINE U == Append(T, r)
           n == Len(U)
<1>1. /\ U \in Seq(ReportRecord) /\ n = Len(T) + 1 /\ U[n] = r /\ Len(T) \in Nat
      /\ ReportsOf(U, x) = ReportsOf(T, x) \cup {n}
      /\ \A k \in ReportsOf(T, x) :
            k \in 1 .. Len(T) /\ U[k] = T[k] /\ UpTo(U, x, k) = UpTo(T, x, k)
      /\ UpTo(U, x, n) = UpTo(T, x, Len(T)) + Share(U, x, n)
  BY AppendReports DEF Longer
<1>2. UpTo(U, x, Len(U)) = UpTo(T, x, Len(T))
  <2>1. Share(U, x, n) = 0
    BY <1>1 DEF Share, IsFill
  <2>2. UpTo(T, x, Len(T)) \in Nat
    BY UpToFacts
  <2> HIDE DEF U
  <2> QED
    BY <1>1, <2>1, <2>2
<1> HIDE DEF U, n
<1>3. \A k \in ReportsOf(T, x) : k < n
  BY <1>1
<1>4. U[n].type \notin Ends /\ U[n].type # "CancelAck" /\ U[n].type # "NewAck" /\ ~IsFill(U[n])
  BY <1>1 DEF Ends, IsFill
<1>5. AckFirst(U, x, o)
  <2>1. \A k \in ReportsOf(T, x) : k <= n
    BY <1>1
  <2> QED
    BY <1>1, <1>4, <2>1 DEF Tracks, AckFirst
<1>6. EndsOnce(U, x, o, FALSE)
  <2>1. is_terminal(o.status) \/ \E k \in ReportsOf(T, x) : T[k].type \in Ends
    BY DEF Tracks, EndsOnce
  <2>2. EndsOnce(T, x, o, FALSE)
    BY DEF Tracks
  <2>3. \A k \in ReportsOf(U, x) : U[k].type \in Ends =>
            k \in ReportsOf(T, x) /\ ~is_terminal(o.status)
    BY <1>1, <1>4, <2>2 DEF EndsOnce
  <2>4. \A k \in ReportsOf(U, x) : U[k].type \in Ends =>
            \A j \in ReportsOf(U, x) : k < j => U[j].type = "CancelReject"
    BY <1>1, <2>2, <2>3 DEF EndsOnce
  <2>5. \A k \in ReportsOf(U, x) : U[k].type = "CancelAck" => o.status = "PendingCancel"
    BY <1>1, <1>4, <2>2 DEF EndsOnce
  <2>6. ASSUME NEW k \in ReportsOf(U, x), U[k].type = "CancelReject", ~is_terminal(o.status)
        PROVE  \E j \in ReportsOf(U, x) : j < k /\ U[j].type \in Ends
    <3>1. CASE k = n
      BY <1>1, <1>3, <2>1, <2>6, <3>1
    <3>2. CASE k # n
      BY <1>1, <2>2, <2>6, <3>2 DEF EndsOnce
    <3> QED
      BY <3>1, <3>2
  <2>7. is_terminal(o.status) => \A k \in ReportsOf(U, x) : U[k].type = "CancelReject"
    BY <1>1, <2>2 DEF EndsOnce
  <2>8. is_terminal(o.status) \/ \E k \in ReportsOf(U, x) : U[k].type \in Ends
    BY <1>1, <2>1
  <2> QED
    BY <2>3, <2>4, <2>5, <2>6, <2>7, <2>8 DEF EndsOnce
<1>7. AddsUp(U, x, o, reported)
  BY <1>1, <1>2, <1>4 DEF Tracks, AddsUp
<1>8. Tracks(U, x, o, reported, FALSE)
  BY <1>5, <1>6, <1>7 DEF Tracks
<1> QED
  BY <1>8 DEF U

(* The order in other respects. *)
SameOrder(n, o) ==
    /\ n.symbol = o.symbol /\ n.side = o.side /\ n.price = o.price /\ n.quantity = o.quantity

(* A cancel is asked for. *)
LEMMA CancelRequested ==
    ASSUME NEW T, NEW x, NEW o, NEW n, NEW reported, NEW live,
           Tracks(T, x, o, reported, live), o.status \in {"Acked", "PartiallyFilled"},
           n.status = "PendingCancel", n.filled = o.filled, n.exchange_id = o.exchange_id,
           SameOrder(n, o)
    PROVE  Tracks(T, x, n, reported, live)
<1>1. AckFirst(T, x, n)
  BY DEF Tracks, AckFirst
<1>2. EndsOnce(T, x, n, live)
  BY DEF Tracks, EndsOnce, is_terminal
<1>3. AddsUp(T, x, n, reported)
  BY DEF Tracks, AddsUp, SameOrder, FillAgrees
<1> QED
  BY <1>1, <1>2, <1>3 DEF Tracks, Working

-----------------------------------------------------------------------------
(* U is T without its first report, seen from order x. *)
Shorter(T, U, x) ==
    /\ U \in Seq(ReportRecord) /\ Len(U) = Len(T) - 1 /\ Len(T) \in Nat \ {0}
    /\ \A k \in ReportsOf(U, x) :
          /\ k \in 1 .. Len(U) /\ k + 1 \in ReportsOf(T, x) /\ U[k] = T[k + 1]
          /\ UpTo(T, x, k + 1) = Share(T, x, 1) + UpTo(U, x, k) /\ UpTo(U, x, k) \in Nat
    /\ \A j \in ReportsOf(T, x) : j \in 1 .. Len(T)
    /\ \A j \in ReportsOf(T, x) : j # 1 =>
          j - 1 \in ReportsOf(U, x) /\ U[j - 1] = T[j] /\ j > 1
    /\ 1 \in ReportsOf(T, x) <=> T[1].exch = x
    /\ UpTo(T, x, Len(T)) = Share(T, x, 1) + UpTo(U, x, Len(U)) /\ UpTo(U, x, Len(U)) \in Nat
    /\ Share(T, x, 1) \in Nat

(* That is what Tail makes. *)
LEMMA TailReports ==
    ASSUME NEW T \in Seq(ReportRecord), T # <<>>, NEW x
    PROVE  Shorter(T, Tail(T), x)
<1> DEFINE U == Tail(T)
<1>1. /\ U \in Seq(ReportRecord) /\ Len(U) = Len(T) - 1 /\ Len(T) \in Nat \ {0}
      /\ \A k \in 1 .. Len(T) - 1 : U[k] = T[k + 1]
  BY TailFacts
<1>2. \A k \in 0 .. (Len(T) - 1) : UpTo(T, x, k + 1) = Share(T, x, 1) + UpTo(U, x, k)
  BY UpToTail
<1> HIDE DEF U
<1>3. \A k : UpTo(U, x, k) \in Nat
  BY <1>1, UpToFacts
<1>4. ASSUME NEW k \in ReportsOf(U, x)
      PROVE  k \in 1 .. Len(U) /\ k + 1 \in ReportsOf(T, x) /\ U[k] = T[k + 1]
  BY <1>1 DEF ReportsOf
<1>5. ASSUME NEW j \in ReportsOf(T, x), j # 1
      PROVE  j - 1 \in ReportsOf(U, x) /\ U[j - 1] = T[j] /\ j > 1
  <2>1. j \in 1 .. Len(T) /\ j - 1 \in 1 .. Len(T) - 1 /\ (j - 1) + 1 = j
    BY <1>1, <1>5 DEF ReportsOf
  <2>2. U[j - 1] = T[j]
    BY <1>1, <2>1
  <2> QED
    BY <1>1, <2>1, <2>2 DEF ReportsOf
<1>6. 1 \in ReportsOf(T, x) <=> T[1].exch = x
  BY <1>1 DEF ReportsOf
<1>7. Share(T, x, 1) \in Nat
  BY <1>1, UpToFacts DEF Share
<1>8. \A j \in ReportsOf(T, x) : j \in 1 .. Len(T)
  BY DEF ReportsOf
<1>9. UpTo(T, x, Len(T)) = Share(T, x, 1) + UpTo(U, x, Len(U))
  <2>1. Len(U) \in 0 .. (Len(T) - 1) /\ Len(U) + 1 = Len(T)
    BY <1>1
  <2> QED
    BY <1>2, <2>1
<1>10. \A k \in ReportsOf(U, x) : UpTo(T, x, k + 1) = Share(T, x, 1) + UpTo(U, x, k)
  BY <1>1, <1>2, <1>4
<1>11. Shorter(T, U, x)
  BY <1>1, <1>3, <1>4, <1>5, <1>6, <1>7, <1>8, <1>9, <1>10 DEF Shorter
<1> QED
  BY <1>11 DEF U

(* The first report is of another order. *)
LEMMA OtherHandled ==
    ASSUME NEW T \in Seq(ReportRecord), T # <<>>, NEW x, T[1].exch # x,
           NEW o, NEW reported, NEW live, Tracks(T, x, o, reported, live)
    PROVE  Tracks(Tail(T), x, o, reported, live)
<1> DEFINE U == Tail(T)
<1>1. Shorter(T, U, x)
  BY TailReports
<1> HIDE DEF U
<1>2. Share(T, x, 1) = 0
  BY DEF Share
<1>3. AckFirst(U, x, o)
  <2>1. AckFirst(T, x, o)
    BY DEF Tracks
  <2>2. ASSUME NEW k \in ReportsOf(U, x), U[k].type = "NewAck"
        PROVE  o.status = "PendingNew" /\ \A j \in ReportsOf(U, x) : k <= j
    <3>1. k + 1 \in ReportsOf(T, x) /\ T[k + 1].type = "NewAck"
      BY <1>1, <2>2 DEF Shorter
    <3>2. o.status = "PendingNew" /\ \A j \in ReportsOf(T, x) : k + 1 <= j
      BY <2>1, <3>1 DEF AckFirst
    <3>3. \A j \in ReportsOf(U, x) : j \in 1 .. Len(U) /\ j + 1 \in ReportsOf(T, x)
      BY <1>1 DEF Shorter
    <3>4. \A j \in ReportsOf(U, x) : j \in Int
      BY <3>3
    <3> QED
      BY <3>2, <3>3, <3>4
  <2>3. ASSUME o.status = "PendingNew" PROVE \E k \in ReportsOf(U, x) : U[k].type = "NewAck"
    <3>1. PICK j \in ReportsOf(T, x) : T[j].type = "NewAck"
      BY <2>1, <2>3 DEF AckFirst
    <3> QED
      BY <1>1, <3>1 DEF Shorter
  <2> QED
    BY <2>1, <2>2, <2>3 DEF AckFirst
<1>4. EndsOnce(U, x, o, live)
  <2>1. EndsOnce(T, x, o, live)
    BY DEF Tracks
  <2>2. ASSUME NEW k \in ReportsOf(U, x), U[k].type \in Ends
        PROVE  ~live /\ ~is_terminal(o.status)
               /\ \A j \in ReportsOf(U, x) : k < j => U[j].type = "CancelReject"
    <3>1. k + 1 \in ReportsOf(T, x) /\ T[k + 1].type \in Ends /\ k \in 1 .. Len(U)
      BY <1>1, <2>2 DEF Shorter
    <3>2. /\ ~live /\ ~is_terminal(o.status)
          /\ \A j \in ReportsOf(T, x) : k + 1 < j => T[j].type = "CancelReject"
      BY <2>1, <3>1 DEF EndsOnce
    <3>3. ASSUME NEW j \in ReportsOf(U, x), k < j PROVE U[j].type = "CancelReject"
      <4>1. j \in 1 .. Len(U) /\ j + 1 \in ReportsOf(T, x) /\ U[j] = T[j + 1]
        BY <1>1 DEF Shorter
      <4> QED
        BY <3>1, <3>2, <3>3, <4>1
    <3> QED
      BY <3>2, <3>3
  <2>3. ASSUME NEW k \in ReportsOf(U, x), U[k].type = "CancelAck"
        PROVE  o.status = "PendingCancel"
    BY <1>1, <2>1, <2>3 DEF EndsOnce, Shorter
  <2>4. ASSUME NEW k \in ReportsOf(U, x), U[k].type = "CancelReject", ~is_terminal(o.status)
        PROVE  \E j \in ReportsOf(U, x) : j < k /\ U[j].type \in Ends
    <3>1. PICK j \in ReportsOf(T, x) : j < k + 1 /\ T[j].type \in Ends
      BY <1>1, <2>1, <2>4 DEF EndsOnce, Shorter
    <3>2. j # 1
      BY <1>1, <3>1 DEF Shorter
    <3>3. j - 1 \in ReportsOf(U, x) /\ U[j - 1] = T[j] /\ j \in 1 .. Len(T) /\ k \in 1 .. Len(U)
      BY <1>1, <3>2 DEF Shorter
    <3>4. j - 1 < k
      BY <3>1, <3>3
    <3> QED
      BY <3>1, <3>3, <3>4
  <2>5. is_terminal(o.status) =>
            ~live /\ \A k \in ReportsOf(U, x) : U[k].type = "CancelReject"
    BY <1>1, <2>1 DEF EndsOnce, Shorter
  <2>6. ~live => is_terminal(o.status) \/ \E k \in ReportsOf(U, x) : U[k].type \in Ends
    BY <1>1, <2>1 DEF EndsOnce, Shorter
  <2> QED
    BY <2>2, <2>3, <2>4, <2>5, <2>6 DEF EndsOnce
<1>5. AddsUp(U, x, o, reported)
  BY <1>1, <1>2 DEF Tracks, AddsUp, Shorter
<1>6. Tracks(U, x, o, reported, live)
  BY <1>3, <1>4, <1>5 DEF Tracks
<1> QED
  BY <1>6 DEF U

(* Once a report of the order was handled, none of its acknowledgements is    *)
(* left.                                                                   *)
LEMMA AckHandled ==
    ASSUME NEW T \in Seq(ReportRecord), T # <<>>, NEW x, T[1].exch = x,
           NEW o, AckFirst(T, x, o), NEW n, n.status # "PendingNew", n.exchange_id = x
    PROVE  AckFirst(Tail(T), x, n)
<1> DEFINE U == Tail(T)
<1>1. Shorter(T, U, x)
  BY TailReports
<1> HIDE DEF U
<1>2. \A k \in ReportsOf(U, x) : U[k].type # "NewAck"
  BY <1>1 DEF AckFirst, Shorter
<1>3. AckFirst(U, x, n)
  BY <1>2 DEF AckFirst
<1> QED
  BY <1>3 DEF U

(* The sum is right when the order has booked the first report's share. *)
LEMMA ShareHandled ==
    ASSUME NEW T \in Seq(ReportRecord), T # <<>>, NEW x,
           NEW o, NEW n, NEW reported, AddsUp(T, x, o, reported), SameOrder(n, o),
           o.filled \in Nat, n.filled = o.filled + Share(T, x, 1)
    PROVE  AddsUp(Tail(T), x, n, reported)
<1> DEFINE U == Tail(T)
<1>1. Shorter(T, U, x)
  BY TailReports
<1> HIDE DEF U
<1>2. ASSUME NEW k \in ReportsOf(U, x), IsFill(U[k])
      PROVE  FillAgrees(U[k], n) /\ U[k].cumulative = n.filled + UpTo(U, x, k)
  <2>1. k + 1 \in ReportsOf(T, x) /\ U[k] = T[k + 1] /\ UpTo(U, x, k) \in Nat
        /\ UpTo(T, x, k + 1) = Share(T, x, 1) + UpTo(U, x, k) /\ Share(T, x, 1) \in Nat
    BY <1>1 DEF Shorter
  <2>2. FillAgrees(U[k], o) /\ U[k].cumulative = o.filled + UpTo(T, x, k + 1)
    BY <1>2, <2>1 DEF AddsUp
  <2> QED
    BY <2>1, <2>2 DEF FillAgrees, SameOrder
<1>3. reported = n.filled + UpTo(U, x, Len(U))
  BY <1>1 DEF AddsUp, Shorter
<1>4. AddsUp(U, x, n, reported)
  BY <1>2, <1>3 DEF AddsUp
<1> QED
  BY <1>4 DEF U

(* The first report ends nothing and the order goes on. *)
LEMMA StepHandled ==
    ASSUME NEW T \in Seq(ReportRecord), T # <<>>, NEW x, T[1].exch = x,
           T[1].type \notin Ends, T[1].type # "CancelReject",
           NEW o, NEW n, NEW live, EndsOnce(T, x, o, live),
           ~is_terminal(o.status), ~is_terminal(n.status),
           o.status = "PendingCancel" => n.status = "PendingCancel"
    PROVE  EndsOnce(Tail(T), x, n, live)
<1> DEFINE U == Tail(T)
<1>1. Shorter(T, U, x)
  BY TailReports
<1> HIDE DEF U
<1>2. ASSUME NEW k \in ReportsOf(U, x), U[k].type \in Ends
      PROVE  ~live /\ \A j \in ReportsOf(U, x) : k < j => U[j].type = "CancelReject"
  <2>1. k + 1 \in ReportsOf(T, x) /\ T[k + 1].type \in Ends /\ k \in 1 .. Len(U)
    BY <1>1, <1>2 DEF Shorter
  <2>2. ~live /\ \A j \in ReportsOf(T, x) : k + 1 < j => T[j].type = "CancelReject"
    BY <2>1 DEF EndsOnce
  <2>3. ASSUME NEW j \in ReportsOf(U, x), k < j PROVE U[j].type = "CancelReject"
    <3>1. j \in 1 .. Len(U) /\ j + 1 \in ReportsOf(T, x) /\ U[j] = T[j + 1]
      BY <1>1 DEF Shorter
    <3> QED
      BY <2>1, <2>2, <2>3, <3>1
  <2> QED
    BY <2>2, <2>3
<1>3. ASSUME NEW k \in ReportsOf(U, x), U[k].type = "CancelAck"
      PROVE  n.status = "PendingCancel"
  BY <1>1, <1>3 DEF EndsOnce, Shorter
<1>4. ASSUME NEW k \in ReportsOf(U, x), U[k].type = "CancelReject"
      PROVE  \E j \in ReportsOf(U, x) : j < k /\ U[j].type \in Ends
  <2>1. PICK j \in ReportsOf(T, x) : j < k + 1 /\ T[j].type \in Ends
    BY <1>1, <1>4 DEF EndsOnce, Shorter
  <2>2. j # 1
    BY <2>1
  <2>3. j - 1 \in ReportsOf(U, x) /\ U[j - 1] = T[j] /\ j \in 1 .. Len(T) /\ k \in 1 .. Len(U)
    BY <1>1, <2>2 DEF Shorter
  <2>4. j - 1 < k
    BY <2>1, <2>3
  <2> QED
    BY <2>1, <2>3, <2>4
<1>5. ~live => \E k \in ReportsOf(U, x) : U[k].type \in Ends
  BY <1>1 DEF EndsOnce, Shorter
<1>6. EndsOnce(U, x, n, live)
  BY <1>2, <1>3, <1>4, <1>5 DEF EndsOnce
<1> QED
  BY <1>6 DEF U

(* The first report ends the order. *)
LEMMA EndHandled ==
    ASSUME NEW T \in Seq(ReportRecord), T # <<>>, NEW x, T[1].exch = x, T[1].type \in Ends,
           NEW o, NEW n, NEW live, EndsOnce(T, x, o, live), is_terminal(n.status)
    PROVE  EndsOnce(Tail(T), x, n, live)
<1> DEFINE U == Tail(T)
<1>1. Shorter(T, U, x)
  BY TailReports
<1> HIDE DEF U
<1>2. ~live
  BY <1>1 DEF EndsOnce, Shorter
<1>3. \A k \in ReportsOf(U, x) : U[k].type = "CancelReject"
  BY <1>1 DEF EndsOnce, Shorter
<1>4. EndsOnce(U, x, n, live)
  BY <1>2, <1>3 DEF EndsOnce, Ends
<1> QED
  BY <1>4 DEF U

(* What an order is when its report comes first. *)
LEMMA HeadFacts ==
    ASSUME NEW T \in Seq(ReportRecord), T # <<>>, NEW x, T[1].exch = x,
           NEW o, NEW reported, NEW live, Tracks(T, x, o, reported, live), o.filled \in Nat
    PROVE  /\ T[1] \in ReportRecord
           /\ T[1].type = "NewAck" => o.status = "PendingNew"
           /\ T[1].type # "NewAck" => o.status # "PendingNew" /\ o.exchange_id = x
           /\ T[1].type = "CancelAck" => o.status = "PendingCancel"
           /\ T[1].type = "CancelReject" => is_terminal(o.status)
           /\ IsFill(T[1]) =>
                 /\ o.status \in Working /\ FillAgrees(T[1], o)
                 /\ T[1].cumulative = o.filled + T[1].last /\ Share(T, x, 1) = T[1].last
           /\ ~IsFill(T[1]) => Share(T, x, 1) = 0
<1>1. 1 \in ReportsOf(T, x) /\ T[1] \in ReportRecord /\ Len(T) \in Nat \ {0}
      /\ \A j \in ReportsOf(T, x) : j \in 1 .. Len(T)
  BY DEF ReportsOf
<1>2. T[1].type = "NewAck" => o.status = "PendingNew"
  BY <1>1 DEF Tracks, AckFirst
<1>3. T[1].type # "NewAck" => o.status # "PendingNew" /\ o.exchange_id = x
  <2>1. ASSUME o.status = "PendingNew" PROVE T[1].type = "NewAck"
    <3>1. PICK k \in ReportsOf(T, x) : T[k].type = "NewAck"
      BY <2>1 DEF Tracks, AckFirst
    <3>2. k <= 1
      BY <1>1, <3>1 DEF Tracks, AckFirst
    <3> QED
      BY <1>1, <3>1, <3>2
  <2> QED
    BY <2>1 DEF Tracks, AckFirst
<1>4. T[1].type = "CancelAck" => o.status = "PendingCancel"
  BY <1>1 DEF Tracks, EndsOnce
<1>5. T[1].type = "CancelReject" => is_terminal(o.status)
  BY <1>1 DEF Tracks, EndsOnce
<1>6. ASSUME IsFill(T[1])
      PROVE  /\ o.status \in Working /\ FillAgrees(T[1], o)
             /\ T[1].cumulative = o.filled + T[1].last /\ Share(T, x, 1) = T[1].last
  <2>1. Share(T, x, 1) = T[1].last
    BY <1>6 DEF Share
  <2>2. UpTo(T, x, 0 + 1) = UpTo(T, x, 0) + Share(T, x, 0 + 1) /\ UpTo(T, x, 0) = 0
    BY <1>1, UpToNext, UpToNone
  <2>3. FillAgrees(T[1], o) /\ T[1].cumulative = o.filled + UpTo(T, x, 1)
    BY <1>1, <1>6 DEF Tracks, AddsUp
  <2>4. ~is_terminal(o.status)
    BY <1>1, <1>6 DEF Tracks, EndsOnce, IsFill
  <2>5. o.status \in Working
    BY <1>3, <1>6, <2>4 DEF Tracks, IsFill, is_terminal
  <2>6. T[1].last \in Nat
    BY <1>1 DEF ReportRecord
  <2> QED
    BY <2>1, <2>2, <2>3, <2>5, <2>6
<1>7. ~IsFill(T[1]) => Share(T, x, 1) = 0
  BY DEF Share
<1> QED
  BY <1>1, <1>2, <1>3, <1>4, <1>5, <1>6, <1>7

-----------------------------------------------------------------------------
(* What the OMS makes of a report.                                         *)

(* The order that has taken a report. *)
After(o, r) ==
    IF r.type = "NewAck" THEN [apply(o, "NewAck", 0, 0) EXCEPT !.exchange_id = r.exch]
    ELSE IF IsFill(r) THEN apply(o, r.type, r.last, r.price)
    ELSE apply(o, r.type, 0, 0)

(* A fill within what remains of the order. *)
LEMMA AfterFillFacts ==
    ASSUME NEW o \in OrderType, NEW r \in ReportRecord, IsFill(r), FillAgrees(r, o),
           FillsAddUp(o), o.status \in Working, r.cumulative = o.filled + r.last
    PROVE  LET n == After(o, r)
           IN /\ Accepts(o, r.type, r.last, r.price)
              /\ n.filled = o.filled + r.last /\ n.exchange_id = o.exchange_id
              /\ SameOrder(n, o)
              /\ r.type = "Fill" => n.status = "Filled"
              /\ r.type = "PartialFill" =>
                    n.status = IF o.status = "PendingCancel" THEN "PendingCancel"
                               ELSE "PartiallyFilled"
<1> DEFINE q == r.last
           p == r.price
           f == apply_fill(o, q, p)
           n == After(o, r)
<1>1. /\ q \in Nat /\ p \in Nat /\ q > 0 /\ p > 0 /\ r.cumulative \in Nat /\ r.leaves \in Nat
      /\ r.cumulative + r.leaves = o.quantity /\ (r.type = "Fill" <=> r.leaves = 0)
  BY DEF ReportRecord, FillAgrees
<1>2. o.filled \in Nat /\ o.remaining \in Nat /\ o.quantity \in Nat
  BY OrderAssumption DEF OrderType
<1>3. o.remaining = q + r.leaves
  BY <1>1, <1>2 DEF FillsAddUp, Working
<1>4. o.remaining > 0
  BY <1>1, <1>3
<1>5. Accepts(o, r.type, q, p)
  BY <1>1, <1>4 DEF Accepts, AllowedFrom, IsFill
<1>6. AppliedQuantity(o, q) = q
  BY <1>1, <1>2, <1>3 DEF AppliedQuantity
<1>7. /\ f \in OrderType
      /\ f = [o EXCEPT !.filled = o.filled + q, !.remaining = o.remaining - q,
                       !.average = (o.average * o.filled + p * q) \div (o.filled + q)]
  <2> DEFINE a == AppliedQuantity(o, q)
             Filled(b) == [o EXCEPT !.filled = o.filled + b, !.remaining = o.remaining - b,
                               !.average = (o.average * o.filled + p * b) \div (o.filled + b)]
  <2>1. f \in OrderType /\ f = Filled(a)
    BY <1>1, <1>4, ApplyFillEffect
  <2>2. a = q
    BY <1>6
  <2> HIDE DEF a, Filled, f
  <2>3. f = Filled(q)
    BY <2>1, <2>2
  <2> QED
    BY <2>1, <2>3 DEF Filled
<1> HIDE DEF f
<1>8. /\ f.filled = o.filled + q /\ f.remaining = o.remaining - q /\ f.status = o.status
      /\ f.exchange_id = o.exchange_id /\ f.symbol = o.symbol /\ f.side = o.side
      /\ f.price = o.price /\ f.quantity = o.quantity
  BY <1>7 DEF OrderType
<1>9. CASE r.type = "Fill"
  <2>1. n = [f EXCEPT !.status = "Filled", !.remaining = 0]
    BY <1>9 DEF After, IsFill, apply, AfterFill, f
  <2> HIDE DEF n
  <2>2. /\ n.filled = f.filled /\ n.exchange_id = f.exchange_id /\ n.status = "Filled"
        /\ n.symbol = f.symbol /\ n.side = f.side /\ n.price = f.price /\ n.quantity = f.quantity
    BY <1>7, <2>1 DEF OrderType
  <2>3. SameOrder(n, o)
    BY <1>8, <2>2 DEF SameOrder
  <2> QED
    BY <1>5, <1>8, <1>9, <2>2, <2>3 DEF n
<1>10. CASE r.type = "PartialFill"
  <2> DEFINE st == IF o.status = "PendingCancel" THEN "PendingCancel" ELSE "PartiallyFilled"
  <2>1. f.remaining # 0
    BY <1>1, <1>3, <1>8, <1>10
  <2>2. n = [f EXCEPT !.status = st]
    BY <1>8, <1>10, <2>1 DEF After, IsFill, apply, AfterPartialFill, f
  <2> HIDE DEF n, st
  <2>3. /\ n.filled = f.filled /\ n.exchange_id = f.exchange_id /\ n.status = st
        /\ n.symbol = f.symbol /\ n.side = f.side /\ n.price = f.price /\ n.quantity = f.quantity
    BY <1>7, <2>2 DEF OrderType
  <2>4. SameOrder(n, o)
    BY <1>8, <2>3 DEF SameOrder
  <2> QED
    BY <1>5, <1>8, <1>10, <2>3, <2>4 DEF n, st
<1> QED
  BY <1>9, <1>10 DEF IsFill

(* A later order: what was final or acknowledged still is, and fills stay. *)
Later(o, n) ==
    /\ SameOrder(n, o) /\ o.filled <= n.filled
    /\ is_terminal(o.status) => is_terminal(n.status)
    /\ o.status # "PendingNew" => n.status # "PendingNew"

(* The first report under way is handled: the OMS takes it unless it is a     *)
(* refused cancel, and the other reports still track the order.              *)
LEMMA HeadTaken ==
    ASSUME NEW T \in Seq(ReportRecord), T # <<>>, NEW x, T[1].exch = x,
           NEW o \in OrderType, FillsAddUp(o), NEW reported, NEW live,
           Tracks(T, x, o, reported, live), T[1].type # "CancelReject"
    PROVE  LET n == After(o, T[1])
           IN /\ Accepts(o, T[1].type, T[1].last, T[1].price)
              /\ Tracks(Tail(T), x, n, reported, live)
              /\ n.filled = o.filled + Share(T, x, 1) /\ Later(o, n) /\ Settled(T[1], n)
<1> DEFINE r == T[1]
           n == After(o, r)
<1>1. o.filled \in Nat
  BY DEF OrderType
<1>2. /\ r \in ReportRecord
      /\ r.type = "NewAck" => o.status = "PendingNew"
      /\ r.type # "NewAck" => o.status # "PendingNew" /\ o.exchange_id = x
      /\ r.type = "CancelAck" => o.status = "PendingCancel"
      /\ IsFill(r) =>
            /\ o.status \in Working /\ FillAgrees(r, o)
            /\ r.cumulative = o.filled + r.last /\ Share(T, x, 1) = r.last
      /\ ~IsFill(r) => Share(T, x, 1) = 0
  BY <1>1, HeadFacts
<1>3. r.exch = x /\ r.type \in ReportTypes \ {"CancelReject"} /\ r.last \in Nat
  BY <1>2 DEF ReportRecord
<1> HIDE DEF r
<1>4. /\ Accepts(o, r.type, r.last, r.price)
      /\ n.filled = o.filled + Share(T, x, 1) /\ SameOrder(n, o) /\ n.exchange_id = x
      /\ n.status # "PendingNew" /\ n.status \in {"Filled", "Canceled"} \cup Working
      /\ r.type \in Ends => is_terminal(n.status)
      /\ r.type \notin Ends =>
            /\ ~is_terminal(o.status) /\ ~is_terminal(n.status)
            /\ o.status = "PendingCancel" => n.status = "PendingCancel"
      /\ ~is_terminal(o.status)
  <2>1. CASE r.type = "NewAck"
    <3>1. n = [[o EXCEPT !.status = "Acked"] EXCEPT !.exchange_id = x]
      BY <1>3, <2>1 DEF After, apply
    <3>2. /\ n.status = "Acked" /\ n.exchange_id = x /\ n.filled = o.filled
          /\ n.symbol = o.symbol /\ n.side = o.side /\ n.price = o.price /\ n.quantity = o.quantity
      BY <3>1 DEF OrderType
    <3>3. Accepts(o, r.type, r.last, r.price)
      BY <1>2, <2>1 DEF Accepts, AllowedFrom
    <3>4. ~IsFill(r) /\ r.type \notin Ends /\ o.status = "PendingNew"
      BY <1>2, <2>1 DEF IsFill, Ends
    <3> HIDE DEF n
    <3> QED
      BY <1>1, <1>2, <3>2, <3>3, <3>4 DEF SameOrder, Working, is_terminal
  <2>2. CASE IsFill(r)
    <3>1. /\ Accepts(o, r.type, r.last, r.price)
          /\ n.filled = o.filled + r.last /\ n.exchange_id = o.exchange_id /\ SameOrder(n, o)
          /\ r.type = "Fill" => n.status = "Filled"
          /\ r.type = "PartialFill" =>
                n.status = IF o.status = "PendingCancel" THEN "PendingCancel"
                           ELSE "PartiallyFilled"
      BY <1>2, <2>2, AfterFillFacts
    <3>2. r.type # "NewAck" /\ r.type \in {"Fill", "PartialFill"}
      BY <2>2 DEF IsFill
    <3> HIDE DEF n
    <3> QED
      BY <1>2, <2>2, <3>1, <3>2 DEF Ends, is_terminal, Working
  <2>3. CASE r.type = "CancelAck"
    <3>1. n = [o EXCEPT !.status = "Canceled"]
      BY <2>3 DEF After, IsFill, apply
    <3>2. /\ n.status = "Canceled" /\ n.exchange_id = o.exchange_id /\ n.filled = o.filled
          /\ n.symbol = o.symbol /\ n.side = o.side /\ n.price = o.price /\ n.quantity = o.quantity
      BY <3>1 DEF OrderType
    <3>3. Accepts(o, r.type, r.last, r.price)
      BY <1>2, <2>3 DEF Accepts, AllowedFrom
    <3>4. ~IsFill(r) /\ r.type \in Ends /\ o.status = "PendingCancel" /\ o.exchange_id = x
      BY <1>2, <2>3 DEF IsFill, Ends
    <3> HIDE DEF n
    <3> QED
      BY <1>1, <1>2, <3>2, <3>3, <3>4 DEF SameOrder, Working, is_terminal
  <2> QED
    BY <1>3, <2>1, <2>2, <2>3 DEF ReportTypes, IsFill
<1> HIDE DEF n
<1>5. AckFirst(Tail(T), x, n)
  BY <1>4, AckHandled DEF Tracks
<1>6. AddsUp(Tail(T), x, n, reported)
  BY <1>1, <1>4, ShareHandled DEF Tracks
<1>7. EndsOnce(Tail(T), x, n, live)
  <2>1. EndsOnce(T, x, o, live)
    BY DEF Tracks
  <2>2. CASE r.type \in Ends
    BY <1>4, <2>1, <2>2, EndHandled DEF r
  <2>3. CASE r.type \notin Ends
    BY <1>3, <1>4, <2>1, <2>3, StepHandled DEF r
  <2> QED
    BY <2>2, <2>3
<1>8. Tracks(Tail(T), x, n, reported, live)
  BY <1>4, <1>5, <1>6, <1>7 DEF Tracks
<1>9. Share(T, x, 1) \in Nat
  BY <1>2, <1>3
<1>10. Later(o, n)
  BY <1>1, <1>4, <1>9 DEF Later
<1>11. Settled(r, n)
  <2>1. r.type = "CancelAck" => is_terminal(n.status)
    BY <1>4 DEF Ends
  <2>2. IsFill(r) => r.cumulative <= n.filled
    BY <1>1, <1>2, <1>3, <1>4
  <2> QED
    BY <1>3, <1>4, <2>1, <2>2 DEF Settled
<1> QED
  BY <1>4, <1>8, <1>10, <1>11 DEF n, r

(* A refused cancel comes when the order is final, and is not taken. *)
LEMMA HeadLeft ==
    ASSUME NEW T \in Seq(ReportRecord), T # <<>>, NEW x, T[1].exch = x,
           NEW o \in OrderType, NEW reported, NEW live,
           Tracks(T, x, o, reported, live), T[1].type = "CancelReject"
    PROVE  /\ ~Accepts(o, T[1].type, T[1].last, T[1].price)
           /\ Tracks(Tail(T), x, o, reported, live)
           /\ Share(T, x, 1) = 0 /\ Settled(T[1], o)
<1>1. o.filled \in Nat
  BY DEF OrderType
<1>2. o.status # "PendingNew" /\ o.exchange_id = x /\ is_terminal(o.status) /\ ~IsFill(T[1])
      /\ Share(T, x, 1) = 0
  BY <1>1, HeadFacts DEF IsFill
<1>3. ~Accepts(o, T[1].type, T[1].last, T[1].price)
  BY <1>2 DEF Accepts, AllowedFrom, is_terminal
<1>4. AckFirst(Tail(T), x, o)
  BY <1>2, AckHandled DEF Tracks
<1>5. AddsUp(Tail(T), x, o, reported)
  <2>1. SameOrder(o, o) /\ o.filled = o.filled + Share(T, x, 1)
    BY <1>1, <1>2 DEF SameOrder
  <2> QED
    BY <1>1, <2>1, ShareHandled DEF Tracks
<1>6. EndsOnce(Tail(T), x, o, live)
  <2> DEFINE U == Tail(T)
  <2>1. Shorter(T, U, x)
    BY TailReports
  <2> HIDE DEF U
  <2>2. ~live /\ \A k \in ReportsOf(T, x) : T[k].type = "CancelReject"
    BY <1>2 DEF Tracks, EndsOnce
  <2>3. \A k \in ReportsOf(U, x) : U[k].type = "CancelReject"
    BY <2>1, <2>2 DEF Shorter
  <2>4. EndsOnce(U, x, o, live)
    BY <1>2, <2>2, <2>3 DEF EndsOnce, Ends
  <2> QED
    BY <2>4 DEF U
<1>7. Settled(T[1], o)
  BY <1>2 DEF Settled
<1> QED
  BY <1>2, <1>3, <1>4, <1>5, <1>6, <1>7 DEF Tracks

-----------------------------------------------------------------------------
(* What a step keeps that forgets no row of the ledger and no order.       *)

(* The ledger still has every row, for the same order.                     *)
RowsKept(led, new) ==
    /\ Len(led) <= Len(new)
    /\ \A x \in 1 .. Len(led) :
          /\ new[x].client = led[x].client /\ new[x].side = led[x].side
          /\ new[x].quantity = led[x].quantity
(* Each order is the same or a later one. *)
OrdersKept(old, new) ==
    Len(old) <= Len(new) /\ \A id \in 1 .. Len(old) : Later(old[id], new[id])

(* An order is a later one of itself. *)
LEMMA LaterSame ==
    ASSUME NEW o \in OrderType
    PROVE  Later(o, o)
<1>1. o.filled \in Nat
  BY DEF OrderType
<1> QED
  BY <1>1 DEF Later, SameOrder

(* Orders that did not change are kept. *)
LEMMA SameOrdersKept ==
    ASSUME OInv, orders' = orders
    PROVE  OrdersKept(orders, orders')
<1>1. \A id \in 1 .. Len(orders) : Later(orders[id], orders[id])
  BY OrderAt, LaterSame DEF ClientIds
<1>2. Len(orders) \in Nat
  BY DEF OInv, OrdersTypeOK
<1> QED
  BY <1>1, <1>2 DEF OrdersKept

(* The gateway takes an order by its terms. *)
LEMMA TakenByTerms ==
    ASSUME NEW id, NEW o, NEW n, SameOrder(n, o)
    PROVE  Taken(id, n) <=> Taken(id, o)
BY DEF Taken, Gateway!valid_new_order, SameOrder

(* No order is accepted or created. *)
LEMMA NamedKept ==
    ASSUME Named, OInv, RowsKept(ledger, ledger'), OrdersKept(orders, orders'),
           Len(ledger') = Len(ledger), Len(orders') = Len(orders),
           \A id \in ClientIds : (\A x \in 1 .. Len(ledger) : ledger[x].client # id)
               => orders'[id].status = orders[id].status
    PROVE  Named'
<1>1. ClientIds' = ClientIds
  BY DEF ClientIds
<1>2. \A id \in ClientIds : SameOrder(orders'[id], orders[id])
  BY DEF OrdersKept, Later, ClientIds
<1>3. \A id \in ClientIds : Taken(id, orders'[id]) <=> Taken(id, orders[id])
  BY <1>2, TakenByTerms
<1>4. ASSUME NEW x \in 1 .. Len(ledger')
      PROVE  /\ ledger'[x].client \in ClientIds'
             /\ Taken(ledger'[x].client, orders'[ledger'[x].client])
             /\ ledger'[x].side = orders'[ledger'[x].client].side
             /\ ledger'[x].quantity = orders'[ledger'[x].client].quantity
  <2> DEFINE id == ledger[x].client
  <2>1. /\ id \in ClientIds /\ Taken(id, orders[id])
        /\ ledger[x].side = orders[id].side /\ ledger[x].quantity = orders[id].quantity
    BY DEF Named
  <2>2. ledger'[x].client = id /\ ledger'[x].side = ledger[x].side
        /\ ledger'[x].quantity = ledger[x].quantity
    BY DEF RowsKept
  <2> HIDE DEF id
  <2>3. SameOrder(orders'[id], orders[id])
    BY <1>2, <2>1
  <2>4. orders'[id].side = orders[id].side /\ orders'[id].quantity = orders[id].quantity
    BY <2>3 DEF SameOrder
  <2> QED
    BY <1>1, <1>3, <2>1, <2>2, <2>4
<1>5. \A x, y \in 1 .. Len(ledger') : ledger'[x].client = ledger'[y].client => x = y
  BY DEF Named, RowsKept
<1>6. ASSUME NEW id \in ClientIds', \A x \in 1 .. Len(ledger') : ledger'[x].client # id
      PROVE  ~Taken(id, orders'[id]) /\ orders'[id].status = "PendingNew"
  <2>1. \A x \in 1 .. Len(ledger) : ledger[x].client # id
    BY <1>6 DEF RowsKept
  <2> QED
    BY <1>1, <1>3, <2>1 DEF Named
<1> QED
  BY <1>4, <1>5, <1>6 DEF Named

(* A report that would be refused still would be. *)
LEMMA SettledLater ==
    ASSUME NEW r \in ReportRecord, NEW o \in OrderType, NEW n \in OrderType,
           Later(o, n), Settled(r, o)
    PROVE  Settled(r, n)
<1>1. r.cumulative \in Nat /\ o.filled \in Nat /\ n.filled \in Nat
  BY DEF ReportRecord, OrderType
<1> QED
  BY <1>1 DEF Later, Settled

(* The delivered reports stay handled. *)
LEMMA HandledKept ==
    ASSUME Handled, Named, OInv, OInv', RowsKept(ledger, ledger'), OrdersKept(orders, orders'),
           Len(ledger) \in Nat, Len(ledger') \in Nat
    PROVE  \A r \in delivered :
              /\ r \in ReportRecord /\ r.exch \in 1 .. Len(ledger')
              /\ r.client = ledger'[r.exch].client /\ Settled(r, orders'[r.client])
<1> SUFFICES ASSUME NEW r \in delivered
             PROVE  /\ r \in ReportRecord /\ r.exch \in 1 .. Len(ledger')
                    /\ r.client = ledger'[r.exch].client /\ Settled(r, orders'[r.client])
  OBVIOUS
<1>1. /\ r \in ReportRecord /\ r.exch \in 1 .. Len(ledger)
      /\ r.client = ledger[r.exch].client /\ Settled(r, orders[r.client])
  BY DEF Handled
<1>2. r.client \in ClientIds
  BY <1>1 DEF Named
<1>3. Later(orders[r.client], orders'[r.client]) /\ r.client \in ClientIds'
  <2>1. Len(orders) \in Nat /\ Len(orders') \in Nat
    BY DEF OInv, OrdersTypeOK
  <2> QED
    BY <1>2, <2>1 DEF OrdersKept, ClientIds
<1>4. orders[r.client] \in OrderType /\ orders'[r.client] \in OrderType
  <2>1. orders[r.client] \in OrderType
    BY <1>2, OrderAt
  <2>2. orders' \in Seq(OrderType)
    BY DEF OInv, OrdersTypeOK
  <2> QED
    BY <1>3, <2>1, <2>2 DEF ClientIds
<1>5. Settled(r, orders'[r.client])
  BY <1>1, <1>3, <1>4, SettledLater
<1>6. r.exch \in 1 .. Len(ledger') /\ r.client = ledger'[r.exch].client
  BY <1>1 DEF RowsKept
<1> QED
  BY <1>1, <1>5, <1>6

(* Handled, when no report is delivered. *)
LEMMA NothingDelivered ==
    ASSUME Handled, Named, OInv, OInv', RowsKept(ledger, ledger'), OrdersKept(orders, orders'),
           Len(ledger) \in Nat, Len(ledger') \in Nat,
           delivered' = delivered, seen_reports' = seen_reports
    PROVE  Handled'
BY HandledKept DEF Handled

-----------------------------------------------------------------------------
(* The sum of what the orders of a symbol have filled.                     *)

(* What each order moves the position by, and the orders of a symbol. *)
Moves(os) == [id \in 1 .. Len(os) |-> SignedFill(os[id].side, os[id].filled)]
OrdersIn(os, s) == {id \in 1 .. Len(os) : os[id].symbol = s}
(* The sum over them. *)
MovedIn(os, s) == SumFunctionOnSet(Moves(os), OrdersIn(os, s))

(* In these terms. *)
LEMMA SignedIsMoved ==
    /\ \A s : SignedFilled(s) = MovedIn(orders, s)
    /\ PositionIsFills <=> \A s \in Symbols : positions[s].quantity = MovedIn(orders, s)
    /\ PositionIsFills' <=> \A s \in Symbols : positions'[s].quantity = MovedIn(orders', s)
BY DEF SignedFilled, MovedIn, Moves, OrdersIn, ClientIds, PositionIsFills

(* The sum is one of integers over finitely many orders. *)
LEMMA MovesFacts ==
    ASSUME NEW os \in Seq(OrderType), NEW s
    PROVE  /\ IsFiniteSet(OrdersIn(os, s)) /\ OrdersIn(os, s) \subseteq 1 .. Len(os)
           /\ \A id \in 1 .. Len(os) :
                 /\ os[id] \in OrderType /\ Moves(os)[id] \in Int
                 /\ Moves(os)[id] = SignedFill(os[id].side, os[id].filled)
           /\ MovedIn(os, s) \in Int
<1>1. IsFiniteSet(1 .. Len(os))
  BY FS_Interval
<1>2. OrdersIn(os, s) \subseteq 1 .. Len(os)
  BY DEF OrdersIn
<1>3. IsFiniteSet(OrdersIn(os, s))
  BY <1>1, <1>2, FS_Subset
<1>4. \A o \in OrderType : SignedFill(o.side, o.filled) \in Int
  BY DEF OrderType, SignedFill
<1>5. \A id \in 1 .. Len(os) :
          /\ os[id] \in OrderType /\ Moves(os)[id] \in Int
          /\ Moves(os)[id] = SignedFill(os[id].side, os[id].filled)
  BY <1>4 DEF Moves
<1>6. MovedIn(os, s) \in Int
  <2>1. \A id \in OrdersIn(os, s) : Moves(os)[id] \in Int
    BY <1>2, <1>5
  <2> QED
    BY <1>3, <2>1, SumInt DEF MovedIn
<1> QED
  BY <1>2, <1>3, <1>5, <1>6

(* Only symbol, side and filled quantity matter. *)
LEMMA MovedSame ==
    ASSUME NEW os \in Seq(OrderType), NEW ns \in Seq(OrderType), Len(ns) = Len(os), NEW s,
           \A id \in 1 .. Len(os) : SameOrder(ns[id], os[id]) /\ ns[id].filled = os[id].filled
    PROVE  MovedIn(ns, s) = MovedIn(os, s)
<1>1. OrdersIn(ns, s) = OrdersIn(os, s)
  BY DEF OrdersIn, SameOrder
<1>2. \A id \in OrdersIn(os, s) : Moves(os)[id] = Moves(ns)[id]
  BY DEF OrdersIn, Moves, SameOrder
<1>3. IsFiniteSet(OrdersIn(os, s))
  BY MovesFacts
<1> QED
  BY <1>1, <1>2, <1>3, SumAgree DEF MovedIn

(* An order without fills does not move it. *)
LEMMA MovedAppend ==
    ASSUME NEW os \in Seq(OrderType), NEW n \in OrderType, n.filled = 0, NEW s
    PROVE  MovedIn(Append(os, n), s) = MovedIn(os, s)
<1> DEFINE ns == Append(os, n)
           k == Len(os) + 1
           S == OrdersIn(os, s)
<1>1. /\ ns \in Seq(OrderType) /\ Len(ns) = k /\ Len(os) \in Nat
      /\ ns[k] = n /\ \A id \in 1 .. Len(os) : ns[id] = os[id]
  OBVIOUS
<1> HIDE DEF ns
<1>2. IsFiniteSet(S) /\ S \subseteq 1 .. Len(os) /\ k \notin S
  <2>1. IsFiniteSet(S) /\ S \subseteq 1 .. Len(os)
    BY MovesFacts
  <2>2. k \notin 1 .. Len(os)
    BY <1>1
  <2> QED
    BY <2>1, <2>2
<1>3. \A id \in S : Moves(os)[id] = Moves(ns)[id]
  BY <1>1, <1>2 DEF Moves
<1>4. SumFunctionOnSet(Moves(ns), S) = MovedIn(os, s) /\ MovedIn(os, s) \in Int
  BY <1>2, <1>3, SumAgree, MovesFacts DEF MovedIn
<1>5. \A id \in S \cup {k} : Moves(ns)[id] \in Int
  BY <1>1, <1>2, MovesFacts
<1>6. Moves(ns)[k] = 0
  BY <1>1 DEF Moves, SignedFill
<1>7. CASE n.symbol = s
  <2>1. OrdersIn(ns, s) = S \cup {k}
    BY <1>1, <1>7 DEF OrdersIn
  <2>2. SumFunctionOnSet(Moves(ns), S \cup {k})
            = Moves(ns)[k] + SumFunctionOnSet(Moves(ns), S)
    <3> HIDE DEF S, k
    <3> QED
      BY <1>2, <1>5, SumAdd
  <2>3. MovedIn(ns, s) = MovedIn(os, s)
    BY <1>4, <1>6, <2>1, <2>2 DEF MovedIn
  <2> QED
    BY <2>3 DEF ns
<1>8. CASE n.symbol # s
  <2>1. OrdersIn(ns, s) = S
    BY <1>1, <1>8 DEF OrdersIn
  <2>2. MovedIn(ns, s) = MovedIn(os, s)
    BY <1>4, <2>1 DEF MovedIn
  <2> QED
    BY <2>2 DEF ns
<1> QED
  BY <1>7, <1>8

(* One order fills further. *)
LEMMA MovedFill ==
    ASSUME NEW os \in Seq(OrderType), NEW ns \in Seq(OrderType), Len(ns) = Len(os),
           NEW c \in 1 .. Len(os), NEW q \in Nat, ns[c].filled = os[c].filled + q,
           SameOrder(ns[c], os[c]), \A id \in 1 .. Len(os) : id # c => ns[id] = os[id], NEW s
    PROVE  MovedIn(ns, s) = IF s = os[c].symbol
                            THEN MovedIn(os, s) + SignedFill(os[c].side, q) ELSE MovedIn(os, s)
<1> DEFINE S == OrdersIn(os, s)
<1>1. /\ IsFiniteSet(S) /\ S \subseteq 1 .. Len(os) /\ MovedIn(os, s) \in Int
      /\ \A id \in 1 .. Len(os) : os[id] \in OrderType /\ Moves(os)[id] \in Int
      /\ \A id \in 1 .. Len(os) : Moves(ns)[id] \in Int
  BY MovesFacts
<1>2. OrdersIn(ns, s) = S
  BY DEF OrdersIn, SameOrder
<1>3. \A id \in 1 .. Len(os) : id # c => Moves(ns)[id] = Moves(os)[id]
  BY DEF Moves
<1>4. CASE s = os[c].symbol
  <2>1. c \in S
    BY <1>4 DEF OrdersIn
  <2>2. \A id \in S : Moves(os)[id] \in Int /\ Moves(ns)[id] \in Int
    BY <1>1
  <2>3. \A id \in S \ {c} : Moves(ns)[id] = Moves(os)[id]
    BY <1>1, <1>3
  <2>4. SumFunctionOnSet(Moves(ns), S)
            = (SumFunctionOnSet(Moves(os), S) - Moves(os)[c]) + Moves(ns)[c]
    <3> DEFINE f == Moves(os)
               g == Moves(ns)
    <3>0. IsFiniteSet(S) /\ c \in S
      BY <1>1, <2>1
    <3>1. \A id \in S : f[id] \in Int /\ g[id] \in Int
      BY <2>2
    <3>2. \A id \in S \ {c} : g[id] = f[id]
      BY <2>3
    <3> HIDE DEF S, f, g
    <3>3. SumFunctionOnSet(g, S) = (SumFunctionOnSet(f, S) - f[c]) + g[c]
      BY <3>0, <3>1, <3>2, SumChange
    <3> QED
      BY <3>3 DEF f, g
  <2>5. os[c].filled \in Nat
    BY <1>1 DEF OrderType
  <2>6. Moves(os)[c] = SignedFill(os[c].side, os[c].filled)
        /\ Moves(ns)[c] = SignedFill(os[c].side, os[c].filled + q)
    BY DEF Moves, SameOrder
  <2>7. Moves(ns)[c] = Moves(os)[c] + SignedFill(os[c].side, q)
        /\ SignedFill(os[c].side, q) \in Int /\ Moves(os)[c] \in Int
    BY <2>5, <2>6 DEF SignedFill
  <2>8. MovedIn(ns, s) = (MovedIn(os, s) - Moves(os)[c]) + Moves(ns)[c]
    BY <1>2, <2>4 DEF MovedIn
  <2> QED
    BY <1>1, <1>4, <2>7, <2>8
<1>5. CASE s # os[c].symbol
  <2>1. \A id \in S : Moves(os)[id] = Moves(ns)[id]
    BY <1>1, <1>3, <1>5 DEF OrdersIn
  <2> QED
    BY <1>1, <1>2, <1>5, <2>1, SumAgree DEF MovedIn
<1> QED
  BY <1>4, <1>5

-----------------------------------------------------------------------------
(* What the exchange reports, and which orders stay live.                  *)

(* The sequence of the reports under way is well typed. *)
LEMMA TransitType ==
    ASSUME Flight
    PROVE  /\ InTransit \in Seq(ReportRecord) /\ wire \in Seq(ReportRecord)
           /\ batch \in Seq(ReportRecord) /\ wire \o batch \in Seq(ReportRecord)
BY DEF Flight, InTransit

(* An accepted order is live and acknowledged. *)
LEMMA AcceptReports ==
    ASSUME MaxReports # 0, ExchangeInv, NEW r \in Requests, Accept(r),
           r.client \in Nat \ {0}, r.symbol \in Symbols
    PROVE  \E a \in ReportRecord :
              /\ batch' = <<a>> /\ a.type = "NewAck"
              /\ a.client = r.client /\ a.exch = Len(ledger) + 1
              /\ work = Idle /\ work' # Idle /\ work'.client = r.client
              /\ work'.symbol = r.symbol /\ work'.side = r.side /\ work'.price = r.price
              /\ Len(ledger') = Len(ledger) + 1 /\ ledger'[Len(ledger) + 1].client = r.client
              /\ ledger'[Len(ledger) + 1].side = r.side
              /\ ledger'[Len(ledger) + 1].quantity = r.quantity
              /\ ledger'[Len(ledger) + 1].reported = 0
              /\ \A y \in 1 .. Len(ledger) : ledger'[y] = ledger[y]
              /\ Resting' = Resting /\ LiveIds' = LiveIds \cup {Len(ledger) + 1}
<1> DEFINE n == Len(ledger) + 1
           a == add_ack(r, n)
           row == [client |-> r.client, side |-> r.side, quantity |-> r.quantity,
                   reported |-> 0, canceled |-> 0]
<1>1. /\ work = Idle /\ book' = book /\ ledger' = Append(ledger, row)
      /\ work' = [client |-> r.client, exch |-> n,
                  symbol |-> r.symbol, side |-> r.side, price |-> r.price,
                  cumulative |-> 0, remaining |-> r.quantity]
      /\ batch' = push(<<>>, a) /\ r.quantity > 0
  BY DEF Accept, ExchangeInv, valid_new_order
<1>2. r.quantity \in Nat \ {0} /\ r.side \in BookSides /\ n \in Nat \ {0}
  BY <1>1, RequestAssumption DEF BookSides, ExchangeInv
<1>3. /\ a.type = "NewAck" /\ a.client = r.client /\ a.exch = n /\ a \in ReportRecord
  <2>1. a = [client |-> r.client, exch |-> n, type |-> "NewAck", symbol |-> r.symbol,
             side |-> r.side, price |-> 0, last |-> 0, cumulative |-> 0, leaves |-> r.quantity]
    BY DEF add_ack, Report
  <2> QED
    BY <1>2, <2>1 DEF ReportRecord, ReportTypes, Sides, BookSides
<1> HIDE DEF a
<1>4. batch' = <<a>>
  BY <1>1, ExchangeAssumption DEF push
<1>5. /\ work'.exch = n /\ work'.client = r.client /\ work'.symbol = r.symbol
      /\ work'.side = r.side /\ work'.price = r.price /\ work'.remaining > 0 /\ work' # Idle
  BY <1>1, <1>2 DEF Idle
<1>6. /\ Len(ledger') = n /\ ledger'[n] = row
      /\ \A y \in 1 .. Len(ledger) : ledger'[y] = ledger[y]
  <2>1. ledger \in Seq(Row \cup {row}) /\ row \in Row \cup {row}
    <3>1. \A y \in 1 .. Len(ledger) : ledger[y] \in Row
      BY DEF ExchangeInv
    <3> HIDE DEF row
    <3> QED
      BY <3>1 DEF ExchangeInv
  <2> HIDE DEF row
  <2> QED
    BY <1>1, <2>1
<1>7. Resting' = Resting
  BY <1>1, RestingOrders
<1>8. LiveIds' = LiveIds \cup {n}
  BY <1>1, <1>5, <1>7 DEF LiveIds
<1> QED
  BY <1>1, <1>3, <1>4, <1>5, <1>6, <1>7, <1>8

(* What a fill report says of the order o. *)
FillSays(r, o, d, p, q, filled, left) ==
    /\ r.client = o.client /\ r.exch = o.exch /\ r.symbol = o.symbol /\ r.side = d
    /\ r.price = p /\ r.last = q /\ r.cumulative = filled /\ r.leaves = left
    /\ r.type = IF left = 0 THEN "Fill" ELSE "PartialFill"

(* It is what add_fill_report makes. *)
LEMMA FillReported ==
    ASSUME NEW o, o.client \in Nat \ {0}, o.exch \in Nat \ {0}, o.symbol \in Symbols,
           NEW d \in Sides, NEW p \in Nat, NEW q \in Nat, NEW filled \in Nat, NEW left \in Nat
    PROVE  LET r == add_fill_report(o.client, o.exch, o.symbol, d, p, q, filled, left)
           IN r \in ReportRecord /\ FillSays(r, o, d, p, q, filled, left)
<1> DEFINE type == IF left = 0 THEN "Fill" ELSE "PartialFill"
           r == add_fill_report(o.client, o.exch, o.symbol, d, p, q, filled, left)
<1>1. type \in ReportTypes
  BY DEF ReportTypes
<1>2. r = [client |-> o.client, exch |-> o.exch, type |-> type, symbol |-> o.symbol, side |-> d,
           price |-> p, last |-> q, cumulative |-> filled, leaves |-> left]
  BY DEF add_fill_report, Report
<1> HIDE DEF r
<1>3. r \in ReportRecord
  BY <1>1, <1>2 DEF ReportRecord
<1>4. FillSays(r, o, d, p, q, filled, left)
  BY <1>2 DEF FillSays
<1> QED
  BY <1>3, <1>4 DEF r

(* A trade is reported to both orders. *)
LEMMA MatchReports ==
    ASSUME BatchFits, ExchangeInv, Flight, Match,
           Front.client \in Nat \ {0}, Front.symbol \in Symbols,
           work.client \in Nat \ {0}, work.symbol \in Symbols
    PROVE  \E a, b \in ReportRecord :
              /\ batch' = Append(Append(batch, a), b)
              /\ FillSays(a, Front, TradeSide, TradePrice, TradeQuantity,
                          Front.filled + TradeQuantity, Front.remaining - TradeQuantity)
              /\ FillSays(b, work, work.side, TradePrice, TradeQuantity,
                          work.cumulative + TradeQuantity, work.remaining - TradeQuantity)
              /\ a.price > 0 /\ a.last > 0 /\ b.price > 0 /\ b.last > 0
<1> DEFINE q == TradeQuantity
           p == TradePrice
           a == add_fill_report(Front.client, Front.exch, Front.symbol, TradeSide, p, q,
                                Front.filled + q, Front.remaining - q)
           b == add_fill_report(work.client, work.exch, work.symbol, work.side, p, q,
                                work.cumulative + q, work.remaining - q)
<1>1. /\ work # Idle /\ Crosses(work) /\ work \in Incoming /\ Front \in RestingOrder
      /\ TradeSide \in BookSides /\ p \in DOMAIN book[TradeSide]
      /\ q \in Nat \ {0} /\ q <= work.remaining /\ q <= Front.remaining
  BY MatchSays, TradeFacts
<1>2. p \in Nat /\ p > 0
  <2>1. p \in RequestPrices
    <3> HIDE DEF p
    <3> QED
      BY <1>1, LevelFacts DEF ExchangeInv
  <2> HIDE DEF p
  <2> QED
    BY <2>1, RequestAssumption DEF RequestPrices
<1>3. /\ work.exch \in Nat \ {0} /\ Front.exch \in Nat \ {0} /\ work.side \in Sides
      /\ TradeSide \in Sides /\ Front.filled + q \in Nat /\ Front.remaining - q \in Nat
      /\ work.cumulative + q \in Nat /\ work.remaining - q \in Nat
  BY <1>1 DEF Incoming, RestingOrder, BookSides, Sides
<1>4. batch' = push(push(batch, a), b)
  <2> DEFINE f == FrontAfter
             inc == [work EXCEPT !.cumulative = @ + q, !.remaining = @ - q]
  <2>1. batch' = push(push(batch, add_fill_report(f.client, f.exch, f.symbol, TradeSide, p, q,
                                                  f.filled, f.remaining)),
                      add_fill_report(work.client, work.exch, work.symbol, work.side, p, q,
                                      inc.cumulative, inc.remaining))
    BY DEF Match, TradeSide, TradePrice, TradeLevel, Front, TradeQuantity, FrontAfter
  <2>2. /\ f.client = Front.client /\ f.exch = Front.exch /\ f.symbol = Front.symbol
        /\ f.filled = Front.filled + q /\ f.remaining = Front.remaining - q
    BY <1>1 DEF FrontAfter, RestingOrder
  <2>3. inc.cumulative = work.cumulative + q /\ inc.remaining = work.remaining - q
    BY <1>1 DEF Incoming
  <2> HIDE DEF f, inc, p, q
  <2> QED
    BY <2>1, <2>2, <2>3
<1>5. a \in ReportRecord /\ FillSays(a, Front, TradeSide, p, q, Front.filled + q, Front.remaining - q)
  <2> HIDE DEF p, q
  <2> QED
    BY <1>1, <1>2, <1>3, FillReported
<1>6. b \in ReportRecord
      /\ FillSays(b, work, work.side, p, q, work.cumulative + q, work.remaining - q)
  <2> HIDE DEF p, q
  <2> QED
    BY <1>1, <1>2, <1>3, FillReported
<1>7. Len(batch) + 2 <= MaxReports /\ Len(batch) \in Nat /\ MaxReports \in Nat
  BY <1>1, ExchangeAssumption DEF ExchangeInv, BatchFits
<1> HIDE DEF a, b
<1>8. push(batch, a) = Append(batch, a) /\ Len(Append(batch, a)) = Len(batch) + 1
  BY <1>5, <1>7 DEF push, Flight
<1>9. batch' = Append(Append(batch, a), b)
  BY <1>4, <1>7, <1>8 DEF push
<1>10. a.price = p /\ a.last = q /\ b.price = p /\ b.last = q
  BY <1>5, <1>6 DEF FillSays
<1> QED
  BY <1>1, <1>2, <1>5, <1>6, <1>9, <1>10

(* A live order rests or is in work. *)
LEMMA LiveMeans ==
    ASSUME NEW x
    PROVE  /\ x \in LiveIds <=> \/ \E r \in Resting : r.order.exch = x
                                \/ work # Idle /\ work.remaining > 0 /\ work.exch = x
           /\ x \in LiveIds' <=> \/ \E r \in Resting' : r.order.exch = x
                                 \/ work' # Idle /\ work'.remaining > 0 /\ work'.exch = x
BY DEF LiveIds

(* A trade leaves an order live that has something left. *)
LEMMA MatchLive ==
    ASSUME ExchangeInv, Match
    PROVE  /\ Front.exch \in LiveIds /\ work.exch \in LiveIds
           /\ Front.exch \in LiveIds' <=> Front.remaining - TradeQuantity # 0
           /\ work.exch \in LiveIds' <=> work.remaining - TradeQuantity # 0
           /\ \A x : x # Front.exch /\ x # work.exch => (x \in LiveIds' <=> x \in LiveIds)
<1> DEFINE q == TradeQuantity
           f == FrontAfter
           place == Place(book, TradeSide, TradePrice, 1)
<1>1. /\ work # Idle /\ Crosses(work) /\ work \in Incoming /\ work.remaining # 0
      /\ Front \in RestingOrder /\ q \in Nat \ {0} /\ q <= work.remaining
      /\ Front.exch # work.exch /\ Front.exch \in 1 .. Len(ledger)
  BY MatchSays, TradeFacts
<1>2. /\ f.client = Front.client /\ f.exch = Front.exch /\ f.remaining = Front.remaining - q
  BY <1>1, FrontAfterFacts
<1>3. work' = [work EXCEPT !.cumulative = @ + q, !.remaining = @ - q]
  BY MatchSays
<1>4. /\ work'.exch = work.exch /\ work'.remaining = work.remaining - q
      /\ work.remaining \in Nat /\ work.exch \in Nat \ {0}
  BY <1>1, <1>3 DEF Incoming
<1>5. work' # Idle /\ work.remaining > 0
  BY <1>1, <1>4 DEF Idle
<1>6. place \in Resting /\ place.order = Front
  BY MatchOrders, PlaceFields DEF Front, TradeLevel
<1>7. \A r \in Resting : r.order.exch = Front.exch => r.order = Front
  BY <1>6, MatchOrders
<1>7a. \A r \in Resting : r.order.client = Front.client => r.order = Front
  BY <1>6, MatchOrders
<1>8. \A r \in Resting' : \/ r.order.client # Front.client /\ r \in Resting
                          \/ r.order = f /\ f.remaining # 0
  BY MatchOrders
<1>9. \A r \in Resting : r.order.client # Front.client => r \in Resting'
  BY MatchOrders
<1>10. f.remaining # 0 => \E r \in Resting' : r.order = f
  BY MatchOrders
<1> HIDE DEF q, f, place
<1>11. Front.exch \in LiveIds /\ work.exch \in LiveIds
  BY <1>1, <1>5, <1>6, LiveMeans
<1>12. Front.exch \in LiveIds' <=> Front.remaining - q # 0
  <2>1. (\E r \in Resting' : r.order.exch = Front.exch) <=> f.remaining # 0
    BY <1>2, <1>7, <1>8, <1>10
  <2> QED
    BY <1>1, <1>2, <1>4, <2>1, LiveMeans
<1>13. work.exch \in LiveIds' <=> work.remaining - q # 0
  <2>1. \A r \in Resting' : r.order.exch # work.exch
    BY <1>1, <1>2, <1>8, RestingIds
  <2>2. work'.remaining > 0 <=> work.remaining - q # 0
    BY <1>1, <1>4 DEF q
  <2> QED
    BY <1>4, <1>5, <2>1, <2>2, LiveMeans
<1>14. ASSUME NEW x, x # Front.exch, x # work.exch
       PROVE  x \in LiveIds' <=> x \in LiveIds
  <2>1. (\E r \in Resting' : r.order.exch = x) <=> (\E r \in Resting : r.order.exch = x)
    BY <1>2, <1>7a, <1>8, <1>9, <1>14
  <2> QED
    BY <1>4, <1>14, <2>1, LiveMeans
<1> QED
  BY <1>11, <1>12, <1>13, <1>14 DEF q

(* The end of the call changes nothing in that. *)
LEMMA FinishLive ==
    ASSUME ExchangeInv, Finish
    PROVE  \A x : x \in LiveIds' <=> x \in LiveIds
<1>1. work # Idle /\ work' = Idle
  BY DEF Finish
<1>2. /\ Resting \subseteq Resting'
      /\ \A r \in Resting' : r \in Resting \/ (work.remaining > 0 /\ r.order = Rested)
      /\ work.remaining > 0 => \E r \in Resting' : r.order.exch = work.exch
  BY FinishOrders
<1>3. Rested.exch = work.exch
  BY DEF Rested
<1> QED
  BY <1>1, <1>2, <1>3, LiveMeans

(* A cancel of a resting order is acknowledged, and ends it. *)
LEMMA CancelReports ==
    ASSUME MaxReports # 0, ExchangeInv, NEW id \in Nat \ {0}, CancelResting(id),
           \A r \in Resting : r.order.symbol \in Symbols
    PROVE  \E a \in ReportRecord :
              /\ batch' = <<a>> /\ a.type = "CancelAck" /\ a.client = id
              /\ a.exch \in 1 .. Len(ledger) /\ ledger[a.exch].client = id /\ a.exch \in LiveIds
              /\ \A x : x \in LiveIds' <=> x \in LiveIds /\ x # a.exch
              /\ work = Idle /\ work' = Idle /\ Resting' \subseteq Resting
              /\ SameOrders(ledger, ledger')
              /\ \A x \in 1 .. Len(ledger) :
                    /\ ledger'[x].quantity = ledger[x].quantity
                    /\ ledger'[x].reported = ledger[x].reported
<1>1. PICK r \in Resting :
          /\ Resting' \subseteq Resting /\ r \notin Resting'
          /\ \A t \in Resting : t # r => t \in Resting'
          /\ ledger'[r.order.exch] = CanceledRow(ledger[r.order.exch], r.order.remaining)
          /\ ledger' \in Seq(Row) /\ SameOrders(ledger, ledger')
          /\ \A x \in 1 .. Len(ledger) : x # r.order.exch => ledger'[x] = ledger[x]
          /\ r.order.client = id /\ batch' = push(<<>>, add_cancel_ack(r.order, r.side))
  BY CancelOrders
<1>2. /\ BookShape(book) /\ Indexed(book, resting_index) /\ Arrived(book, ledger)
      /\ r \in OrdersOf(book) /\ Resting = OrdersOf(book)
  BY <1>1, RestingOrders DEF ExchangeInv
<1>3. /\ r.order \in RestingOrder /\ r.side \in BookSides
      /\ r.order.exch \in 1 .. Len(ledger) /\ ledger[r.order.exch].client = id
  BY <1>1, RestingIds
<1> DEFINE a == add_cancel_ack(r.order, r.side)
           x0 == r.order.exch
<1>4. a \in ReportRecord /\ a.type = "CancelAck" /\ a.client = id /\ a.exch = x0
  <2>1. a = [client |-> id, exch |-> x0, type |-> "CancelAck", symbol |-> r.order.symbol,
             side |-> r.side, price |-> 0, last |-> 0, cumulative |-> 0,
             leaves |-> r.order.remaining]
    BY <1>1 DEF add_cancel_ack, Report
  <2>2. x0 \in Nat \ {0} /\ r.order.remaining \in Nat
    BY <1>3 DEF RestingOrder
  <2>3. r.side \in Sides /\ r.order.symbol \in Symbols /\ "CancelAck" \in ReportTypes
    BY <1>1, <1>3 DEF BookSides, Sides, ReportTypes
  <2> HIDE DEF a, x0
  <2> QED
    BY <2>1, <2>2, <2>3 DEF ReportRecord
<1>5. batch' = <<a>>
  <2> HIDE DEF a
  <2> QED
    BY <1>1, ExchangeAssumption DEF push, a
<1>6. work = Idle /\ work' = Idle
  BY DEF CancelResting
<1>7. \A t \in Resting : t.order.exch = x0 => t = r
  BY <1>1, <1>2, RestsOnce
<1>8. \A x : x \in LiveIds' <=> x \in LiveIds /\ x # x0
  BY <1>1, <1>6, <1>7, LiveMeans
<1>9. x0 \in LiveIds
  BY <1>1, LiveMeans
<1>10. ASSUME NEW x \in 1 .. Len(ledger)
       PROVE  ledger'[x].quantity = ledger[x].quantity /\ ledger'[x].reported = ledger[x].reported
  <2>1. CASE x = x0
    <3> DEFINE row == CanceledRow(ledger[x0], r.order.remaining)
    <3>1. ledger[x0] \in Row /\ r.order.remaining \in Nat
      BY <1>3 DEF ExchangeInv, RestingOrder
    <3>2. row.quantity = ledger[x0].quantity /\ row.reported = ledger[x0].reported
      <4> HIDE DEF x0
      <4> QED
        BY <3>1, CanceledRowFacts
    <3>3. ledger'[x0] = row
      BY <1>1
    <3> HIDE DEF row
    <3> QED
      BY <2>1, <3>2, <3>3
  <2>2. CASE x # x0
    BY <1>1, <2>2
  <2> QED
    BY <2>1, <2>2
<1> HIDE DEF a
<1> QED
  BY <1>1, <1>3, <1>4, <1>5, <1>6, <1>8, <1>9, <1>10

(* A cancel of an order that does not rest is refused. *)
LEMMA RefusalReports ==
    ASSUME MaxReports # 0, ExchangeInv, NEW r, CancelUnknown(r), r.client \in Nat \ {0},
           r.exch \in Nat \ {0}, r.symbol \in Symbols, r.side \in Sides
    PROVE  \E a \in ReportRecord :
              /\ batch' = <<a>> /\ a.type = "CancelReject"
              /\ a.client = r.client /\ a.exch = r.exch
              /\ \A x \in LiveIds : ledger[x].client # r.client
              /\ work = Idle /\ UNCHANGED <<book, work, ledger>> /\ Resting' = Resting
              /\ \A x : x \in LiveIds' <=> x \in LiveIds
<1> DEFINE a == add_cancel_reject(r)
<1>1. /\ work = Idle /\ UNCHANGED <<book, work, ledger>>
      /\ batch' = push(<<>>, a) /\ r.client \notin DOMAIN resting_index
  BY DEF CancelUnknown, has_resting_order
<1>2. a \in ReportRecord /\ a.type = "CancelReject" /\ a.client = r.client /\ a.exch = r.exch
  <2>1. a = [client |-> r.client, exch |-> r.exch, type |-> "CancelReject", symbol |-> r.symbol,
             side |-> r.side, price |-> 0, last |-> 0, cumulative |-> 0, leaves |-> 0]
    BY DEF add_cancel_reject, Report
  <2>2. "CancelReject" \in ReportTypes
    BY DEF ReportTypes
  <2> HIDE DEF a
  <2> QED
    BY <2>1, <2>2 DEF ReportRecord
<1> HIDE DEF a
<1>3. batch' = <<a>>
  BY <1>1, ExchangeAssumption DEF push
<1>4. Resting' = Resting
  BY <1>1, RestingOrders
<1>5. \A x \in LiveIds : ledger[x].client # r.client
  <2>1. ASSUME NEW x \in LiveIds PROVE ledger[x].client # r.client
    <3>1. PICK t \in Resting : t.order.exch = x
      BY <1>1, LiveMeans
    <3>2. t.order.client \in DOMAIN resting_index /\ ledger[x].client = t.order.client
      BY <3>1, RestingIds
    <3> QED
      BY <1>1, <3>2
  <2> QED
    BY <2>1
<1>6. \A x : x \in LiveIds' <=> x \in LiveIds
  BY <1>1, <1>4, LiveMeans
<1> QED
  BY <1>1, <1>2, <1>3, <1>4, <1>5, <1>6

-----------------------------------------------------------------------------
(* An order is created and sent, or refused by the gateway.                *)

(* The OMS has one order more, which waits for its acknowledgement. *)
LEMMA OrderCreated ==
    ASSUME OInv, NEW s \in Symbols, NEW d \in Sides, NEW p \in Prices, NEW q \in Quantities,
           CreateAndSubmit(Order(s, d, p, q))
    PROVE  \E n \in OrderType :
              /\ orders' = Append(orders, n) /\ SameOrder(n, Order(s, d, p, q))
              /\ n.symbol = s /\ n.side = d /\ n.price = p /\ n.quantity = q
              /\ n.status = "PendingNew" /\ n.filled = 0
              /\ Len(orders') = Len(orders) + 1 /\ Len(orders) \in Nat
              /\ orders'[Len(orders) + 1] = n
              /\ \A id \in 1 .. Len(orders) : orders'[id] = orders[id]
              /\ OrdersKept(orders, orders') /\ OInv'
<1> DEFINE o == Order(s, d, p, q)
           n == [o EXCEPT !.status = "PendingNew"]
<1>1. /\ n \in OrderType /\ FillsAddUp(n) /\ AverageOf(n, 0, 0) /\ SameOrder(n, o)
      /\ n.symbol = s /\ n.side = d /\ n.price = p /\ n.quantity = q
      /\ n.status = "PendingNew" /\ n.filled = 0
  BY OrderAssumption
     DEF Order, OrderType, OrderStatus, FillsAddUp, AverageOf, Working, SameOrder
<1>2. orders' = Append(orders, n) /\ paid' = Append(paid, 0) /\ fills' = Append(fills, 0)
  BY DEF CreateAndSubmit, apply
<1> HIDE DEF n
<1>3. OInv'
  BY <1>1, <1>2, AppendOrder
<1>4. orders \in Seq(OrderType) /\ Len(orders) \in Nat
  BY DEF OInv, OrdersTypeOK
<1>5. /\ Len(orders') = Len(orders) + 1 /\ orders'[Len(orders) + 1] = n
      /\ \A id \in 1 .. Len(orders) : orders'[id] = orders[id]
  BY <1>1, <1>2, <1>4
<1>6. OrdersKept(orders, orders')
  BY <1>4, <1>5, LaterSame DEF OrdersKept
<1> QED
  BY <1>1, <1>2, <1>3, <1>4, <1>5, <1>6

(* No order of a client that the OMS has not created rests. *)
LEMMA NewDoesNotRest ==
    ASSUME ExchangeInv, Named, NEW id, id \notin ClientIds
    PROVE  id \notin DOMAIN resting_index
<1> SUFFICES ASSUME id \in DOMAIN resting_index PROVE FALSE
  OBVIOUS
<1>1. PICK d \in BookSides : \E p \in DOMAIN book[d] :
          \E k \in 1 .. Len(book[d][p]) : book[d][p][k].client = id
  BY DEF ExchangeInv, Indexed
<1>2. PICK p \in DOMAIN book[d] : \E k \in 1 .. Len(book[d][p]) : book[d][p][k].client = id
  BY <1>1
<1>3. PICK k \in 1 .. Len(book[d][p]) : book[d][p][k].client = id
  BY <1>2
<1>4. book[d][p][k].exch \in 1 .. Len(ledger) /\ ledger[book[d][p][k].exch].client = id
  BY <1>3 DEF ExchangeInv, Arrived
<1> QED
  BY <1>4 DEF Named

(* The exchange accepts the order that the gateway sends. *)
LEMMA SendAccepts ==
    ASSUME ExchangeInv, Named, Len(orders) \in Nat,
           NEW s \in Symbols, NEW d \in Sides, NEW p \in Prices, NEW q \in Quantities,
           SendNew(Order(s, d, p, q))
    PROVE  \E r \in Requests :
              /\ Accept(r) /\ r.client = Len(orders) + 1 /\ r.symbol = s /\ r.side = d
              /\ r.price = p /\ r.quantity = q /\ MaxAccepted >= 1
              /\ Taken(Len(orders) + 1, Order(s, d, p, q))
<1> DEFINE id == Len(orders) + 1
           o == Order(s, d, p, q)
           r == Gateway!new_order_request(id, o)
<1>1. /\ Len(orders) < MaxOrders /\ Gateway!valid_new_order(id, o) /\ process_new_order(r)
  BY DEF SendNew, CreateAndSubmit, next_client_order_id
<1>2. r \in Requests
  <2>1. id \in 1 .. MaxOrders
    BY <1>1, OrderAssumption
  <2> QED
    BY <2>1, GatewayAssumption
<1>3. /\ r.client = id /\ r.symbol = s /\ r.side = d /\ r.type = "Limit"
      /\ r.price = p /\ r.quantity = q
  BY DEF Gateway!new_order_request, Order
<1>4. s # "" /\ p > 0 /\ q > 0 /\ Taken(id, o)
  BY <1>1 DEF Gateway!valid_new_order, Order, Taken
<1> HIDE DEF r, o
<1>5. id \notin DOMAIN resting_index /\ id # 0
  BY NewDoesNotRest DEF ClientIds
<1>6. valid_new_order(r)
  BY <1>3, <1>4, <1>5 DEF valid_new_order, has_resting_order
<1>7. Accept(r)
  BY <1>1, <1>6 DEF process_new_order, Reject
<1>8. MaxAccepted >= 1
  BY <1>7, ExchangeAssumption DEF Accept, ExchangeInv
<1> QED
  BY <1>2, <1>3, <1>4, <1>7, <1>8 DEF o

(* What is sent is reported, and nothing else changes. *)
LEMMA SendTracked ==
    ASSUME BatchFits, FlowInv,
           NEW s \in Symbols, NEW d \in Sides, NEW p \in Prices, NEW q \in Quantities,
           SendNew(Order(s, d, p, q))
    PROVE  Named' /\ Terms' /\ Flight' /\ Tracked' /\ Handled' /\ PositionIsFills' /\ OInv'
<1>0. /\ OInv /\ ExchangeInv /\ Named /\ Terms /\ Flight /\ Tracked /\ Handled /\ PositionIsFills
      /\ Len(orders) \in Nat /\ Len(ledger) \in Nat /\ orders \in Seq(OrderType)
      /\ CreateAndSubmit(Order(s, d, p, q))
  BY DEF FlowInv, OInv, OrdersTypeOK, ExchangeInv, SendNew
<1> DEFINE id == Len(orders) + 1
           x0 == Len(ledger) + 1
           new == Order(s, d, p, q)
<1>1. PICK n \in OrderType :
          /\ orders' = Append(orders, n) /\ SameOrder(n, new)
          /\ n.symbol = s /\ n.side = d /\ n.price = p /\ n.quantity = q
          /\ n.status = "PendingNew" /\ n.filled = 0
          /\ Len(orders') = id /\ orders'[id] = n
          /\ \A k \in 1 .. Len(orders) : orders'[k] = orders[k]
          /\ OrdersKept(orders, orders') /\ OInv'
  BY <1>0, OrderCreated
<1>2. PICK r \in Requests :
          /\ Accept(r) /\ r.client = id /\ r.symbol = s /\ r.side = d
          /\ r.price = p /\ r.quantity = q /\ MaxAccepted >= 1 /\ Taken(id, new)
  BY <1>0, SendAccepts
<1>3. MaxReports # 0
  BY <1>2, ExchangeAssumption DEF BatchFits
<1> HIDE DEF new
<1>4. PICK a \in ReportRecord :
          /\ batch' = <<a>> /\ a.type = "NewAck" /\ a.client = id /\ a.exch = x0
          /\ work = Idle /\ work' # Idle /\ work'.client = id
          /\ work'.symbol = s /\ work'.side = d /\ work'.price = p
          /\ Len(ledger') = x0 /\ ledger'[x0].client = id
          /\ ledger'[x0].side = d /\ ledger'[x0].quantity = q /\ ledger'[x0].reported = 0
          /\ \A y \in 1 .. Len(ledger) : ledger'[y] = ledger[y]
          /\ Resting' = Resting /\ LiveIds' = LiveIds \cup {x0}
  BY <1>0, <1>2, <1>3, AcceptReports
<1>5. wire' = wire /\ delivered' = delivered /\ seen_reports' = seen_reports /\ positions' = positions
  BY <1>4 DEF SendNew, CreateAndSubmit, positionVars
<1>6. ClientIds = 1 .. Len(orders) /\ ClientIds' = 1 .. id
  BY <1>1 DEF ClientIds
<1>7. Taken(id, n)
  BY <1>1, <1>2, TakenByTerms
<1>8. \A y \in 1 .. x0 : y = x0 \/ y \in 1 .. Len(ledger)
  BY <1>0
<1>9. \A k \in 1 .. id : k = id \/ k \in 1 .. Len(orders)
  BY <1>0
<1>10. \A k \in 1 .. Len(orders) : k \in 1 .. id /\ k # id
  BY <1>0
<1>11. \A y \in 1 .. Len(ledger) : y \in 1 .. x0 /\ y # x0
  BY <1>0
<1>12. /\ x0 \in 1 .. x0 /\ id \in 1 .. id
  BY <1>0
<1>13. \A y \in 1 .. Len(ledger) : ledger[y].client \in 1 .. Len(orders)
  BY <1>0, <1>6 DEF Named
<1> HIDE DEF id, x0
<1>14. Named'
  <2>1. ASSUME NEW x \in 1 .. Len(ledger')
        PROVE  /\ ledger'[x].client \in ClientIds'
               /\ Taken(ledger'[x].client, orders'[ledger'[x].client])
               /\ ledger'[x].side = orders'[ledger'[x].client].side
               /\ ledger'[x].quantity = orders'[ledger'[x].client].quantity
    <3>1. CASE x = x0
      BY <1>1, <1>4, <1>6, <1>7, <1>12, <3>1
    <3>2. CASE x \in 1 .. Len(ledger)
      BY <1>0, <1>1, <1>4, <1>6, <1>10, <1>13, <3>2 DEF Named
    <3> QED
      BY <1>4, <1>8, <3>1, <3>2
  <2>2. ASSUME NEW x \in 1 .. Len(ledger'), NEW y \in 1 .. Len(ledger'),
               ledger'[x].client = ledger'[y].client
        PROVE  x = y
    BY <1>0, <1>4, <1>8, <1>10, <1>13, <2>2 DEF Named
  <2>3. ASSUME NEW k \in ClientIds', \A x \in 1 .. Len(ledger') : ledger'[x].client # k
        PROVE  ~Taken(k, orders'[k]) /\ orders'[k].status = "PendingNew"
    <3>1. k # id
      BY <1>4, <1>12, <2>3
    <3>2. k \in 1 .. Len(orders) /\ orders'[k] = orders[k]
      BY <1>1, <1>6, <1>9, <3>1
    <3>3. \A x \in 1 .. Len(ledger) : ledger[x].client # k
      BY <1>4, <1>11, <2>3
    <3> QED
      BY <1>0, <1>6, <3>2, <3>3 DEF Named
  <2> QED
    BY <2>1, <2>2, <2>3 DEF Named
<1>15. Terms'
  <2>1. ASSUME NEW r2 \in Resting
        PROVE  SameTerms(orders'[r2.order.client], r2.order.symbol, r2.side, r2.price)
    <3>1. r2.order.client \in 1 .. Len(orders)
      BY <1>0, <1>13, RestingIds
    <3> QED
      BY <1>0, <1>1, <3>1 DEF Terms
  <2>2. SameTerms(orders'[work'.client], work'.symbol, work'.side, work'.price)
    BY <1>1, <1>4 DEF SameTerms
  <2> QED
    BY <1>4, <2>1, <2>2 DEF Terms
<1>16. /\ InTransit' = Append(InTransit, a) /\ InTransit = wire /\ InTransit \in Seq(ReportRecord)
       /\ InTransit' \in Seq(ReportRecord) /\ Len(InTransit) \in Nat
       /\ Len(InTransit') = Len(InTransit) + 1 /\ InTransit'[Len(InTransit) + 1] = a
       /\ \A k \in 1 .. Len(InTransit) : InTransit'[k] = InTransit[k]
  <2>1. InTransit = wire /\ InTransit' = wire \o <<a>> /\ wire \in Seq(ReportRecord)
    BY <1>0, <1>4, <1>5 DEF InTransit, Flight
  <2>2. wire \o <<a>> = Append(wire, a)
    BY <2>1
  <2> QED
    BY <2>1, <2>2
<1>17. Flight'
  <2>1. wire' \in Seq(ReportRecord) /\ batch' \in Seq(ReportRecord) /\ batch' # <<>>
    BY <1>0, <1>4, <1>5 DEF Flight
  <2>2. ASSUME NEW k \in 1 .. Len(InTransit')
        PROVE  /\ InTransit'[k].exch \in 1 .. Len(ledger')
               /\ InTransit'[k].client = ledger'[InTransit'[k].exch].client
    <3>1. CASE k = Len(InTransit) + 1
      BY <1>4, <1>12, <1>16, <3>1
    <3>2. CASE k \in 1 .. Len(InTransit)
      <4>1. InTransit[k].exch \in 1 .. Len(ledger)
            /\ InTransit[k].client = ledger[InTransit[k].exch].client
        BY <1>0, <3>2 DEF Flight
      <4> QED
        BY <1>4, <1>11, <1>16, <3>2, <4>1
    <3> QED
      BY <1>16, <3>1, <3>2
  <2> QED
    BY <2>1, <2>2 DEF Flight
<1>18. Tracked'
  <2>1. ASSUME NEW x \in 1 .. Len(ledger')
        PROVE  Tracks(InTransit', x, orders'[ledger'[x].client], ledger'[x].reported, x \in LiveIds')
    <3>1. CASE x = x0
      <4>1. \A k \in 1 .. Len(InTransit) : InTransit[k].exch # x0
        BY <1>0, <1>11 DEF Flight
      <4>2. Tracks(Append(InTransit, a), x0, n, 0, TRUE)
        BY <1>1, <1>4, <1>16, <4>1, AckAppended
      <4>3. (x \in LiveIds') = TRUE
        BY <1>4, <3>1
      <4> QED
        BY <1>1, <1>4, <1>16, <3>1, <4>2, <4>3
    <3>2. CASE x \in 1 .. Len(ledger)
      <4>1. Tracks(InTransit, x, orders[ledger[x].client], ledger[x].reported, x \in LiveIds)
        BY <1>0, <3>2 DEF Tracked
      <4>2. a.exch # x
        BY <1>4, <1>11, <3>2
      <4>3. Tracks(InTransit', x, orders[ledger[x].client], ledger[x].reported, x \in LiveIds)
        BY <1>16, <4>1, <4>2, OtherAppended
      <4>4. orders'[ledger'[x].client] = orders[ledger[x].client]
            /\ ledger'[x].reported = ledger[x].reported
        BY <1>1, <1>4, <1>13, <3>2
      <4>5. (x \in LiveIds') = (x \in LiveIds)
        BY <1>4, <4>2
      <4> QED
        BY <4>3, <4>4, <4>5
    <3> QED
      BY <1>4, <1>8, <3>1, <3>2
  <2> QED
    BY <2>1 DEF Tracked
<1>19. Handled'
  <2>1. RowsKept(ledger, ledger')
    BY <1>0, <1>4 DEF RowsKept, x0
  <2>2. Len(ledger') \in Nat
    BY <1>0, <1>4 DEF x0
  <2> QED
    BY <1>0, <1>1, <1>5, <2>1, <2>2, NothingDelivered
<1>20. PositionIsFills'
  <2>1. \A t : MovedIn(orders', t) = MovedIn(orders, t)
    BY <1>0, <1>1, MovedAppend
  <2>2. \A t \in Symbols : positions[t].quantity = MovedIn(orders, t)
    BY <1>0, SignedIsMoved
  <2>3. \A t \in Symbols : positions'[t].quantity = MovedIn(orders', t)
    BY <1>5, <2>1, <2>2
  <2> QED
    BY <2>3, SignedIsMoved
<1> QED
  BY <1>1, <1>14, <1>15, <1>17, <1>18, <1>19, <1>20

(* An order that the gateway refuses waits for ever, and moves nothing. *)
LEMMA RefusalTracked ==
    ASSUME FlowInv,
           NEW s \in Symbols, NEW d \in Sides, NEW p \in Prices, NEW q \in Quantities,
           RefuseNew(Order(s, d, p, q))
    PROVE  Named' /\ Terms' /\ Flight' /\ Tracked' /\ Handled' /\ PositionIsFills' /\ OInv'
<1>0. /\ OInv /\ ExchangeInv /\ Named /\ Terms /\ Flight /\ Tracked /\ Handled /\ PositionIsFills
      /\ Len(orders) \in Nat /\ Len(ledger) \in Nat /\ orders \in Seq(OrderType)
      /\ CreateAndSubmit(Order(s, d, p, q))
  BY DEF FlowInv, OInv, OrdersTypeOK, ExchangeInv, RefuseNew
<1> DEFINE id == Len(orders) + 1
           new == Order(s, d, p, q)
<1>1. PICK n \in OrderType :
          /\ orders' = Append(orders, n) /\ SameOrder(n, new)
          /\ n.status = "PendingNew" /\ n.filled = 0
          /\ Len(orders') = id /\ orders'[id] = n
          /\ \A k \in 1 .. Len(orders) : orders'[k] = orders[k]
          /\ OrdersKept(orders, orders') /\ OInv'
  BY <1>0, OrderCreated
<1>2. /\ UNCHANGED <<book, work, batch, ledger, wire, delivered, seen_reports, positions>>
      /\ ~Taken(id, new)
  BY DEF RefuseNew, CreateAndSubmit, exchangeVars, positionVars, next_client_order_id, Taken
<1>3. ~Taken(id, n)
  BY <1>1, <1>2, TakenByTerms
<1> HIDE DEF new
<1>4. ClientIds = 1 .. Len(orders) /\ ClientIds' = 1 .. id
  BY <1>1 DEF ClientIds
<1>5. \A k \in 1 .. id : k = id \/ k \in 1 .. Len(orders)
  BY <1>0
<1>6. \A k \in 1 .. Len(orders) : k \in 1 .. id
  BY <1>0
<1>7. \A y \in 1 .. Len(ledger) : ledger[y].client \in 1 .. Len(orders)
  BY <1>0, <1>4 DEF Named
<1> HIDE DEF id
<1>8. Resting' = Resting /\ (\A x : x \in LiveIds' <=> x \in LiveIds) /\ InTransit' = InTransit
  <2>1. Resting' = Resting
    BY <1>2, RestingOrders
  <2>2. \A x : x \in LiveIds' <=> x \in LiveIds
    BY <1>2, <2>1, LiveMeans
  <2> QED
    BY <1>2, <2>1, <2>2 DEF InTransit
<1>9. Named'
  <2>1. ASSUME NEW x \in 1 .. Len(ledger')
        PROVE  /\ ledger'[x].client \in ClientIds'
               /\ Taken(ledger'[x].client, orders'[ledger'[x].client])
               /\ ledger'[x].side = orders'[ledger'[x].client].side
               /\ ledger'[x].quantity = orders'[ledger'[x].client].quantity
    BY <1>0, <1>1, <1>2, <1>4, <1>6, <1>7 DEF Named
  <2>2. \A x, y \in 1 .. Len(ledger') : ledger'[x].client = ledger'[y].client => x = y
    BY <1>0, <1>2 DEF Named
  <2>3. ASSUME NEW k \in ClientIds', \A x \in 1 .. Len(ledger') : ledger'[x].client # k
        PROVE  ~Taken(k, orders'[k]) /\ orders'[k].status = "PendingNew"
    <3>1. CASE k = id
      BY <1>1, <1>3, <3>1
    <3>2. CASE k \in 1 .. Len(orders)
      BY <1>0, <1>1, <1>2, <1>4, <2>3, <3>2 DEF Named
    <3> QED
      BY <1>4, <1>5, <3>1, <3>2
  <2> QED
    BY <2>1, <2>2, <2>3 DEF Named
<1>10. Terms'
  <2>1. ASSUME NEW r2 \in Resting
        PROVE  SameTerms(orders'[r2.order.client], r2.order.symbol, r2.side, r2.price)
    <3>1. r2.order.client \in 1 .. Len(orders)
      BY <1>0, <1>7, RestingIds
    <3> QED
      BY <1>0, <1>1, <3>1 DEF Terms
  <2> QED
    BY <1>2, <1>8, <2>1 DEF Terms, RefuseNew
<1>11. Flight'
  BY <1>0, <1>2, <1>8 DEF Flight
<1>12. Tracked'
  <2>1. ASSUME NEW x \in 1 .. Len(ledger')
        PROVE  Tracks(InTransit', x, orders'[ledger'[x].client], ledger'[x].reported, x \in LiveIds')
    <3>1. Tracks(InTransit, x, orders[ledger[x].client], ledger[x].reported, x \in LiveIds)
      BY <1>0, <1>2 DEF Tracked
    <3>2. orders'[ledger'[x].client] = orders[ledger[x].client]
      BY <1>1, <1>2, <1>7
    <3>3. (x \in LiveIds') = (x \in LiveIds)
      BY <1>8
    <3> QED
      BY <1>2, <1>8, <3>1, <3>2, <3>3
  <2> QED
    BY <2>1 DEF Tracked
<1>13. Handled'
  <2>1. RowsKept(ledger, ledger')
    BY <1>0, <1>2 DEF RowsKept
  <2> QED
    BY <1>0, <1>1, <1>2, <2>1, NothingDelivered
<1>14. PositionIsFills'
  <2>1. \A t : MovedIn(orders', t) = MovedIn(orders, t)
    BY <1>0, <1>1, MovedAppend
  <2>2. \A t \in Symbols : positions[t].quantity = MovedIn(orders, t)
    BY <1>0, SignedIsMoved
  <2>3. \A t \in Symbols : positions'[t].quantity = MovedIn(orders', t)
    BY <1>2, <2>1, <2>2
  <2> QED
    BY <2>3, SignedIsMoved
<1> QED
  BY <1>1, <1>9, <1>10, <1>11, <1>12, <1>13, <1>14

-----------------------------------------------------------------------------
(* The matching loop turns, and process() returns.                         *)

(* A ledger with the same rows keeps them. *)
LEMMA SameRowsKept ==
    ASSUME ledger \in Seq(Row), SameOrders(ledger, ledger'),
           \A x \in 1 .. Len(ledger) : ledger'[x].quantity = ledger[x].quantity
    PROVE  RowsKept(ledger, ledger') /\ Len(ledger') = Len(ledger) /\ Len(ledger') \in Nat
BY DEF RowsKept, SameOrders

(* A trade: both orders' reports still track them. *)
LEMMA TradeTracked ==
    ASSUME BatchFits, FlowInv, ExchangeMatches
    PROVE  Named' /\ Terms' /\ Flight' /\ Tracked' /\ Handled' /\ PositionIsFills' /\ OInv'
<1>0. /\ OInv /\ ExchangeInv /\ Named /\ Terms /\ Flight /\ Tracked /\ Handled /\ PositionIsFills
      /\ Room /\ Accounts /\ Match /\ Len(ledger) \in Nat /\ ledger \in Seq(Row)
  BY DEF FlowInv, ExchangeInv, ExchangeMatches
<1>1. UNCHANGED <<orders, paid, fills, positions, seen_reports, wire, delivered>>
  BY DEF ExchangeMatches, handlerVars, orderVars, positionVars
<1> DEFINE q == TradeQuantity
           x1 == Front.exch
           x2 == work.exch
           o1 == orders[Front.client]
           o2 == orders[work.client]
<1>2. /\ work # Idle /\ work \in Incoming /\ Front \in RestingOrder /\ q \in Nat \ {0}
      /\ x1 \in 1 .. Len(ledger) /\ x2 \in 1 .. Len(ledger) /\ x1 # x2
  BY <1>0, MatchSays, TradeFacts
<1>3. /\ Place(book, TradeSide, TradePrice, 1) \in Resting
      /\ Place(book, TradeSide, TradePrice, 1).order = Front
      /\ Place(book, TradeSide, TradePrice, 1).side = TradeSide
      /\ Place(book, TradeSide, TradePrice, 1).price = TradePrice
  BY <1>0, MatchOrders, PlaceFields DEF Front, TradeLevel
<1>4. ledger[x1].client = Front.client /\ ledger[x2].client = work.client
  <2>1. ledger[x1].client = Front.client
    BY <1>0, <1>3, RestingIds
  <2>2. ledger[x2].client = work.client
    BY <1>0, <1>2 DEF ExchangeInv, WorkInv
  <2> QED
    BY <2>1, <2>2
<1>5. /\ Front.client \in ClientIds /\ work.client \in ClientIds
      /\ ledger[x1].quantity = o1.quantity /\ ledger[x2].quantity = o2.quantity
  BY <1>0, <1>2, <1>4 DEF Named
<1>6. /\ o1 \in OrderType /\ o2 \in OrderType /\ o1.filled \in Nat /\ o2.filled \in Nat
      /\ Front.client \in Nat \ {0} /\ work.client \in Nat \ {0}
  <2>1. o1 \in OrderType
    BY <1>0, <1>5, OrderAt
  <2>2. o2 \in OrderType
    BY <1>0, <1>5, OrderAt
  <2>3. \A o \in OrderType : o.filled \in Nat
    BY DEF OrderType
  <2>4. \A id \in ClientIds : id \in Nat \ {0}
    BY DEF ClientIds
  <2> HIDE DEF o1, o2
  <2> QED
    BY <1>5, <2>1, <2>2, <2>3, <2>4
<1>7. /\ SameTerms(o1, Front.symbol, TradeSide, TradePrice)
      /\ SameTerms(o2, work.symbol, work.side, work.price)
  BY <1>0, <1>2, <1>3 DEF Terms
<1>8. Front.symbol \in Symbols /\ work.symbol \in Symbols
  BY <1>6, <1>7 DEF SameTerms, OrderType
<1>9. /\ ledger[x1].reported = Front.filled
      /\ ledger[x1].quantity = Front.filled + Front.remaining
      /\ ledger[x2].reported = work.cumulative
      /\ ledger[x2].quantity = work.cumulative + work.remaining
  BY <1>0, <1>2, <1>3 DEF Accounts, Accounted
<1>10. /\ Front.filled \in Nat /\ Front.remaining \in Nat
       /\ work.cumulative \in Nat /\ work.remaining \in Nat
  BY <1>2 DEF RestingOrder, Incoming
<1>11. PICK a, b \in ReportRecord :
          /\ batch' = Append(Append(batch, a), b)
          /\ FillSays(a, Front, TradeSide, TradePrice, q, Front.filled + q, Front.remaining - q)
          /\ FillSays(b, work, work.side, TradePrice, q, work.cumulative + q, work.remaining - q)
          /\ a.price > 0 /\ a.last > 0 /\ b.price > 0 /\ b.last > 0
  BY <1>0, <1>6, <1>8, MatchReports
<1>12. /\ SameOrders(ledger, ledger')
       /\ \A x \in 1 .. Len(ledger) :
             /\ ledger'[x].quantity = ledger[x].quantity
             /\ x # x1 /\ x # x2 => ledger'[x] = ledger[x]
       /\ ledger'[x1].reported = ledger[x1].reported + q
       /\ ledger'[x2].reported = ledger[x2].reported + q
  BY <1>0, MatchSays, MatchLedger DEF BatchFits
<1>13. /\ RowsKept(ledger, ledger') /\ Len(ledger') = Len(ledger) /\ Len(ledger') \in Nat
       /\ \A x \in 1 .. Len(ledger) : ledger'[x].client = ledger[x].client
  BY <1>0, <1>12, SameRowsKept DEF SameOrders
<1>14. /\ x1 \in LiveIds /\ x2 \in LiveIds
       /\ x1 \in LiveIds' <=> Front.remaining - q # 0
       /\ x2 \in LiveIds' <=> work.remaining - q # 0
       /\ \A x : x # x1 /\ x # x2 => (x \in LiveIds' <=> x \in LiveIds)
  BY <1>0, MatchLive
<1>15. work' = [work EXCEPT !.cumulative = @ + q, !.remaining = @ - q]
  BY <1>0, MatchSays
<1>16. /\ work'.exch = work.exch /\ work'.client = work.client /\ work'.symbol = work.symbol
       /\ work'.side = work.side /\ work'.price = work.price /\ work' # Idle
  BY <1>2, <1>15 DEF Incoming, Idle
<1>17. FrontAfter.client = Front.client /\ FrontAfter.symbol = Front.symbol
  BY <1>2 DEF FrontAfter, RestingOrder
<1>18. /\ a.exch = x1 /\ a.client = Front.client /\ a.last = q /\ a.leaves = Front.remaining - q
       /\ IsFill(a) /\ FillAgrees(a, o1) /\ a.cumulative = ledger[x1].reported + a.last
  BY <1>2, <1>5, <1>7, <1>9, <1>10, <1>11 DEF FillSays, FillAgrees, SameTerms, IsFill
<1>19. /\ b.exch = x2 /\ b.client = work.client /\ b.last = q /\ b.leaves = work.remaining - q
       /\ IsFill(b) /\ FillAgrees(b, o2) /\ b.cumulative = ledger[x2].reported + b.last
  BY <1>2, <1>5, <1>7, <1>9, <1>10, <1>11 DEF FillSays, FillAgrees, SameTerms, IsFill
<1> DEFINE T == InTransit
<1>20. /\ T \in Seq(ReportRecord) /\ Append(T, a) \in Seq(ReportRecord)
       /\ T' = Append(Append(T, a), b)
  <2>1. wire \in Seq(ReportRecord) /\ batch \in Seq(ReportRecord)
    BY <1>0 DEF Flight
  <2>2. T = wire \o batch /\ T' = wire \o Append(Append(batch, a), b)
    BY <1>1, <1>2, <1>11, <1>16 DEF InTransit
  <2>3. wire \o Append(Append(batch, a), b) = Append(Append(wire \o batch, a), b)
    <3>1. \A s \in Seq(ReportRecord), e \in ReportRecord : 
              wire \o Append(s, e) = Append(wire \o s, e)
      BY <2>1
    <3>2. Append(batch, a) \in Seq(ReportRecord)
      BY <2>1
    <3> QED
      BY <2>1, <3>1, <3>2
  <2>4. wire \o batch \in Seq(ReportRecord)
    BY <2>1
  <2> HIDE DEF T
  <2> QED
    BY <2>2, <2>3, <2>4
<1> HIDE DEF T, q, x1, x2, o1, o2
<1>21. Tracks(Append(T, a), x1, o1, ledger'[x1].reported, x1 \in LiveIds')
  <2>1. Tracks(T, x1, o1, ledger[x1].reported, x1 \in LiveIds)
    BY <1>0, <1>2, <1>4 DEF Tracked, T, o1
  <2>2. (x1 \in LiveIds) = TRUE /\ (x1 \in LiveIds') = (a.leaves # 0)
    BY <1>14, <1>18
  <2>3. Tracks(Append(T, a), x1, o1, ledger[x1].reported + a.last, a.leaves # 0)
    BY <1>6, <1>18, <1>20, <2>1, <2>2, FillAppended DEF o1
  <2> QED
    BY <1>12, <1>18, <2>2, <2>3
<1>22. Tracks(T', x1, o1, ledger'[x1].reported, x1 \in LiveIds')
  BY <1>2, <1>19, <1>20, <1>21, OtherAppended
<1>23. Tracks(Append(T, a), x2, o2, ledger[x2].reported, TRUE)
  <2>1. Tracks(T, x2, o2, ledger[x2].reported, x2 \in LiveIds)
    BY <1>0, <1>2, <1>4 DEF Tracked, T, o2
  <2>2. (x2 \in LiveIds) = TRUE
    BY <1>14
  <2> QED
    BY <1>2, <1>18, <1>20, <2>1, <2>2, OtherAppended
<1>24. Tracks(T', x2, o2, ledger'[x2].reported, x2 \in LiveIds')
  <2>1. (x2 \in LiveIds') = (b.leaves # 0)
    BY <1>14, <1>19
  <2>2. Tracks(Append(Append(T, a), b), x2, o2, ledger[x2].reported + b.last, b.leaves # 0)
    BY <1>6, <1>19, <1>20, <1>23, FillAppended DEF o2
  <2> QED
    BY <1>12, <1>19, <1>20, <2>1, <2>2
<1>25. Tracked'
  <2>1. ASSUME NEW x \in 1 .. Len(ledger')
        PROVE  Tracks(T', x, orders'[ledger'[x].client], ledger'[x].reported, x \in LiveIds')
    <3>1. x \in 1 .. Len(ledger)
      BY <1>13
    <3>2. orders'[ledger'[x].client] = orders[ledger[x].client]
      BY <1>1, <1>13, <3>1
    <3>3. CASE x = x1
      BY <1>4, <1>22, <3>2, <3>3 DEF o1
    <3>4. CASE x = x2
      BY <1>4, <1>24, <3>2, <3>4 DEF o2
    <3>5. CASE x # x1 /\ x # x2
      <4>1. Tracks(T, x, orders[ledger[x].client], ledger[x].reported, x \in LiveIds)
        BY <1>0, <3>1 DEF Tracked, T
      <4>2. Tracks(Append(T, a), x, orders[ledger[x].client], ledger[x].reported, x \in LiveIds)
        BY <1>18, <1>20, <3>5, <4>1, OtherAppended
      <4>3. Tracks(T', x, orders[ledger[x].client], ledger[x].reported, x \in LiveIds)
        BY <1>19, <1>20, <3>5, <4>2, OtherAppended
      <4>4. (x \in LiveIds') = (x \in LiveIds) /\ ledger'[x].reported = ledger[x].reported
        BY <1>12, <1>14, <3>1, <3>5
      <4> QED
        BY <3>2, <4>3, <4>4
    <3> QED
      BY <3>3, <3>4, <3>5
  <2> QED
    BY <2>1 DEF Tracked, T
<1>26. Flight'
  <2>1. /\ wire' \in Seq(ReportRecord) /\ batch' \in Seq(ReportRecord) /\ batch' # <<>>
    BY <1>0, <1>1, <1>11 DEF Flight
  <2>2. ASSUME NEW k \in 1 .. Len(T')
        PROVE  T'[k].exch \in 1 .. Len(ledger') /\ T'[k].client = ledger'[T'[k].exch].client
    <3>1. /\ T'[k] = a \/ T'[k] = b \/ (k \in 1 .. Len(T) /\ T'[k] = T[k])
      BY <1>20
    <3>2. ASSUME k \in 1 .. Len(T)
          PROVE  T[k].exch \in 1 .. Len(ledger) /\ T[k].client = ledger[T[k].exch].client
      BY <1>0, <3>2 DEF Flight, T
    <3> QED
      BY <1>2, <1>4, <1>13, <1>18, <1>19, <3>1, <3>2
  <2> QED
    BY <2>1, <2>2 DEF Flight, T
<1>27. Terms'
  <2>1. ASSUME NEW r \in Resting'
        PROVE  SameTerms(orders'[r.order.client], r.order.symbol, r.side, r.price)
    <3>1. CASE r \in Resting
      BY <1>0, <1>1, <3>1 DEF Terms
    <3>2. CASE r.side = TradeSide /\ r.price = TradePrice /\ r.order = FrontAfter
      BY <1>1, <1>7, <1>17, <3>2 DEF o1
    <3> QED
      BY <1>0, <3>1, <3>2, MatchOrders
  <2>2. SameTerms(orders'[work'.client], work'.symbol, work'.side, work'.price)
    BY <1>1, <1>7, <1>16 DEF o2
  <2> QED
    BY <2>1, <2>2 DEF Terms
<1>28. OrdersKept(orders, orders') /\ OInv'
  <2>1. OInv'
    BY <1>0, <1>1 DEF OInv, OrdersTypeOK, FillAccounting, AverageHonest, ClientIds
  <2> QED
    BY <1>0, <1>1, <2>1, SameOrdersKept
<1>29. Named'
  BY <1>0, <1>1, <1>13, <1>28, NamedKept
<1>30. Handled'
  BY <1>0, <1>1, <1>13, <1>28, NothingDelivered
<1>31. PositionIsFills'
  BY <1>0, <1>1, SignedIsMoved
<1> QED
  BY <1>25, <1>26, <1>27, <1>28, <1>29, <1>30, <1>31

(* The call returns: its reports are under way as they were. *)
LEMMA ReturnTracked ==
    ASSUME FlowInv, ExchangeReturns
    PROVE  Named' /\ Terms' /\ Flight' /\ Tracked' /\ Handled' /\ PositionIsFills' /\ OInv'
<1>0. /\ OInv /\ ExchangeInv /\ Named /\ Terms /\ Flight /\ Tracked /\ Handled /\ PositionIsFills
      /\ Finish /\ Len(ledger) \in Nat /\ ledger \in Seq(Row)
  BY DEF FlowInv, ExchangeInv, ExchangeReturns
<1>1. /\ UNCHANGED <<orders, paid, fills, positions, seen_reports, delivered, batch, ledger>>
      /\ work # Idle /\ work' = Idle /\ wire' = wire \o batch
  BY DEF ExchangeReturns, Finish, handlerVars, orderVars, positionVars
<1>2. RowsKept(ledger, ledger') /\ Len(ledger') = Len(ledger) /\ Len(ledger') \in Nat
  BY <1>0, <1>1 DEF RowsKept
<1>3. OrdersKept(orders, orders') /\ OInv'
  <2>1. OInv'
    BY <1>0, <1>1 DEF OInv, OrdersTypeOK, FillAccounting, AverageHonest, ClientIds
  <2> QED
    BY <1>0, <1>1, <2>1, SameOrdersKept
<1>4. InTransit' = InTransit
  BY <1>1 DEF InTransit
<1>5. \A x : x \in LiveIds' <=> x \in LiveIds
  BY <1>0, FinishLive
<1>6. Tracked'
  <2>1. ASSUME NEW x \in 1 .. Len(ledger')
        PROVE  Tracks(InTransit', x, orders'[ledger'[x].client], ledger'[x].reported, x \in LiveIds')
    <3>1. Tracks(InTransit, x, orders[ledger[x].client], ledger[x].reported, x \in LiveIds)
      BY <1>0, <1>1 DEF Tracked
    <3>2. (x \in LiveIds') = (x \in LiveIds)
      BY <1>5
    <3> QED
      BY <1>1, <1>4, <3>1, <3>2
  <2> QED
    BY <2>1 DEF Tracked
<1>7. Flight'
  <2>1. wire' \in Seq(ReportRecord) /\ batch' \in Seq(ReportRecord)
    BY <1>0, <1>1 DEF Flight
  <2> QED
    BY <1>0, <1>1, <1>4, <2>1 DEF Flight
<1>8. Terms'
  <2>1. ASSUME NEW r \in Resting'
        PROVE  SameTerms(orders'[r.order.client], r.order.symbol, r.side, r.price)
    <3>1. CASE r \in Resting
      BY <1>0, <1>1, <3>1 DEF Terms
    <3>2. CASE r.side = work.side /\ r.price = work.price /\ r.order = Rested
      <4>1. r.order.client = work.client /\ r.order.symbol = work.symbol
        BY <3>2 DEF Rested
      <4> QED
        BY <1>0, <1>1, <3>2, <4>1 DEF Terms
    <3> QED
      BY <1>0, <3>1, <3>2, FinishOrders
  <2> QED
    BY <1>1, <2>1 DEF Terms
<1>9. Named'
  BY <1>0, <1>1, <1>2, <1>3, NamedKept
<1>10. Handled'
  BY <1>0, <1>1, <1>2, <1>3, NothingDelivered
<1>11. PositionIsFills'
  BY <1>0, <1>1, SignedIsMoved
<1> QED
  BY <1>3, <1>6, <1>7, <1>8, <1>9, <1>10, <1>11

-----------------------------------------------------------------------------
(* A cancel is sent, for the first time or again.                          *)

(* The exchange answers with one report: it cancels a live order, and        *)
(* refuses to cancel another.                                              *)
LEMMA CancelAnswered ==
    ASSUME MaxReports # 0, ExchangeInv, Named,
           \A r \in Resting : r.order.symbol \in Symbols,
           NEW x0 \in 1 .. Len(ledger), NEW id \in Nat \ {0}, ledger[x0].client = id,
           NEW o \in OrderType, o.exchange_id = x0,
           process_cancel_order(Gateway!cancel_request(id, o))
    PROVE  \E a \in ReportRecord :
              /\ batch' = <<a>> /\ a.client = id /\ a.exch = x0
              /\ \/ a.type = "CancelAck" /\ x0 \in LiveIds
                 \/ a.type = "CancelReject" /\ x0 \notin LiveIds
              /\ \A x : x \in LiveIds' <=> x \in LiveIds /\ x # x0
              /\ work = Idle /\ work' = Idle /\ Resting' \subseteq Resting
              /\ SameOrders(ledger, ledger')
              /\ \A x \in 1 .. Len(ledger) :
                    /\ ledger'[x].quantity = ledger[x].quantity
                    /\ ledger'[x].reported = ledger[x].reported
<1> DEFINE r == Gateway!cancel_request(id, o)
<1>1. r.client = id /\ r.exch = x0 /\ r.symbol = o.symbol /\ r.side = o.side
  BY DEF Gateway!cancel_request
<1>2. o.symbol \in Symbols /\ o.side \in Sides /\ x0 \in Nat \ {0}
  BY DEF OrderType
<1>3. CancelResting(id) \/ CancelUnknown(r)
  BY <1>1 DEF process_cancel_order
<1> HIDE DEF r
<1>4. CASE CancelResting(id)
  <2>1. PICK a \in ReportRecord :
          /\ batch' = <<a>> /\ a.type = "CancelAck" /\ a.client = id
          /\ a.exch \in 1 .. Len(ledger) /\ ledger[a.exch].client = id /\ a.exch \in LiveIds
          /\ \A x : x \in LiveIds' <=> x \in LiveIds /\ x # a.exch
          /\ work = Idle /\ work' = Idle /\ Resting' \subseteq Resting
          /\ SameOrders(ledger, ledger')
          /\ \A x \in 1 .. Len(ledger) :
                /\ ledger'[x].quantity = ledger[x].quantity
                /\ ledger'[x].reported = ledger[x].reported
    BY <1>4, CancelReports
  <2>2. a.exch = x0
    BY <2>1 DEF Named
  <2> QED
    BY <2>1, <2>2
<1>5. CASE CancelUnknown(r)
  <2>1. PICK a \in ReportRecord :
              /\ batch' = <<a>> /\ a.type = "CancelReject"
              /\ a.client = r.client /\ a.exch = r.exch
              /\ \A x \in LiveIds : ledger[x].client # r.client
              /\ work = Idle /\ UNCHANGED <<book, work, ledger>> /\ Resting' = Resting
              /\ \A x : x \in LiveIds' <=> x \in LiveIds
    BY <1>1, <1>2, <1>5, RefusalReports
  <2>2. x0 \notin LiveIds
    BY <1>1, <2>1
  <2>3. SameOrders(ledger, ledger')
    BY <2>1 DEF SameOrders
  <2> QED
    BY <1>1, <2>1, <2>2, <2>3
<1> QED
  BY <1>3, <1>4, <1>5

(* A cancel that was sent still may be. *)
LEMMA CancelTracked ==
    ASSUME BatchFits, FlowInv, NEW id \in ClientIds,
           SendCancel(id, orders'[id]), OInv', OrdersKept(orders, orders'),
           Len(orders') = Len(orders), \A k \in ClientIds : k # id => orders'[k] = orders[k],
           orders'[id].status = "PendingCancel", orders'[id].filled = orders[id].filled,
           orders'[id].exchange_id = orders[id].exchange_id,
           \/ orders'[id] = orders[id]
           \/ orders[id].status \in {"Acked", "PartiallyFilled"}
    PROVE  Named' /\ Terms' /\ Flight' /\ Tracked' /\ Handled' /\ PositionIsFills'
<1>0. /\ OInv /\ ExchangeInv /\ Named /\ Terms /\ Flight /\ Tracked /\ Handled /\ PositionIsFills
      /\ Room /\ Len(ledger) \in Nat /\ ledger \in Seq(Row) /\ Len(orders) \in Nat
      /\ orders \in Seq(OrderType) /\ orders' \in Seq(OrderType)
  BY DEF FlowInv, ExchangeInv, OInv, OrdersTypeOK
<1> DEFINE n == orders'[id]
<1>1. orders[id].status # "PendingNew" /\ n \in OrderType /\ id \in Nat \ {0}
  BY <1>0 DEF ClientIds
<1>2. PICK x0 \in 1 .. Len(ledger) : ledger[x0].client = id
  BY <1>0, <1>1 DEF Named
<1>3. /\ Tracks(InTransit, x0, orders[id], ledger[x0].reported, x0 \in LiveIds)
      /\ n.exchange_id = x0
  <2>1. Tracks(InTransit, x0, orders[id], ledger[x0].reported, x0 \in LiveIds)
    BY <1>0, <1>2 DEF Tracked
  <2>2. orders[id].exchange_id = x0
    BY <1>1, <2>1 DEF Tracks, AckFirst
  <2> QED
    BY <2>1, <2>2
<1>4. SameOrder(n, orders[id])
  BY DEF OrdersKept, Later, ClientIds
<1> HIDE DEF n
<1>5. Tracks(InTransit, x0, n, ledger[x0].reported, x0 \in LiveIds)
  <2>1. CASE n = orders[id]
    BY <1>3, <2>1
  <2>2. CASE orders[id].status \in {"Acked", "PartiallyFilled"}
    BY <1>3, <1>4, <2>2, CancelRequested DEF n
  <2> QED
    BY <2>1, <2>2 DEF n
<1>6. MaxReports # 0
  BY <1>0, <1>2, ExchangeAssumption DEF Room, BatchFits
<1>7. \A r \in Resting : r.order.symbol \in Symbols
  <2>1. ASSUME NEW r \in Resting PROVE r.order.symbol \in Symbols
    <3>1. r.order.client \in ClientIds
      BY <1>0, RestingIds DEF Named
    <3>2. orders[r.order.client] \in OrderType
      BY <1>0, <3>1, OrderAt
    <3>3. orders[r.order.client].symbol = r.order.symbol
      BY <1>0 DEF Terms, SameTerms
    <3> QED
      BY <3>2, <3>3 DEF OrderType
  <2> QED
    BY <2>1
<1>8. /\ process_cancel_order(Gateway!cancel_request(id, n)) /\ wire' = wire \o batch'
      /\ UNCHANGED <<positions, seen_reports, delivered>>
  BY DEF SendCancel, positionVars, n
<1>9. PICK a \in ReportRecord :
              /\ batch' = <<a>> /\ a.client = id /\ a.exch = x0
              /\ \/ a.type = "CancelAck" /\ x0 \in LiveIds
                 \/ a.type = "CancelReject" /\ x0 \notin LiveIds
              /\ \A x : x \in LiveIds' <=> x \in LiveIds /\ x # x0
              /\ work = Idle /\ work' = Idle /\ Resting' \subseteq Resting
              /\ SameOrders(ledger, ledger')
              /\ \A x \in 1 .. Len(ledger) :
                    /\ ledger'[x].quantity = ledger[x].quantity
                    /\ ledger'[x].reported = ledger[x].reported
  BY <1>0, <1>1, <1>2, <1>3, <1>6, <1>7, <1>8, CancelAnswered
<1>10. /\ RowsKept(ledger, ledger') /\ Len(ledger') = Len(ledger) /\ Len(ledger') \in Nat
       /\ \A x \in 1 .. Len(ledger) : ledger'[x].client = ledger[x].client
  BY <1>0, <1>9, SameRowsKept DEF SameOrders
<1> DEFINE T == InTransit
<1>11. /\ T \in Seq(ReportRecord) /\ T' = Append(T, a) /\ T = wire /\ T' = wire'
  <2>1. wire \in Seq(ReportRecord) /\ T = wire /\ T' = wire \o <<a>> /\ T' = wire'
    BY <1>0, <1>8, <1>9 DEF Flight, InTransit
  <2>2. wire \o <<a>> = Append(wire, a)
    BY <2>1
  <2> HIDE DEF T
  <2> QED
    BY <2>1, <2>2
<1> HIDE DEF T
<1>12. Tracks(T', x0, n, ledger[x0].reported, x0 \in LiveIds')
  <2>1. (x0 \in LiveIds') = FALSE
    BY <1>9
  <2>2. CASE a.type = "CancelAck" /\ x0 \in LiveIds
    <3>1. (x0 \in LiveIds) = TRUE
      BY <2>2
    <3>2. Tracks(T, x0, n, ledger[x0].reported, TRUE)
      BY <1>5, <3>1 DEF T
    <3>3. Tracks(Append(T, a), x0, n, ledger[x0].reported, FALSE)
      BY <1>9, <1>11, <2>2, <3>2, CancelAckAppended DEF n
    <3> QED
      BY <1>11, <2>1, <3>3
  <2>3. CASE a.type = "CancelReject" /\ x0 \notin LiveIds
    <3>1. (x0 \in LiveIds) = FALSE
      BY <2>3
    <3>2. Tracks(T, x0, n, ledger[x0].reported, FALSE)
      BY <1>5, <3>1 DEF T
    <3>3. Tracks(Append(T, a), x0, n, ledger[x0].reported, FALSE)
      BY <1>9, <1>11, <2>3, <3>2, CancelRejectAppended
    <3> QED
      BY <1>11, <2>1, <3>3
  <2> QED
    BY <1>9, <2>2, <2>3
<1>13. Tracked'
  <2>1. ASSUME NEW x \in 1 .. Len(ledger')
        PROVE  Tracks(T', x, orders'[ledger'[x].client], ledger'[x].reported, x \in LiveIds')
    <3>1. x \in 1 .. Len(ledger) /\ ledger'[x].reported = ledger[x].reported
          /\ ledger'[x].client = ledger[x].client
      BY <1>9, <1>10
    <3>2. CASE x = x0
      BY <1>2, <1>12, <3>1, <3>2 DEF n
    <3>3. CASE x # x0
      <4>1. ledger[x].client # id /\ ledger[x].client \in ClientIds
        BY <1>0, <1>2, <3>1, <3>3 DEF Named
      <4>2. orders'[ledger[x].client] = orders[ledger[x].client]
        BY <4>1
      <4>3. Tracks(T, x, orders[ledger[x].client], ledger[x].reported, x \in LiveIds)
        BY <1>0, <3>1 DEF Tracked, T
      <4>4. Tracks(T', x, orders[ledger[x].client], ledger[x].reported, x \in LiveIds)
        BY <1>9, <1>11, <3>3, <4>3, OtherAppended
      <4>5. (x \in LiveIds') = (x \in LiveIds)
        BY <1>9, <3>3
      <4> QED
        BY <3>1, <4>2, <4>4, <4>5
    <3> QED
      BY <3>2, <3>3
  <2> QED
    BY <2>1 DEF Tracked, T
<1>14. Flight'
  <2>1. wire' \in Seq(ReportRecord) /\ batch' \in Seq(ReportRecord)
    <3>1. wire' = Append(wire, a) /\ wire \in Seq(ReportRecord)
      BY <1>11
    <3>2. batch' = <<a>> /\ a \in ReportRecord
      BY <1>9
    <3>3. wire' \in Seq(ReportRecord)
      BY <3>1, <3>2
    <3> QED
      BY <3>2, <3>3
  <2>2. ASSUME NEW k \in 1 .. Len(T')
        PROVE  T'[k].exch \in 1 .. Len(ledger') /\ T'[k].client = ledger'[T'[k].exch].client
    <3>1. T'[k] = a \/ (k \in 1 .. Len(T) /\ T'[k] = T[k])
      BY <1>11
    <3>2. ASSUME k \in 1 .. Len(T)
          PROVE  T[k].exch \in 1 .. Len(ledger) /\ T[k].client = ledger[T[k].exch].client
      BY <1>0, <3>2 DEF Flight, T
    <3> QED
      BY <1>2, <1>9, <1>10, <3>1, <3>2
  <2> QED
    BY <1>9, <2>1, <2>2 DEF Flight, T
<1>15. Terms'
  <2>1. ASSUME NEW r \in Resting'
        PROVE  SameTerms(orders'[r.order.client], r.order.symbol, r.side, r.price)
    <3>1. r \in Resting /\ r.order.client \in ClientIds
      <4>1. r \in Resting
        BY <1>9
      <4>2. /\ r.order.exch \in 1 .. Len(ledger)
            /\ ledger[r.order.exch].client = r.order.client
        BY <1>0, <4>1, RestingIds
      <4> QED
        BY <1>0, <4>1, <4>2 DEF Named
    <3>2. SameOrder(orders'[r.order.client], orders[r.order.client])
      BY <3>1 DEF OrdersKept, Later, ClientIds
    <3> QED
      BY <1>0, <3>1, <3>2 DEF Terms, SameTerms, SameOrder
  <2> QED
    BY <1>9, <2>1 DEF Terms
<1>16. Named'
  <2>1. \A k \in ClientIds : (\A x \in 1 .. Len(ledger) : ledger[x].client # k)
               => orders'[k].status = orders[k].status
    BY <1>2
  <2> QED
    BY <1>0, <1>10, <2>1, NamedKept
<1>17. Handled'
  BY <1>0, <1>8, <1>10, NothingDelivered
<1>18. PositionIsFills'
  <2>1. \A k \in 1 .. Len(orders) :
            SameOrder(orders'[k], orders[k]) /\ orders'[k].filled = orders[k].filled
    BY DEF OrdersKept, Later, ClientIds
  <2>2. \A t : MovedIn(orders', t) = MovedIn(orders, t)
    BY <1>0, <2>1, MovedSame
  <2>3. \A t \in Symbols : positions[t].quantity = MovedIn(orders, t)
    BY <1>0, SignedIsMoved
  <2>4. \A t \in Symbols : positions'[t].quantity = MovedIn(orders', t)
    BY <1>8, <2>2, <2>3
  <2> QED
    BY <2>4, SignedIsMoved
<1> QED
  BY <1>13, <1>14, <1>15, <1>16, <1>17, <1>18

(* A cancel that the OMS asks for. *)
LEMMA OrderCancelled ==
    ASSUME BatchFits, FlowInv, NEW id \in ClientIds, CancelOrder(id)
    PROVE  /\ OInv'
           /\ Named' /\ Terms' /\ Flight' /\ Tracked' /\ Handled' /\ PositionIsFills'
<1> DEFINE o == orders[id]
<1>0. OInv /\ orders \in Seq(OrderType) /\ Len(orders) \in Nat /\ id \in 1 .. Len(orders)
  BY DEF FlowInv, OInv, OrdersTypeOK, ClientIds
<1>1. apply_event(id, "CancelRequest") /\ SendCancel(id, orders'[id])
  BY DEF CancelOrder, request_cancel
<1>2. OInv'
  <2>1. "CancelRequest" \in OrderEvents \ FillEvents
    BY DEF OrderEvents, FillEvents
  <2> QED
    BY <1>0, <1>1, <2>1, PlainEventPreserves
<1>3. /\ o.status \in {"Acked", "PartiallyFilled"}
      /\ orders' = [orders EXCEPT ![id] = [o EXCEPT !.status = "PendingCancel"]]
  BY <1>1 DEF apply_event, Takes, Accepts, AllowedFrom, apply
<1> DEFINE n == [o EXCEPT !.status = "PendingCancel"]
<1>4. o \in OrderType
  BY <1>0
<1>5. /\ n.status = "PendingCancel" /\ n.filled = o.filled /\ n.exchange_id = o.exchange_id
      /\ SameOrder(n, o)
  BY <1>4 DEF OrderType, SameOrder
<1>6. o.filled \in Nat /\ o.status # "PendingNew" /\ ~is_terminal(o.status)
  BY <1>3, <1>4 DEF OrderType, is_terminal
<1> HIDE DEF o, n
<1>7. /\ Len(orders') = Len(orders) /\ orders'[id] = n
      /\ \A k \in 1 .. Len(orders) : k # id => orders'[k] = orders[k]
  BY <1>0, <1>3 DEF n, o
<1>8. Later(o, n)
  BY <1>5, <1>6 DEF Later
<1>9. OrdersKept(orders, orders')
  <2>1. ASSUME NEW k \in 1 .. Len(orders) PROVE Later(orders[k], orders'[k])
    <3>1. orders[k] \in OrderType
      BY <1>0
    <3>2. CASE k = id
      BY <1>7, <1>8, <3>2 DEF o
    <3>3. CASE k # id
      <4>1. orders'[k] = orders[k]
        BY <1>7, <3>3
      <4>2. Later(orders[k], orders[k])
        BY <3>1, LaterSame
      <4> QED
        BY <4>1, <4>2
    <3> QED
      BY <3>2, <3>3
  <2> QED
    BY <1>0, <1>7, <2>1 DEF OrdersKept
<1>10. /\ \A k \in ClientIds : k # id => orders'[k] = orders[k]
       /\ orders'[id].status = "PendingCancel" /\ orders'[id].filled = orders[id].filled
       /\ orders'[id].exchange_id = orders[id].exchange_id
       /\ orders[id].status \in {"Acked", "PartiallyFilled"}
  BY <1>3, <1>5, <1>7 DEF ClientIds, o
<1> QED
  BY <1>1, <1>2, <1>7, <1>9, <1>10, CancelTracked

(* A cancel that is sent again. *)
LEMMA CancelResent ==
    ASSUME BatchFits, FlowInv, NEW id \in ClientIds, ResendCancel(id)
    PROVE  /\ OInv'
           /\ Named' /\ Terms' /\ Flight' /\ Tracked' /\ Handled' /\ PositionIsFills'
<1>1. /\ orders[id].status = "PendingCancel" /\ orders' = orders
      /\ paid' = paid /\ fills' = fills
  BY DEF ResendCancel, orderVars
<1>2. SendCancel(id, orders'[id])
  BY <1>1 DEF ResendCancel
<1>3. OInv'
  BY <1>1 DEF FlowInv, OInv, OrdersTypeOK, FillAccounting, AverageHonest, ClientIds
<1>4. OrdersKept(orders, orders')
  BY <1>1, SameOrdersKept DEF FlowInv
<1>5. /\ Len(orders') = Len(orders) /\ \A k \in ClientIds : k # id => orders'[k] = orders[k]
      /\ orders'[id].status = "PendingCancel" /\ orders'[id].filled = orders[id].filled
      /\ orders'[id].exchange_id = orders[id].exchange_id /\ orders'[id] = orders[id]
  BY <1>1
<1> QED
  BY <1>2, <1>3, <1>4, <1>5, CancelTracked

-----------------------------------------------------------------------------
(* What the handler does with a report.                                    *)

(* A trade moves the position by the signed size. *)
LEMMA TradeMoves ==
    ASSUME NEW st \in PositionState, NEW d \in Sides, NEW p \in Nat, NEW f \in Nat
    PROVE  Applied(st, d, p, f).quantity = st.quantity + SignedFill(d, f)
<1> DEFINE m == Counted(st, d, f)
<1>1. m \in PositionState /\ m.quantity = st.quantity + SignedFill(d, f)
  BY CountedFields DEF Sides
<1>2. AddTo(st, d, p, f).quantity = m.quantity
  BY <1>1 DEF AddTo, PositionState
<1>3. Reduce(st, d, p, f).quantity = m.quantity
  BY <1>1 DEF Reduce, PositionState
<1> HIDE DEF m
<1> QED
  BY <1>1, <1>2, <1>3 DEF Applied

(* The OMS takes a report: the order is After, and a fill also trades. *)
LEMMA ReportTaken ==
    ASSUME OInv, PosInv, NEW r \in ReportRecord, r.client \in ClientIds, Update(r),
           r.type # "CancelReject"
    PROVE  /\ OInv' /\ PosInv'
           /\ orders' = [orders EXCEPT ![r.client] = After(orders[r.client], r)]
           /\ ~IsFill(r) => positions' = positions
           /\ IsFill(r) => positions' = [positions EXCEPT ![r.symbol] =
                               Applied(positions[r.symbol], r.side, r.price, r.last)]
<1> DEFINE id == r.client
<1>1. /\ r.exch \in Nat /\ r.type \in ReportTypes /\ r.symbol \in Symbols /\ r.side \in Sides
      /\ r.price \in Nat /\ r.last \in Nat
  BY DEF ReportRecord
<1>2. CASE r.type = "NewAck"
  <2>1. on_new_ack(id, r.exch) /\ UNCHANGED positionVars
    BY <1>2 DEF Update
  <2>2. OInv'
    BY <1>1, <2>1, AckPreserves
  <2>3. orders' = [orders EXCEPT ![id] = After(orders[id], r)]
    BY <1>2, <2>1 DEF on_new_ack, After
  <2>4. PosInv' /\ positions' = positions
    BY <2>1 DEF positionVars, PosInv, PositionsTypeOK, PositionConsistent, ProfitMatchesCash
  <2> QED
    BY <1>2, <2>2, <2>3, <2>4 DEF IsFill
<1>3. CASE r.type = "CancelAck"
  <2>1. apply_event(id, "CancelAck") /\ UNCHANGED positionVars
    BY <1>3 DEF Update, on_cancel_ack
  <2>2. "CancelAck" \in OrderEvents \ FillEvents
    BY DEF OrderEvents, FillEvents
  <2>3. OInv'
    BY <2>1, <2>2, PlainEventPreserves
  <2>4. orders' = [orders EXCEPT ![id] = After(orders[id], r)]
    BY <1>3, <2>1 DEF apply_event, After, IsFill
  <2>5. PosInv' /\ positions' = positions
    BY <2>1 DEF positionVars, PosInv, PositionsTypeOK, PositionConsistent, ProfitMatchesCash
  <2> QED
    BY <1>3, <2>3, <2>4, <2>5 DEF IsFill
<1>4. CASE IsFill(r)
  <2>1. r.type \in FillEvents
    BY <1>4 DEF IsFill, FillEvents
  <2>2. ApplyFillEvent(id, r.type, r.last, r.price) /\ apply_fill_report(r)
    BY <1>4 DEF Update, IsFill, on_partial_fill, on_fill
  <2>3. OInv'
    BY <1>1, <2>1, <2>2, FillEventPreserves
  <2>4. orders' = [orders EXCEPT ![id] = After(orders[id], r)]
    BY <1>4, <2>2 DEF ApplyFillEvent, After, IsFill
  <2>5. apply_trade(r.symbol, r.side, r.price, r.last)
    BY <2>2 DEF apply_fill_report
  <2>6. PosInv'
    BY <1>1, <2>5, TradePreserves, FlowAssumption DEF Sides
  <2>7. positions' = [positions EXCEPT ![r.symbol] =
                          Applied(positions[r.symbol], r.side, r.price, r.last)]
    BY <2>5 DEF apply_trade
  <2> QED
    BY <1>4, <2>3, <2>4, <2>6, <2>7
<1> QED
  BY <1>1, <1>2, <1>3, <1>4 DEF ReportTypes, IsFill

(* As long as the report key tells the orders apart, no report under way      *)
(* counts as a duplicate.                                                  *)
LEMMA NotDuplicate ==
    ASSUME FlowInv, KeysDistinct, InTransit # <<>>, InTransit[1].type # "CancelReject"
    PROVE  ~duplicate(InTransit[1]) /\ InTransit[1] \notin delivered
<1> DEFINE T == InTransit
           r == T[1]
           x == r.exch
           o == orders[ledger[x].client]
<1>0. /\ OInv /\ Named /\ Flight /\ Tracked /\ Handled /\ Len(ledger) \in Nat
      /\ T \in Seq(ReportRecord)
  BY TransitType DEF FlowInv, ExchangeInv
<1>1. 1 \in 1 .. Len(T) /\ r \in ReportRecord
  BY <1>0
<1>2. x \in 1 .. Len(ledger) /\ r.client = ledger[x].client
  BY <1>0, <1>1 DEF Flight
<1>3. r.client \in ClientIds
  BY <1>0, <1>2 DEF Named
<1>4. Tracks(T, x, o, ledger[x].reported, x \in LiveIds)
  BY <1>0, <1>2 DEF Tracked
<1>5. o \in OrderType /\ o.filled \in Nat
  <2>1. orders[r.client] \in OrderType
    BY <1>0, <1>3, OrderAt
  <2> QED
    BY <1>2, <2>1 DEF OrderType
<1> HIDE DEF T
<1>6. /\ r.type = "NewAck" => o.status = "PendingNew"
      /\ r.type = "CancelAck" => o.status = "PendingCancel"
      /\ IsFill(r) => FillAgrees(r, o) /\ r.cumulative = o.filled + r.last
  BY <1>0, <1>4, <1>5, HeadFacts DEF T
<1> HIDE DEF r, x, o
<1>7. SUFFICES ASSUME NEW d \in delivered, report_key(d) = report_key(r) PROVE FALSE
  BY <1>0 DEF duplicate, Handled, T, r
<1>8. /\ MixedIds(d.client, d.exch) = MixedIds(r.client, x)
      /\ d.type = r.type /\ d.last = r.last /\ d.cumulative = r.cumulative
  BY <1>7 DEF report_key, x
<1>9. d.exch \in 1 .. Len(ledger) /\ d.client = ledger[d.exch].client
      /\ Settled(d, orders[d.client])
  BY <1>0 DEF Handled
<1>10. d.exch = x
  <2>1. DOMAIN ledger = 1 .. Len(ledger)
    BY DEF FlowInv, ExchangeInv
  <2> QED
    BY <1>2, <1>8, <1>9, <2>1 DEF KeysDistinct
<1>11. Settled(d, o)
  BY <1>9, <1>10 DEF o
<1>12. r.type \in {"NewAck", "PartialFill", "Fill", "CancelAck"} /\ r.last \in Nat
  BY <1>1 DEF ReportRecord, ReportTypes, r, T
<1>13. CASE r.type = "NewAck"
  BY <1>6, <1>8, <1>11, <1>13 DEF Settled
<1>14. CASE r.type = "CancelAck"
  BY <1>6, <1>8, <1>11, <1>14 DEF Settled, is_terminal
<1>15. CASE IsFill(r)
  <2>1. IsFill(d)
    BY <1>8, <1>15 DEF IsFill
  <2>2. r.cumulative <= o.filled
    BY <1>8, <1>11, <2>1 DEF Settled
  <2>3. r.cumulative = o.filled + r.last /\ r.last > 0
    BY <1>6, <1>15 DEF FillAgrees
  <2> QED
    BY <1>5, <1>12, <2>2, <2>3
<1> QED
  BY <1>12, <1>13, <1>14, <1>15 DEF IsFill

(* The first report under way, which refuses no cancel, is taken. *)
LEMMA HeadUpdate ==
    ASSUME FlowInv, KeysDistinct, InTransit # <<>>, InTransit[1].type # "CancelReject",
           on_report(InTransit[1])
    PROVE  LET r == InTransit[1]
               o == orders[r.client]
           IN /\ r \in ReportRecord /\ r.client \in ClientIds
              /\ o \in OrderType /\ (IsFill(r) => FillAgrees(r, o))
              /\ r \notin delivered
              /\ Update(r) /\ seen_reports' = seen_reports \cup {report_key(r)}
<1> DEFINE T == InTransit
           r == T[1]
           x == r.exch
           id == r.client
           o == orders[id]
<1>0. /\ OInv /\ Named /\ Flight /\ Tracked /\ Len(ledger) \in Nat
      /\ T \in Seq(ReportRecord) /\ orders \in Seq(OrderType) /\ Len(orders) \in Nat
  BY TransitType DEF FlowInv, ExchangeInv, OInv, OrdersTypeOK
<1>1. 1 \in 1 .. Len(T) /\ r \in ReportRecord
  BY <1>0
<1>2. x \in 1 .. Len(ledger) /\ id = ledger[x].client
  BY <1>0, <1>1 DEF Flight
<1>3. id \in ClientIds
  BY <1>0, <1>2 DEF Named
<1>4. Tracks(T, x, o, ledger[x].reported, x \in LiveIds)
  BY <1>0, <1>2 DEF Tracked
<1>5. o \in OrderType /\ FillsAddUp(o)
  BY <1>0, <1>3, OrderAt
<1>6. o.filled \in Nat
  BY <1>5 DEF OrderType
<1>7. Accepts(o, r.type, r.last, r.price) /\ (IsFill(r) => FillAgrees(r, o))
  <2> DEFINE reported == ledger[x].reported
             live == x \in LiveIds
  <2>1. Tracks(T, x, o, reported, live)
    BY <1>4
  <2> HIDE DEF T, reported, live, o
  <2>2. Accepts(o, r.type, r.last, r.price)
    BY <1>0, <1>5, <2>1, HeadTaken DEF T
  <2>3. IsFill(r) => FillAgrees(r, o)
    BY <1>0, <1>6, <2>1, HeadFacts DEF T
  <2> QED
    BY <2>2, <2>3 DEF o
<1>8. ~duplicate(r) /\ r \notin delivered
  BY NotDuplicate
<1>9. id # 0
  BY <1>1 DEF ReportRecord
<1>10. Acceptable(r)
  BY <1>3, <1>7, <1>8, <1>9 DEF Acceptable, Takes
<1>11. Update(r) /\ seen_reports' = seen_reports \cup {report_key(r)}
  BY <1>10 DEF on_report, remember
<1> QED
  BY <1>1, <1>3, <1>5, <1>7, <1>8, <1>11

(* The first report under way: whether the OMS takes it or not, the rest track *)
(* the order, and the position moves by the report's share.                  *)
LEMMA HeadDelivered ==
    ASSUME FlowInv, KeysDistinct, InTransit # <<>>, on_report(InTransit[1])
    PROVE  LET r == InTransit[1]
               x == r.exch
               id == r.client
               o == orders[id]
               n == orders'[id]
           IN /\ OInv' /\ PosInv' /\ id \in ClientIds /\ x \in 1 .. Len(ledger)
              /\ id = ledger[x].client /\ r \in ReportRecord
              /\ Len(orders') = Len(orders)
              /\ \A k \in ClientIds : k # id => orders'[k] = orders[k]
              /\ Tracks(Tail(InTransit), x, n, ledger[x].reported, x \in LiveIds)
              /\ Later(o, n) /\ Settled(r, n) /\ n.filled = o.filled + Share(InTransit, x, 1)
              /\ Share(InTransit, x, 1) \in Nat
              /\ seen_reports' \subseteq seen_reports \cup {report_key(r)}
              /\ seen_reports \subseteq seen_reports'
              /\ IsFill(r) => report_key(r) \in seen_reports'
              /\ \A s \in Symbols : positions'[s].quantity =
                    IF s = o.symbol
                    THEN positions[s].quantity + SignedFill(o.side, Share(InTransit, x, 1))
                    ELSE positions[s].quantity
<1> DEFINE T == InTransit
           r == T[1]
           x == r.exch
           id == r.client
           o == orders[id]
           n == orders'[id]
           sh == Share(T, x, 1)
<1>0. /\ OInv /\ PosInv /\ Named /\ Flight /\ Tracked /\ Handled /\ Len(ledger) \in Nat
      /\ T \in Seq(ReportRecord) /\ orders \in Seq(OrderType) /\ Len(orders) \in Nat
  BY TransitType DEF FlowInv, ExchangeInv, OInv, OrdersTypeOK
<1>1. 1 \in 1 .. Len(T) /\ r \in ReportRecord
  BY <1>0
<1>2. x \in 1 .. Len(ledger) /\ id = ledger[x].client
  BY <1>0, <1>1 DEF Flight
<1>3. id \in ClientIds
  BY <1>0, <1>2 DEF Named
<1>4. Tracks(T, x, o, ledger[x].reported, x \in LiveIds)
  BY <1>0, <1>2 DEF Tracked
<1>5. o \in OrderType /\ FillsAddUp(o)
  BY <1>0, <1>3, OrderAt
<1>6. o.filled \in Nat /\ sh \in Nat /\ r.last \in Nat
  <2>1. r.last \in Nat
    BY <1>1 DEF ReportRecord
  <2> QED
    BY <1>5, <2>1 DEF OrderType, Share
<1>7. /\ IsFill(r) => FillAgrees(r, o) /\ sh = r.last
      /\ ~IsFill(r) => sh = 0
  BY <1>0, <1>4, <1>6, HeadFacts
<1>8. positions \in [Symbols -> PositionState]
  BY <1>0, FlowAssumption DEF PosInv, PositionsTypeOK
<1>9. \A s \in Symbols : positions[s].quantity \in Int
  BY <1>8 DEF PositionState
<1>10. CASE r.type # "CancelReject"
  <2>1. /\ Accepts(o, r.type, r.last, r.price)
        /\ Tracks(Tail(T), x, After(o, r), ledger[x].reported, x \in LiveIds)
        /\ After(o, r).filled = o.filled + sh /\ Later(o, After(o, r)) /\ Settled(r, After(o, r))
    <3> DEFINE reported == ledger[x].reported
               live == x \in LiveIds
    <3>1. Tracks(T, x, o, reported, live)
      BY <1>4
    <3> HIDE DEF T, reported, live, o
    <3> QED
      BY <1>0, <1>5, <1>10, <3>1, HeadTaken DEF reported, live, T
  <2>5. Update(r) /\ seen_reports' = seen_reports \cup {report_key(r)}
    BY <1>10, HeadUpdate
  <2>6. /\ OInv' /\ PosInv' /\ orders' = [orders EXCEPT ![id] = After(o, r)]
        /\ ~IsFill(r) => positions' = positions
        /\ IsFill(r) => positions' = [positions EXCEPT ![r.symbol] =
                            Applied(positions[r.symbol], r.side, r.price, r.last)]
    BY <1>0, <1>1, <1>3, <1>10, <2>5, ReportTaken
  <2>7. /\ n = After(o, r) /\ Len(orders') = Len(orders)
        /\ \A k \in ClientIds : k # id => orders'[k] = orders[k]
    <3> DEFINE m == After(o, r)
    <3>1. orders' = [orders EXCEPT ![id] = m]
      BY <2>6
    <3> HIDE DEF m, id
    <3> QED
      BY <1>0, <1>3, <3>1 DEF ClientIds, m
  <2>8. ASSUME NEW s \in Symbols
        PROVE  positions'[s].quantity = IF s = o.symbol
                                        THEN positions[s].quantity + SignedFill(o.side, sh)
                                        ELSE positions[s].quantity
    <3>1. CASE IsFill(r)
      <4>1. /\ r.symbol = o.symbol /\ r.side = o.side /\ sh = r.last
            /\ r.symbol \in Symbols /\ r.side \in Sides /\ r.price \in Nat
        BY <1>1, <1>7, <3>1 DEF FillAgrees, ReportRecord
      <4> DEFINE m == Applied(positions[r.symbol], r.side, r.price, r.last)
      <4>2. positions[r.symbol] \in PositionState
        BY <1>8, <4>1
      <4>3. m.quantity = positions[r.symbol].quantity + SignedFill(r.side, r.last)
        BY <1>6, <4>1, <4>2, TradeMoves
      <4>4. positions' = [positions EXCEPT ![r.symbol] = m]
        BY <2>6, <3>1
      <4> HIDE DEF m
      <4>5. positions'[s] = IF s = r.symbol THEN m ELSE positions[s]
        BY <1>8, <4>4
      <4> QED
        BY <4>1, <4>3, <4>5
    <3>2. CASE ~IsFill(r)
      <4>1. sh = 0 /\ positions' = positions /\ SignedFill(o.side, sh) = 0
        BY <1>7, <2>6, <3>2 DEF SignedFill
      <4> QED
        BY <1>9, <4>1
    <3> QED
      BY <3>1, <3>2
  <2> HIDE DEF n, o, sh
  <2> QED
    BY <1>1, <1>2, <1>3, <1>6, <2>1, <2>5, <2>6, <2>7, <2>8 DEF n, o, sh
<1>11. CASE r.type = "CancelReject"
  <2>1. /\ ~Accepts(o, r.type, r.last, r.price)
        /\ Tracks(Tail(T), x, o, ledger[x].reported, x \in LiveIds)
        /\ sh = 0 /\ Settled(r, o)
    <3> DEFINE reported == ledger[x].reported
               live == x \in LiveIds
    <3>1. Tracks(T, x, o, reported, live)
      BY <1>4
    <3> HIDE DEF T, reported, live, o
    <3> QED
      BY <1>0, <1>5, <1>11, <3>1, HeadLeft DEF reported, live, T
  <2>2. UNCHANGED handlerVars
    BY <2>1 DEF on_report, Acceptable, Takes
  <2>3. /\ orders' = orders /\ paid' = paid /\ fills' = fills /\ positions' = positions
        /\ cash' = cash /\ slack' = slack /\ trades' = trades /\ seen_reports' = seen_reports
    BY <2>2 DEF handlerVars, orderVars, positionVars
  <2>4. OInv' /\ PosInv'
    BY <1>0, <2>3 DEF OInv, OrdersTypeOK, FillAccounting, AverageHonest, ClientIds, PosInv,
       PositionsTypeOK, PositionConsistent, ProfitMatchesCash
  <2>5. n = o /\ Later(o, n)
    BY <1>5, <2>3, LaterSame
  <2>6. ~IsFill(r) /\ SignedFill(o.side, sh) = 0
    BY <1>11, <2>1 DEF IsFill, SignedFill
  <2>7. \A s \in Symbols : positions'[s].quantity =
            IF s = o.symbol THEN positions[s].quantity + SignedFill(o.side, sh)
            ELSE positions[s].quantity
    BY <1>9, <2>3, <2>6
  <2>8. n.filled = o.filled + sh
    BY <1>6, <2>1, <2>5
  <2>9. Tracks(Tail(T), x, n, ledger[x].reported, x \in LiveIds) /\ Settled(r, n)
    BY <2>1, <2>5
  <2> HIDE DEF n, o, sh
  <2> QED
    BY <1>1, <1>2, <1>3, <1>6, <2>3, <2>4, <2>5, <2>6, <2>7, <2>8, <2>9 DEF n, o, sh
<1> QED
  BY <1>10, <1>11

(* A report is handled. *)
LEMMA DeliveryTracked ==
    ASSUME FlowInv, KeysDistinct, Deliver
    PROVE  /\ OInv' /\ PosInv'
           /\ Named' /\ Terms' /\ Flight' /\ Tracked' /\ Handled' /\ PositionIsFills'
<1>0. /\ OInv /\ PosInv /\ ExchangeInv /\ Named /\ Terms /\ Flight /\ Tracked /\ Handled
      /\ PositionIsFills /\ Len(ledger) \in Nat
      /\ orders \in Seq(OrderType) /\ Len(orders) \in Nat
  BY DEF FlowInv, ExchangeInv, OInv, OrdersTypeOK
<1> DEFINE T == InTransit
           r == T[1]
           x0 == r.exch
           id == r.client
           o == orders[id]
           n == orders'[id]
           sh == Share(T, x0, 1)
<1>1. /\ work = Idle /\ wire # <<>> /\ on_report(Head(wire)) /\ wire' = Tail(wire)
      /\ delivered' = delivered \cup {Head(wire)}
      /\ book' = book /\ ledger' = ledger /\ work' = work /\ batch' = batch
  BY DEF Deliver, exchangeVars
<1>2. T = wire /\ T' = Tail(T) /\ T # <<>> /\ T \in Seq(ReportRecord) /\ Head(wire) = r
  <2>1. T = wire /\ T' = Tail(T) /\ T # <<>>
    BY <1>1 DEF InTransit
  <2>2. T \in Seq(ReportRecord)
    BY <1>0, TransitType
  <2> QED
    BY <2>1, <2>2
<1>3. /\ OInv' /\ PosInv' /\ id \in ClientIds /\ x0 \in 1 .. Len(ledger)
      /\ id = ledger[x0].client /\ r \in ReportRecord
      /\ Len(orders') = Len(orders)
      /\ \A k \in ClientIds : k # id => orders'[k] = orders[k]
      /\ Tracks(Tail(T), x0, n, ledger[x0].reported, x0 \in LiveIds)
      /\ Later(o, n) /\ Settled(r, n) /\ n.filled = o.filled + sh
      /\ sh \in Nat
      /\ seen_reports' \subseteq seen_reports \cup {report_key(r)}
      /\ seen_reports \subseteq seen_reports'
      /\ IsFill(r) => report_key(r) \in seen_reports'
      /\ \A s \in Symbols : positions'[s].quantity =
            IF s = o.symbol THEN positions[s].quantity + SignedFill(o.side, sh)
            ELSE positions[s].quantity
  <2>1. on_report(T[1]) /\ InTransit # <<>>
    BY <1>1, <1>2
  <2> QED
    BY <2>1, HeadDelivered
<1>4. orders' \in Seq(OrderType)
  BY <1>3 DEF OInv, OrdersTypeOK
<1>5. Resting' = Resting /\ LiveIds' = LiveIds
  <2>1. Resting' = Resting
    BY <1>1, RestingOrders
  <2> QED
    BY <1>1, <2>1 DEF LiveIds
<1> HIDE DEF T, r, x0, id, o, n, sh
<1>6. /\ RowsKept(ledger, ledger') /\ Len(ledger') = Len(ledger)
  BY <1>0, <1>1 DEF RowsKept
<1>7. OrdersKept(orders, orders')
  <2>1. ASSUME NEW k \in 1 .. Len(orders) PROVE Later(orders[k], orders'[k])
    <3>1. orders[k] \in OrderType
      BY <1>0
    <3>2. CASE k = id
      BY <1>3, <3>2 DEF o, n
    <3>3. CASE k # id
      <4>1. orders'[k] = orders[k]
        BY <1>3, <3>3 DEF ClientIds
      <4>2. Later(orders[k], orders[k])
        BY <3>1, LaterSame
      <4> QED
        BY <4>1, <4>2
    <3> QED
      BY <3>2, <3>3
  <2> QED
    BY <1>0, <1>3, <2>1 DEF OrdersKept
<1>8. Named'
  <2>1. \A k \in ClientIds : (\A x \in 1 .. Len(ledger) : ledger[x].client # k)
               => orders'[k].status = orders[k].status
    BY <1>3
  <2> QED
    BY <1>0, <1>3, <1>6, <1>7, <2>1, NamedKept
<1>9. Terms'
  <2>1. \A k \in ClientIds : SameOrder(orders'[k], orders[k])
    BY <1>7 DEF OrdersKept, Later, ClientIds
  <2>2. ASSUME NEW c \in Resting'
        PROVE  SameTerms(orders'[c.order.client], c.order.symbol, c.side, c.price)
    <3>1. c \in Resting
      BY <1>5
    <3>2. /\ c.order.exch \in 1 .. Len(ledger)
          /\ ledger[c.order.exch].client = c.order.client
      BY <1>0, <3>1, RestingIds
    <3>3. SameOrder(orders'[c.order.client], orders[c.order.client])
      BY <1>0, <2>1, <3>2 DEF Named
    <3> QED
      BY <1>0, <3>1, <3>3 DEF Terms, SameTerms, SameOrder
  <2> QED
    BY <1>1, <2>2 DEF Terms
<1>10. Flight'
  <2>1. /\ Tail(T) \in Seq(ReportRecord) /\ Len(Tail(T)) = Len(T) - 1 /\ Len(T) \in Nat \ {0}
        /\ \A k \in 1 .. Len(T) - 1 : Tail(T)[k] = T[k + 1]
    BY <1>2, TailFacts
  <2>2. ASSUME NEW k \in 1 .. Len(T')
        PROVE  T'[k].exch \in 1 .. Len(ledger') /\ T'[k].client = ledger'[T'[k].exch].client
    <3>1. k + 1 \in 1 .. Len(T) /\ T'[k] = T[k + 1]
      BY <1>2, <2>1
    <3> QED
      BY <1>0, <1>1, <3>1 DEF Flight, T
  <2>3. wire' \in Seq(ReportRecord) /\ batch' \in Seq(ReportRecord)
    BY <1>0, <1>1, <1>2, <2>1 DEF Flight
  <2>4. work' # Idle => batch' # <<>>
    BY <1>1
  <2> QED
    BY <2>2, <2>3, <2>4 DEF Flight, T
<1>11. Tracked'
  <2>1. ASSUME NEW x \in 1 .. Len(ledger')
        PROVE  Tracks(T', x, orders'[ledger'[x].client], ledger'[x].reported, x \in LiveIds')
    <3>1. x \in 1 .. Len(ledger) /\ ledger' = ledger
      BY <1>1
    <3>2. (x \in LiveIds') = (x \in LiveIds)
      BY <1>5
    <3>3. CASE x = x0
      <4>1. Tracks(Tail(T), x, orders'[ledger[x].client], ledger[x].reported, x \in LiveIds)
        BY <1>3, <3>3 DEF n
      <4> QED
        BY <1>2, <3>1, <3>2, <4>1
    <3>4. CASE x # x0
      <4>1. ledger[x].client # id /\ ledger[x].client \in ClientIds
        BY <1>0, <1>3, <3>1, <3>4 DEF Named
      <4>2. orders'[ledger[x].client] = orders[ledger[x].client]
        BY <1>3, <4>1
      <4>3. Tracks(T, x, orders[ledger[x].client], ledger[x].reported, x \in LiveIds)
        BY <1>0, <3>1 DEF Tracked, T
      <4>4. T[1].exch # x
        BY <3>4 DEF x0, r
      <4>5. Tracks(Tail(T), x, orders[ledger[x].client], ledger[x].reported, x \in LiveIds)
        <5> DEFINE oo == orders[ledger[x].client]
                   reported == ledger[x].reported
                   live == x \in LiveIds
        <5>1. Tracks(T, x, oo, reported, live)
          BY <4>3
        <5> HIDE DEF oo, reported, live
        <5>2. Tracks(Tail(T), x, oo, reported, live)
          BY <1>2, <4>4, <5>1, OtherHandled
        <5> QED
          BY <5>2 DEF oo, reported, live
      <4> QED
        BY <1>2, <3>1, <3>2, <4>2, <4>5
    <3> QED
      BY <3>3, <3>4
  <2> QED
    BY <2>1 DEF Tracked, T
<1>12. Handled'
  <2>1. delivered' = delivered \cup {r}
    BY <1>1, <1>2
  <2>2. \A d \in delivered :
            /\ d \in ReportRecord /\ d.exch \in 1 .. Len(ledger')
            /\ d.client = ledger'[d.exch].client /\ Settled(d, orders'[d.client])
    BY <1>0, <1>3, <1>6, <1>7, HandledKept
  <2>3. \A d \in delivered : IsFill(d) => report_key(d) \in seen_reports'
    BY <1>0, <1>3 DEF Handled
  <2>4. /\ r.exch \in 1 .. Len(ledger') /\ r.client = ledger'[r.exch].client
        /\ Settled(r, orders'[r.client])
    BY <1>1, <1>3 DEF x0, id, n
  <2>5. seen_reports' \subseteq {report_key(d) : d \in delivered'}
    BY <1>0, <1>3, <2>1 DEF Handled
  <2> QED
    BY <1>3, <2>1, <2>2, <2>3, <2>4, <2>5 DEF Handled
<1>13. PositionIsFills'
  <2>1. ASSUME NEW s \in Symbols PROVE positions'[s].quantity = MovedIn(orders', s)
    <3>1. positions[s].quantity = MovedIn(orders, s)
      BY <1>0, SignedIsMoved
    <3>2. SameOrder(n, o)
      BY <1>3 DEF Later
    <3>3. MovedIn(orders', s) = IF s = o.symbol
                                THEN MovedIn(orders, s) + SignedFill(o.side, sh)
                                ELSE MovedIn(orders, s)
      <4>1. \A k \in 1 .. Len(orders) : k # id => orders'[k] = orders[k]
        BY <1>3 DEF ClientIds
      <4>2. id \in 1 .. Len(orders) /\ orders'[id].filled = orders[id].filled + sh
            /\ SameOrder(orders'[id], orders[id]) /\ Len(orders') = Len(orders)
        BY <1>3, <3>2 DEF ClientIds, n, o
      <4> DEFINE ns == orders'
      <4>3. ns \in Seq(OrderType) /\ Len(ns) = Len(orders) /\ ns[id].filled = orders[id].filled + sh
            /\ SameOrder(ns[id], orders[id]) /\ \A k \in 1 .. Len(orders) : k # id => ns[k] = orders[k]
        BY <1>4, <4>1, <4>2
      <4> HIDE DEF ns
      <4>4. MovedIn(ns, s) = IF s = orders[id].symbol
                             THEN MovedIn(orders, s) + SignedFill(orders[id].side, sh)
                             ELSE MovedIn(orders, s)
        <5>1. orders \in Seq(OrderType) /\ sh \in Nat /\ id \in 1 .. Len(orders)
          BY <1>0, <1>3, <4>2
        <5> QED
          BY <4>3, <5>1, MovedFill
      <4> QED
        BY <4>4 DEF o, ns
    <3> QED
      BY <1>3, <3>1, <3>3
  <2> QED
    BY <2>1, SignedIsMoved
<1> QED
  BY <1>3, <1>8, <1>9, <1>10, <1>11, <1>12, <1>13

(* A report that is delivered again changes nothing. *)
LEMMA RedeliveryIgnored ==
    ASSUME FlowInv, NEW r \in delivered, Redeliver(r)
    PROVE  UNCHANGED flowVars
<1>1. /\ OInv /\ Named /\ Handled
  BY DEF FlowInv
<1>2. /\ r \in ReportRecord /\ r.exch \in 1 .. Len(ledger) /\ r.client = ledger[r.exch].client
      /\ Settled(r, orders[r.client]) /\ (IsFill(r) => report_key(r) \in seen_reports)
  BY <1>1 DEF Handled
<1>3. ~Acceptable(r)
  <2>1. CASE r.type = "NewAck"
    <3>1. orders[r.client].status # "PendingNew"
      BY <1>2, <2>1 DEF Settled
    <3> QED
      BY <2>1, <3>1 DEF Acceptable, Takes, Accepts, AllowedFrom
  <2>2. CASE IsFill(r)
    BY <1>2, <2>2 DEF Acceptable, duplicate
  <2>3. CASE r.type \in {"CancelAck", "CancelReject"}
    <3>1. is_terminal(orders[r.client].status)
      BY <1>2, <2>3 DEF Settled
    <3> QED
      BY <2>3, <3>1 DEF Acceptable, Takes, Accepts, AllowedFrom, is_terminal
  <2>4. r.type \in ReportTypes
    BY <1>2 DEF ReportRecord
  <2> QED
    BY <2>1, <2>2, <2>3, <2>4 DEF ReportTypes, IsFill
<1> QED
  BY <1>3 DEF Redeliver, on_report, flowVars

-----------------------------------------------------------------------------
(* Every step keeps the invariant.                                         *)

(* To the exchange, every step of the flow is one of its own or none. *)
LEMMA WithinExchange ==
    ASSUME FlowInv, [FlowNext]_flowVars
    PROVE  [ExchangeStep]_exchangeVars
<1>1. ASSUME NEW s \in Symbols, NEW d \in Sides, NEW p \in Prices, NEW q \in Quantities,
             SendNew(Order(s, d, p, q))
      PROVE  ExchangeStep
  <2>1. ExchangeInv /\ Named /\ Len(orders) \in Nat
    BY DEF FlowInv, OInv, OrdersTypeOK
  <2>2. PICK r \in Requests : Accept(r)
    BY <1>1, <2>1, SendAccepts
  <2> QED
    BY <2>2 DEF ExchangeStep, process_new_order
<1>2. ASSUME NEW o, RefuseNew(o) PROVE UNCHANGED exchangeVars
  BY <1>2 DEF RefuseNew
<1>3. ASSUME ExchangeMatches PROVE ExchangeStep
  BY <1>3 DEF ExchangeMatches, ExchangeStep
<1>4. ASSUME ExchangeReturns PROVE ExchangeStep
  BY <1>4 DEF ExchangeReturns, ExchangeStep
<1>5. ASSUME NEW id \in ClientIds, CancelOrder(id) PROVE ExchangeStep
  BY <1>5 DEF CancelOrder, SendCancel, ExchangeStep
<1>6. ASSUME NEW id \in ClientIds, ResendCancel(id) PROVE ExchangeStep
  BY <1>6 DEF ResendCancel, SendCancel, ExchangeStep
<1>7. ASSUME Deliver PROVE UNCHANGED exchangeVars
  BY <1>7 DEF Deliver
<1>8. ASSUME NEW r, Redeliver(r) PROVE UNCHANGED exchangeVars
  BY <1>8 DEF Redeliver
<1>9. ASSUME UNCHANGED flowVars PROVE UNCHANGED exchangeVars
  BY <1>9 DEF flowVars
<1> QED
  BY <1>1, <1>2, <1>3, <1>4, <1>5, <1>6, <1>7, <1>8, <1>9 DEF FlowNext

(* So the exchange keeps its invariants. *)
LEMMA ExchangeKept ==
    ASSUME BatchFits, FlowInv, [FlowNext]_flowVars
    PROVE  ExchangeInv' /\ Room' /\ Accounts'
BY WithinExchange, StepInv, StepRoom, StepAccounts DEF FlowInv

(* Each request of the gateway is an accepted order or a sent cancel. *)
LEMMA NumberedKept ==
    ASSUME FlowInv, [FlowNext]_flowVars
    PROVE  Numbered'
<1>0. /\ Numbered /\ ExchangeInv /\ Named /\ Len(orders) \in Nat
      /\ Len(ledger) \in Nat /\ cancels \in Nat /\ next_sequence = Len(ledger) + cancels + 1
  BY DEF FlowInv, OInv, OrdersTypeOK, ExchangeInv, Numbered
<1>1. ASSUME NEW s \in Symbols, NEW d \in Sides, NEW p \in Prices, NEW q \in Quantities,
             SendNew(Order(s, d, p, q))
      PROVE  Numbered'
  <2>1. PICK r \in Requests : Accept(r)
    BY <1>0, <1>1, SendAccepts
  <2>2. Len(ledger') = Len(ledger) + 1
    BY <1>0, <2>1 DEF Accept, ExchangeInv
  <2>3. next_sequence' = next_sequence + 1 /\ cancels' = cancels
    BY <1>1 DEF SendNew, CreateAndSubmit, Gateway!allocate_sequence
  <2> QED
    BY <1>0, <2>2, <2>3 DEF Numbered
<1>2. ASSUME UNCHANGED <<next_sequence, cancels>>, Len(ledger') = Len(ledger) PROVE Numbered'
  BY <1>0, <1>2 DEF Numbered
<1>3. ASSUME NEW o, RefuseNew(o) PROVE Numbered'
  BY <1>2, <1>3 DEF RefuseNew, CreateAndSubmit, exchangeVars
<1>4. ASSUME ExchangeMatches PROVE Numbered'
  <2>1. Len(ledger') = Len(ledger)
    BY <1>0, <1>4, MatchLedger DEF ExchangeMatches, SameOrders
  <2> QED
    BY <1>2, <1>4, <2>1 DEF ExchangeMatches
<1>5. ASSUME ExchangeReturns PROVE Numbered'
  BY <1>2, <1>5 DEF ExchangeReturns, Finish
<1>6. ASSUME NEW o, NEW id, SendCancel(id, o) PROVE Numbered'
  <2>1. Len(ledger') = Len(ledger)
    <3>1. CASE CancelResting(Gateway!cancel_request(id, o).client)
      BY <1>0, <3>1, CancelOrders DEF SameOrders
    <3>2. CASE CancelUnknown(Gateway!cancel_request(id, o))
      BY <3>2 DEF CancelUnknown
    <3> QED
      BY <1>6, <3>1, <3>2 DEF SendCancel, process_cancel_order
  <2>2. next_sequence' = next_sequence + 1 /\ cancels' = cancels + 1
    BY <1>6 DEF SendCancel, Gateway!allocate_sequence
  <2> QED
    BY <1>0, <2>1, <2>2 DEF Numbered
<1>7. ASSUME NEW id \in ClientIds, CancelOrder(id) \/ ResendCancel(id) PROVE Numbered'
  BY <1>6, <1>7 DEF CancelOrder, ResendCancel
<1>8. ASSUME Deliver PROVE Numbered'
  BY <1>2, <1>8 DEF Deliver, exchangeVars
<1>9. ASSUME NEW r, Redeliver(r) PROVE Numbered'
  BY <1>2, <1>9 DEF Redeliver, exchangeVars
<1>10. ASSUME UNCHANGED flowVars PROVE Numbered'
  BY <1>2, <1>10 DEF flowVars, exchangeVars
<1> QED
  BY <1>1, <1>3, <1>4, <1>5, <1>7, <1>8, <1>9, <1>10 DEF FlowNext

(* What the positions keep, when no report is handled. *)
LEMMA PositionsUntouched == PosInv /\ UNCHANGED positionVars => PosInv'
BY DEF positionVars, PosInv, PositionsTypeOK, PositionConsistent, ProfitMatchesCash

(* A step that changes nothing. *)
LEMMA NothingChanges == FlowInv /\ UNCHANGED flowVars => FlowInv'
<1> SUFFICES ASSUME FlowInv, UNCHANGED flowVars PROVE FlowInv'
  OBVIOUS
<1>1. /\ orders' = orders /\ paid' = paid /\ fills' = fills /\ positions' = positions
      /\ cash' = cash /\ slack' = slack /\ trades' = trades /\ seen_reports' = seen_reports
      /\ book' = book /\ resting_index' = resting_index /\ ledger' = ledger
      /\ next_exchange_order_id' = next_exchange_order_id /\ work' = work /\ batch' = batch
      /\ next_sequence' = next_sequence /\ wire' = wire /\ delivered' = delivered
      /\ cancels' = cancels
  BY DEF flowVars, handlerVars, orderVars, positionVars, exchangeVars
<1>2. OInv'
  BY <1>1 DEF FlowInv, OInv, OrdersTypeOK, FillAccounting, AverageHonest, ClientIds
<1>3. PosInv'
  BY <1>1 DEF FlowInv, PosInv, PositionsTypeOK, PositionConsistent, ProfitMatchesCash
<1>4. Resting' = Resting
  BY <1>1, RestingOrders
<1>5. ClientIds' = ClientIds /\ InTransit' = InTransit /\ LiveIds' = LiveIds
  BY <1>1, <1>4 DEF ClientIds, InTransit, LiveIds
<1>6. Named'
  BY <1>1, <1>5 DEF FlowInv, Named
<1>7. Terms'
  BY <1>1, <1>4 DEF FlowInv, Terms
<1>8. Flight'
  BY <1>1, <1>5 DEF FlowInv, Flight
<1>9. Tracked'
  <2>1. \A x : (x \in LiveIds') = (x \in LiveIds)
    BY <1>5
  <2> QED
    BY <1>1, <1>5, <2>1 DEF FlowInv, Tracked
<1>10. Handled'
  BY <1>1 DEF FlowInv, Handled
<1>11. PositionIsFills'
  BY <1>1, SignedIsMoved DEF FlowInv
<1>12. Numbered' /\ ExchangeInv' /\ Room' /\ Accounts'
  <2>1. Numbered'
    BY <1>1 DEF FlowInv, Numbered
  <2>2. UNCHANGED exchangeVars
    BY DEF flowVars
  <2>3. ExchangeInv'
    BY <2>2, StepInv DEF FlowInv
  <2>4. Room'
    BY <2>2, StepRoom DEF FlowInv
  <2>5. Accounts'
    BY <1>1, <1>4 DEF FlowInv, Accounts
  <2> QED
    BY <2>1, <2>3, <2>4, <2>5
<1> QED
  BY <1>2, <1>3, <1>6, <1>7, <1>8, <1>9, <1>10, <1>11, <1>12 DEF FlowInv

(* Every step keeps the invariant, as long as the report key tells the orders  *)
(* apart and the batch is not full.                                        *)
LEMMA StepFlowInv ==
    ASSUME BatchFits, FlowInv, KeysDistinct, [FlowNext]_flowVars
    PROVE  FlowInv'
<1>1. ExchangeInv' /\ Room' /\ Accounts'
  BY ExchangeKept
<1>2. Numbered'
  BY NumberedKept
<1>3. PosInv
  BY DEF FlowInv
<1>4. ASSUME NEW s \in Symbols, NEW d \in Sides, NEW p \in Prices, NEW q \in Quantities,
             SendNew(Order(s, d, p, q))
      PROVE  FlowInv'
  <2>1. PosInv'
    BY <1>3, <1>4, PositionsUntouched DEF SendNew, CreateAndSubmit
  <2>2. Named' /\ Terms' /\ Flight' /\ Tracked' /\ Handled' /\ PositionIsFills' /\ OInv'
    BY <1>4, SendTracked
  <2> QED
    BY <1>1, <1>2, <2>1, <2>2 DEF FlowInv
<1>5. ASSUME NEW s \in Symbols, NEW d \in Sides, NEW p \in Prices, NEW q \in Quantities,
             RefuseNew(Order(s, d, p, q))
      PROVE  FlowInv'
  <2>1. PosInv'
    BY <1>3, <1>5, PositionsUntouched DEF RefuseNew, CreateAndSubmit
  <2>2. Named' /\ Terms' /\ Flight' /\ Tracked' /\ Handled' /\ PositionIsFills' /\ OInv'
    BY <1>5, RefusalTracked
  <2> QED
    BY <1>1, <1>2, <2>1, <2>2 DEF FlowInv
<1>6. CASE ExchangeMatches
  <2>1. PosInv'
    BY <1>3, <1>6, PositionsUntouched DEF ExchangeMatches, handlerVars
  <2>2. Named' /\ Terms' /\ Flight' /\ Tracked' /\ Handled' /\ PositionIsFills' /\ OInv'
    BY <1>6, TradeTracked
  <2> QED
    BY <1>1, <1>2, <2>1, <2>2 DEF FlowInv
<1>7. CASE ExchangeReturns
  <2>1. PosInv'
    BY <1>3, <1>7, PositionsUntouched DEF ExchangeReturns, handlerVars
  <2>2. Named' /\ Terms' /\ Flight' /\ Tracked' /\ Handled' /\ PositionIsFills' /\ OInv'
    BY <1>7, ReturnTracked
  <2> QED
    BY <1>1, <1>2, <2>1, <2>2 DEF FlowInv
<1>8. ASSUME NEW id \in ClientIds, CancelOrder(id) PROVE FlowInv'
  <2>1. PosInv'
    BY <1>3, <1>8, PositionsUntouched DEF CancelOrder, SendCancel
  <2>2. OInv' /\ Named' /\ Terms' /\ Flight' /\ Tracked' /\ Handled' /\ PositionIsFills'
    BY <1>8, OrderCancelled
  <2> QED
    BY <1>1, <1>2, <2>1, <2>2 DEF FlowInv
<1>9. ASSUME NEW id \in ClientIds, ResendCancel(id) PROVE FlowInv'
  <2>1. PosInv'
    BY <1>3, <1>9, PositionsUntouched DEF ResendCancel, SendCancel
  <2>2. OInv' /\ Named' /\ Terms' /\ Flight' /\ Tracked' /\ Handled' /\ PositionIsFills'
    BY <1>9, CancelResent
  <2> QED
    BY <1>1, <1>2, <2>1, <2>2 DEF FlowInv
<1>10. CASE Deliver
  <2>1. /\ OInv' /\ PosInv'
        /\ Named' /\ Terms' /\ Flight' /\ Tracked' /\ Handled' /\ PositionIsFills'
    BY <1>10, DeliveryTracked
  <2> QED
    BY <1>1, <1>2, <2>1 DEF FlowInv
<1>11. ASSUME NEW r \in delivered, Redeliver(r) PROVE FlowInv'
  BY <1>11, RedeliveryIgnored, NothingChanges
<1>12. CASE UNCHANGED flowVars
  BY <1>12, NothingChanges
<1> QED
  BY <1>4, <1>5, <1>6, <1>7, <1>8, <1>9, <1>10, <1>11, <1>12 DEF FlowNext

(* At first there is nothing. *)
LEMMA InitFlowInv == FlowInit => FlowInv
<1> SUFFICES ASSUME FlowInit PROVE FlowInv
  OBVIOUS
<1>1. /\ OrdersInit /\ PositionsInit /\ seen_reports = {} /\ ExchangeInit
      /\ next_sequence = 1 /\ wire = <<>> /\ delivered = {} /\ cancels = 0
  BY DEF FlowInit, HandlerInit, Gateway!GatewayInit
<1>2. /\ orders = <<>> /\ ledger = <<>> /\ work = Idle /\ batch = <<>>
      /\ Len(orders) = 0 /\ Len(ledger) = 0
  BY <1>1 DEF OrdersInit, ExchangeInit
<1>3. OInv /\ PosInv /\ ExchangeInv /\ Room /\ Accounts
  BY <1>1, InitOInv, InitPosInv, InitInv, InitRoom, InitAccounts
<1>4. Resting = {}
  <2>1. ASSUME NEW r \in Resting PROVE FALSE
    <3>1. r.order.exch \in 1 .. Len(ledger)
      BY <1>3, RestingIds
    <3> QED
      BY <1>2, <3>1
  <2> QED
    BY <2>1
<1>5. InTransit = <<>>
  BY <1>1, <1>2 DEF InTransit
<1>6. Named
  BY <1>2 DEF Named, ClientIds
<1>7. Terms
  BY <1>2, <1>4 DEF Terms
<1>8. Flight
  <2>1. wire \in Seq(ReportRecord) /\ batch \in Seq(ReportRecord)
    BY <1>1, <1>2
  <2> QED
    BY <1>2, <1>5, <2>1 DEF Flight
<1>9. Tracked
  BY <1>2 DEF Tracked
<1>10. Handled
  BY <1>1 DEF Handled
<1>11. Numbered
  BY <1>1, <1>2 DEF Numbered
<1>12. PositionIsFills
  <2>1. ASSUME NEW s \in Symbols PROVE positions[s].quantity = MovedIn(orders, s)
    <3>1. positions[s].quantity = 0
      BY <1>1, FlowAssumption DEF PositionsInit, Flat
    <3>2. OrdersIn(orders, s) = {}
      BY <1>2 DEF OrdersIn
    <3>3. MovedIn(orders, s) = 0
      BY <3>2, SumEmpty DEF MovedIn
    <3> QED
      BY <3>1, <3>3
  <2> QED
    BY <2>1, SignedIsMoved
<1> QED
  BY <1>3, <1>6, <1>7, <1>8, <1>9, <1>10, <1>11, <1>12 DEF FlowInv

-----------------------------------------------------------------------------
(* What the invariant says.                                                *)

(* The variables have their types. *)
LEMMA FlowTypes == FlowInv => FlowTypeOK
<1> SUFFICES ASSUME FlowInv PROVE FlowTypeOK
  OBVIOUS
<1>1. OrdersTypeOK /\ PositionsTypeOK
  BY DEF FlowInv, OInv, PosInv
<1>2. /\ Len(ledger) \in Nat /\ cancels \in Nat /\ next_sequence = Len(ledger) + cancels + 1
  BY DEF FlowInv, ExchangeInv, Numbered
<1>3. next_sequence \in Nat /\ Gateway!last_sequence = Len(ledger) + cancels
  BY <1>2 DEF Gateway!last_sequence
<1> QED
  BY <1>1, <1>3 DEF FlowTypeOK, FlowInv, Handled

(* What the exchange reported of an order is booked or under way. *)
LEMMA FillsArrive == FlowInv => EveryFillOnce
<1> SUFFICES ASSUME FlowInv, NEW x \in DOMAIN ledger
             PROVE  ledger[x].reported = orders[ledger[x].client].filled + FilledInTransit(x)
  BY DEF EveryFillOnce
<1>1. x \in 1 .. Len(ledger) /\ InTransit \in Seq(ReportRecord)
  BY TransitType DEF FlowInv, ExchangeInv
<1>2. Tracks(InTransit, x, orders[ledger[x].client], ledger[x].reported, x \in LiveIds)
  BY <1>1 DEF FlowInv, Tracked
<1>3. ledger[x].reported =
          orders[ledger[x].client].filled + UpTo(InTransit, x, Len(InTransit))
  BY <1>2 DEF Tracks, AddsUp
<1> QED
  BY <1>1, <1>3, TransitSum

(* An accepted order when no report is under way. *)
LEMMA AtRest ==
    ASSUME FlowInv, InTransit = <<>>, NEW x \in 1 .. Len(ledger)
    PROVE  LET o == orders[ledger[x].client]
           IN /\ o.status \in {"Filled", "Canceled"} \cup Working /\ o.exchange_id = x
              /\ ledger[x].reported = o.filled
              /\ o.status \in Working <=> \E r \in Resting : r.order.exch = x
<1> DEFINE o == orders[ledger[x].client]
           live == x \in LiveIds
           reported == ledger[x].reported
<1>1. Tracks(InTransit, x, o, reported, live) /\ Flight /\ OInv /\ Named
  BY DEF FlowInv, Tracked
<1>2. work = Idle
  <2>1. SUFFICES ASSUME work # Idle PROVE FALSE
    OBVIOUS
  <2>2. wire \o batch = <<>> /\ batch # <<>> /\ wire \in Seq(ReportRecord)
        /\ batch \in Seq(ReportRecord)
    BY <1>1, <2>1 DEF InTransit, Flight
  <2> QED
    BY <2>2
<1>3. live <=> \E r \in Resting : r.order.exch = x
  BY <1>2, LiveMeans
<1>4. o.filled \in Nat
  <2>1. ledger[x].client \in ClientIds
    BY <1>1 DEF Named
  <2> QED
    BY <1>1, <2>1, OrderAt DEF OrderType
<1> HIDE DEF o, live, reported
<1>5. \A k : k \notin ReportsOf(<<>>, x)
  BY DEF ReportsOf
<1>6. Tracks(<<>>, x, o, reported, live)
  BY <1>1
<1>7. o.status # "PendingNew" /\ o.exchange_id = x
  BY <1>5, <1>6 DEF Tracks, AckFirst
<1>8. live <=> ~is_terminal(o.status)
  BY <1>5, <1>6 DEF Tracks, EndsOnce
<1>9. reported = o.filled
  <2>1. UpTo(<<>>, x, 0) = 0 /\ Len(<<>>) = 0
    <3>1. <<>> \in Seq(ReportRecord)
      OBVIOUS
    <3> QED
      BY <3>1, UpToNone
  <2>2. reported = o.filled + UpTo(<<>>, x, Len(<<>>))
    BY <1>6 DEF Tracks, AddsUp
  <2> QED
    BY <1>4, <2>1, <2>2
<1>10. o.status \in {"Filled", "Canceled"} \cup Working
  BY <1>6, <1>7 DEF Tracks
<1>11. o.status \in Working <=> live
  BY <1>8, <1>10 DEF is_terminal, Working
<1> QED
  BY <1>3, <1>7, <1>9, <1>10, <1>11 DEF o, live, reported

(* An order of the book is the row of the ledger it names. *)
LEMMA RestingRow ==
    ASSUME FlowInv, NEW r \in Resting
    PROVE  /\ r.order.exch \in 1 .. Len(ledger) /\ r.order.client \in ClientIds
           /\ ledger[r.order.exch].client = r.order.client
           /\ Accounted(ledger[r.order.exch], r.order.filled, r.order.remaining)
           /\ ledger[r.order.exch].quantity = orders[r.order.client].quantity
           /\ resting_quantity(r.order.client) = r.order.remaining
           /\ r.order.filled \in Nat /\ r.order.remaining \in Nat
           /\ \A t \in Resting : t.order.client = r.order.client => t = r
<1>0. ExchangeInv /\ Named /\ Accounts
  BY DEF FlowInv
<1>1. /\ r.order.exch \in 1 .. Len(ledger) /\ r.order \in RestingOrder
      /\ r.order.client \in DOMAIN resting_index
      /\ ledger[r.order.exch].client = r.order.client
  BY <1>0, RestingIds
<1>2. r.order.client \in ClientIds
      /\ ledger[r.order.exch].quantity = orders[r.order.client].quantity
  BY <1>0, <1>1 DEF Named
<1>3. Accounted(ledger[r.order.exch], r.order.filled, r.order.remaining)
  BY <1>0 DEF Accounts
<1>4. r.order.filled \in Nat /\ r.order.remaining \in Nat
  BY <1>1 DEF RestingOrder
<1>5. BookShape(book) /\ Indexed(book, resting_index) /\ Arrived(book, ledger)
  BY <1>0 DEF ExchangeInv
<1>6. \A t \in Resting : t.order.client = r.order.client => t = r
  BY <1>5, RestsOnce, RestingOrders
<1>7. Deref(resting_index[r.order.client]) = r.order
  <2> DEFINE c == r.order.client
             entry == resting_index[c]
             level == book[entry.side][entry.price]
  <2>1. PICK i \in 1 .. Len(level) : level[i].client = c /\ Deref(entry) = level[i]
    BY <1>0, <1>1, EntryLeads
  <2>2. PICK d, p, k :
            /\ d \in BookSides /\ p \in DOMAIN book[d] /\ k \in 1 .. Len(book[d][p])
            /\ r.side = d /\ r.price = p /\ r.order = book[d][p][k]
    BY <1>5, PickOrder, RestingOrders
  <2>3. entry.side \in BookSides /\ entry.price \in DOMAIN book[entry.side]
    BY <1>0, <1>1, EntryLeads
  <2>4. /\ book[entry.side][entry.price][i].client = book[d][p][k].client
        /\ i \in 1 .. Len(book[entry.side][entry.price])
    BY <2>1, <2>2
  <2>5. entry.side = d /\ entry.price = p /\ i = k
    <3> HIDE DEF entry, level
    <3> QED
      BY <1>5, <2>2, <2>3, <2>4, OnePlace
  <2> QED
    BY <2>1, <2>2, <2>5
<1>8. resting_quantity(r.order.client) = r.order.remaining
  BY <1>1, <1>7 DEF resting_quantity, has_resting_order
<1> QED
  BY <1>1, <1>2, <1>3, <1>4, <1>6, <1>8

(* The clients of the orders in the books are the working orders. *)
LEMMA WorkingRests ==
    ASSUME FlowInv, InTransit = <<>>
    PROVE  {id \in ClientIds : orders[id].status \in Working} = {r.order.client : r \in Resting}
<1>1. ASSUME NEW id \in ClientIds, orders[id].status \in Working
      PROVE  \E r \in Resting : r.order.client = id
  <2>1. orders[id].status # "PendingNew"
    BY <1>1 DEF Working
  <2>2. PICK x \in 1 .. Len(ledger) : ledger[x].client = id
    BY <2>1 DEF FlowInv, Named
  <2>3. PICK r \in Resting : r.order.exch = x
    BY <1>1, <2>2, AtRest
  <2> QED
    BY <2>2, <2>3, RestingRow
<1>2. ASSUME NEW r \in Resting
      PROVE  r.order.client \in ClientIds /\ orders[r.order.client].status \in Working
  <2>1. /\ r.order.exch \in 1 .. Len(ledger) /\ r.order.client \in ClientIds
        /\ ledger[r.order.exch].client = r.order.client
    BY RestingRow
  <2>2. orders[ledger[r.order.exch].client].status \in Working
    BY <2>1, AtRest
  <2> QED
    BY <2>1, <2>2
<1> QED
  BY <1>1, <1>2

(* Only refused orders are active besides. *)
LEMMA ActiveOrders ==
    ASSUME FlowInv, InTransit = <<>>
    PROVE  active_order_count =
               Cardinality(Resting) + Cardinality({id \in ClientIds : Refused(id)})
<1> DEFINE W == {r.order.client : r \in Resting}
           R == {id \in ClientIds : Refused(id)}
           A == {id \in ClientIds : is_active(orders[id].status)}
<1>1. IsFiniteSet(ClientIds)
  <2>1. Len(orders) \in Nat
    BY DEF FlowInv, OInv, OrdersTypeOK
  <2> QED
    BY <2>1, FS_Interval DEF ClientIds
<1>2. W = {id \in ClientIds : orders[id].status \in Working}
  BY WorkingRests
<1>3. ASSUME NEW id \in ClientIds
      PROVE  /\ Refused(id) <=> orders[id].status = "PendingNew"
             /\ orders[id].status \in Working => ~Refused(id)
  <2>1. Refused(id) <=> ~Taken(id, orders[id])
    BY DEF Refused, Taken
  <2>2. CASE \E x \in 1 .. Len(ledger) : ledger[x].client = id
    <3>1. PICK x \in 1 .. Len(ledger) : ledger[x].client = id
      BY <2>2
    <3>2. Taken(id, orders[id])
      BY <3>1 DEF FlowInv, Named
    <3>3. orders[id].status \in {"Filled", "Canceled"} \cup Working
      BY <3>1, AtRest
    <3> QED
      BY <2>1, <3>2, <3>3 DEF Working
  <2>3. CASE \A x \in 1 .. Len(ledger) : ledger[x].client # id
    <3>1. ~Taken(id, orders[id]) /\ orders[id].status = "PendingNew"
      BY <2>3 DEF FlowInv, Named
    <3> QED
      BY <2>1, <3>1 DEF Working
  <2> QED
    BY <2>2, <2>3
<1>4. A = W \cup R /\ W \cap R = {}
  BY <1>2, <1>3 DEF is_active
<1>5. IsFiniteSet(W) /\ IsFiniteSet(R)
  <2>1. W \subseteq ClientIds /\ R \subseteq ClientIds
    BY <1>2
  <2> HIDE DEF W, R
  <2> QED
    BY <1>1, <2>1, FS_Subset
<1>6. Cardinality(W) \in Nat /\ Cardinality(R) \in Nat
  <2> HIDE DEF W, R
  <2> QED
    BY <1>5, FS_CardinalityType
<1>7. Cardinality(A) = Cardinality(W) + Cardinality(R)
  <2> HIDE DEF W, R, A
  <2>1. Cardinality(W \cup R) = Cardinality(W) + Cardinality(R) - Cardinality(W \cap R)
    BY <1>5, FS_Union
  <2>2. Cardinality(W \cap R) = 0
    BY <1>4, FS_EmptySet
  <2> QED
    BY <1>4, <1>6, <2>1, <2>2
<1>8. Cardinality(Resting) = Cardinality(W)
  <2> DEFINE g == [c \in W |-> CHOOSE r \in Resting : r.order.client = c]
  <2>1. ASSUME NEW c \in W PROVE g[c] \in Resting /\ g[c].order.client = c
    <3>1. \E r \in Resting : r.order.client = c
      OBVIOUS
    <3> QED
      BY <3>1
  <2>2. ASSUME NEW r \in Resting PROVE r.order.client \in W /\ g[r.order.client] = r
    <3>1. r.order.client \in W
      OBVIOUS
    <3>2. g[r.order.client] \in Resting /\ g[r.order.client].order.client = r.order.client
      BY <2>1, <3>1
    <3> HIDE DEF g
    <3> QED
      BY <3>1, <3>2, RestingRow
  <2>3. g \in [W -> Resting]
    BY <2>1
  <2> HIDE DEF g, W
  <2>4. \A a, b \in W : g[a] = g[b] => a = b
    BY <2>1
  <2>5. \A r \in Resting : \E c \in W : g[c] = r
    BY <2>2
  <2>6. g \in Bijection(W, Resting)
    BY <2>3, <2>4, <2>5 DEF Bijection, Injection, Surjection, IsInjective
  <2>7. ExistsBijection(W, Resting)
    BY <2>6 DEF ExistsBijection
  <2> QED
    BY <1>5, <2>7, FS_Bijection
<1> HIDE DEF W, R
<1> QED
  BY <1>7, <1>8 DEF active_order_count, R

(* OMS and exchange agree when no report is under way. *)
LEMMA Agreement == FlowInv => QuiescentAgreement
<1> SUFFICES ASSUME FlowInv, InTransit = <<>>
             PROVE  /\ {id \in ClientIds : orders[id].status \in Working}
                           = {r.order.client : r \in Resting}
                    /\ active_order_count =
                          Cardinality(Resting) + Cardinality({id \in ClientIds : Refused(id)})
                    /\ \A r \in Resting :
                          LET o == orders[r.order.client]
                          IN /\ o.exchange_id = r.order.exch /\ o.filled = r.order.filled
                             /\ o.remaining = resting_quantity(r.order.client)
                             /\ o.side = r.side /\ o.price = r.price
                             /\ o.symbol = r.order.symbol
  BY DEF QuiescentAgreement
<1>1. ASSUME NEW r \in Resting
      PROVE  LET o == orders[r.order.client]
             IN /\ o.exchange_id = r.order.exch /\ o.filled = r.order.filled
                /\ o.remaining = resting_quantity(r.order.client)
                /\ o.side = r.side /\ o.price = r.price
                /\ o.symbol = r.order.symbol
  <2> DEFINE o == orders[r.order.client]
             x == r.order.exch
  <2>1. /\ x \in 1 .. Len(ledger) /\ r.order.client \in ClientIds
        /\ ledger[x].client = r.order.client
        /\ Accounted(ledger[x], r.order.filled, r.order.remaining)
        /\ ledger[x].quantity = o.quantity
        /\ resting_quantity(r.order.client) = r.order.remaining
        /\ r.order.filled \in Nat /\ r.order.remaining \in Nat
    BY RestingRow
  <2>2. /\ o.exchange_id = x /\ ledger[x].reported = o.filled
        /\ o.status \in Working
    BY <2>1, AtRest
  <2>3. o \in OrderType /\ FillsAddUp(o)
    BY <2>1, OrderAt DEF FlowInv
  <2>4. SameTerms(o, r.order.symbol, r.side, r.price)
    BY DEF FlowInv, Terms
  <2>5. o.filled \in Nat /\ o.remaining \in Nat
    BY <2>3 DEF OrderType
  <2> HIDE DEF o, x
  <2>6. o.filled = r.order.filled /\ o.quantity = r.order.filled + r.order.remaining
    BY <2>1, <2>2 DEF Accounted
  <2>7. o.filled + o.remaining = o.quantity
    BY <2>2, <2>3 DEF FillsAddUp, Working
  <2>8. o.remaining = r.order.remaining
    BY <2>1, <2>5, <2>6, <2>7
  <2> QED
    BY <2>1, <2>2, <2>4, <2>6, <2>8 DEF SameTerms, o, x
<1> QED
  BY <1>1, WorkingRests, ActiveOrders

-----------------------------------------------------------------------------
(* The theorems: a batch holds the reports of the longest sweep, and the      *)
(* report key tells all accepted orders apart.                             *)

(* The invariant holds always. *)
LEMMA FlowInvariant ==
    ASSUME 2 * MaxAccepted - 1 <= MaxReports
    PROVE  FlowSpec /\ []KeysDistinct => []FlowInv
<1>1. FlowInit => FlowInv
  BY InitFlowInv
<1>2. FlowInv /\ KeysDistinct /\ [FlowNext]_flowVars => FlowInv'
  <2>1. FlowInv => BatchFits
    BY RoomForTrade DEF FlowInv
  <2> QED
    BY <2>1, StepFlowInv
<1> QED
  BY <1>1, <1>2, PTL DEF FlowSpec

(* A report advances the orders, taken or refused. *)
LEMMA ReportAdvances ==
    ASSUME OInv, NEW r \in ReportRecord, on_report(r)
    PROVE  \A k \in ClientIds : Advances(orders[k], orders'[k])
<1>1. CASE Acceptable(r)
  <2>1. Update(r) /\ r.last \in Nat /\ r.price \in Nat
    BY <1>1 DEF on_report, ReportRecord
  <2>2. CASE on_new_ack(r.client, r.exch)
    BY <2>2, AckAdvances
  <2>3. CASE on_new_reject(r.client) \/ on_cancel_ack(r.client) \/ on_cancel_reject(r.client)
    BY <2>3, PlainEvents, EventAdvances DEF on_new_reject, on_cancel_ack, on_cancel_reject
  <2>4. CASE \/ on_partial_fill(r.client, r.last, r.price)
             \/ on_fill(r.client, r.last, r.price)
    BY <2>1, <2>4, FilledAdvances
  <2> QED
    BY <2>1, <2>2, <2>3, <2>4 DEF Update
<1>2. CASE ~Acceptable(r)
  <2>1. orders' = orders
    BY <1>2 DEF on_report, handlerVars, orderVars
  <2>2. \A k \in ClientIds : orders[k] \in OrderType
    BY DEF OInv, OrdersTypeOK, ClientIds
  <2> QED
    BY <2>1, <2>2, SameAdvances
<1> QED
  BY <1>1, <1>2

(* Every step of the flow advances the orders. *)
LEMMA FlowAdvances ==
    ASSUME FlowInv, [FlowNext]_flowVars
    PROVE  \A k \in ClientIds : Advances(orders[k], orders'[k])
<1>1. OInv /\ Flight /\ Handled
  BY DEF FlowInv
<1>2. ASSUME orders' = orders PROVE \A k \in ClientIds : Advances(orders[k], orders'[k])
  <2>1. \A k \in ClientIds : orders[k] \in OrderType
    BY <1>1 DEF OInv, OrdersTypeOK, ClientIds
  <2> QED
    BY <1>2, <2>1, SameAdvances
<1>3. ASSUME NEW o, CreateAndSubmit(o)
      PROVE  \A k \in ClientIds : Advances(orders[k], orders'[k])
  <2>1. orders' = Append(orders, apply(o, "Submit", 0, 0))
    BY <1>3 DEF CreateAndSubmit
  <2> QED
    BY <1>1, <2>1, AppendAdvances
<1>4. ASSUME NEW id, CancelOrder(id) PROVE \A k \in ClientIds : Advances(orders[k], orders'[k])
  <2>1. apply_event(id, "CancelRequest")
    BY <1>4 DEF CancelOrder, request_cancel
  <2> QED
    BY <1>1, <2>1, PlainEvents, EventAdvances
<1>5. CASE Deliver
  <2>1. wire \in Seq(ReportRecord) /\ wire # <<>> /\ on_report(Head(wire))
    BY <1>1, <1>5 DEF Deliver, Flight
  <2>2. Head(wire) \in ReportRecord
    BY <2>1
  <2> QED
    BY <1>1, <2>1, <2>2, ReportAdvances
<1>6. ASSUME NEW r \in delivered, Redeliver(r)
      PROVE  \A k \in ClientIds : Advances(orders[k], orders'[k])
  <2>1. r \in ReportRecord /\ on_report(r)
    BY <1>1, <1>6 DEF Redeliver, Handled
  <2> QED
    BY <1>1, <2>1, ReportAdvances
<1>7. CASE \/ ExchangeMatches \/ ExchangeReturns \/ UNCHANGED flowVars
           \/ \E id \in ClientIds : ResendCancel(id)
  <2>1. orders' = orders
    BY <1>7 DEF ExchangeMatches, ExchangeReturns, ResendCancel, flowVars, handlerVars, orderVars
  <2> QED
    BY <1>2, <2>1
<1> QED
  BY <1>3, <1>4, <1>5, <1>6, <1>7 DEF FlowNext, SendNew, RefuseNew

(* Orders, positions, the gateway's numbering and the remembered keys stay     *)
(* well typed: every request of the gateway was an order or a cancel, and no  *)
(* key is remembered that no report delivered.                             *)
THEOREM FlowTypeCorrect ==
    ASSUME 2 * MaxAccepted - 1 <= MaxReports
    PROVE  FlowSpec /\ []KeysDistinct => []FlowTypeOK
BY FlowInvariant, FlowTypes, PTL

(* Every fill of the exchange reaches its order in the OMS exactly once,      *)
(* however cancels cross fills and whatever reports are delivered again.    *)
THEOREM FlowEveryFillOnce ==
    ASSUME 2 * MaxAccepted - 1 <= MaxReports
    PROVE  FlowSpec /\ []KeysDistinct => []EveryFillOnce
BY FlowInvariant, FillsArrive, PTL

(* No order stays working in the OMS that is gone at the exchange, nor is one *)
(* live there that the OMS believes finished, once the reports are in.      *)
THEOREM FlowQuiescentAgreement ==
    ASSUME 2 * MaxAccepted - 1 <= MaxReports
    PROVE  FlowSpec /\ []KeysDistinct => []QuiescentAgreement
BY FlowInvariant, Agreement, PTL

(* The positions are the sum of what the orders have filled: the handler      *)
(* books a fill in the OMS and in the positions, or in neither.             *)
THEOREM FlowPositionIsFills ==
    ASSUME 2 * MaxAccepted - 1 <= MaxReports
    PROVE  FlowSpec /\ []KeysDistinct => []PositionIsFills
<1>1. FlowInv => PositionIsFills
  BY DEF FlowInv
<1> QED
  BY <1>1, FlowInvariant, PTL

(* However reports are late, cancels race and reports are delivered again, an *)
(* order only goes forward: a finished one is final, one that reached the      *)
(* exchange is not taken back, and none loses a fill.                      *)
THEOREM FlowLifecycle ==
    ASSUME 2 * MaxAccepted - 1 <= MaxReports
    PROVE  FlowSpec /\ []KeysDistinct => LifecycleMonotone
<1> DEFINE Monotone == \A id \in ClientIds :
              LET o == orders[id]  n == orders'[id]
              IN /\ is_terminal(o.status) => n = o
                 /\ o.status \in Working =>
                       /\ n.status \in Working \cup {"Filled", "Canceled"}
                       /\ n.exchange_id = o.exchange_id
                 /\ n.filled >= o.filled /\ n.remaining <= o.remaining
<1>1. FlowInv /\ [FlowNext]_flowVars => [Monotone]_orderVars
  BY FlowAdvances, AllAdvance
<1> QED
  BY <1>1, FlowInvariant, PTL DEF FlowSpec, LifecycleMonotone

(* A report that is delivered again changes nothing at all. *)
THEOREM FlowRedeliveryIgnored ==
    ASSUME 2 * MaxAccepted - 1 <= MaxReports
    PROVE  FlowSpec /\ []KeysDistinct =>
              [][(\E r \in delivered : Redeliver(r)) => UNCHANGED flowVars]_flowVars
<1>1. FlowInv => ((\E r \in delivered : Redeliver(r)) => UNCHANGED flowVars)
  BY RedeliveryIgnored
<1> QED
  BY <1>1, FlowInvariant, PTL

(* What the invariant says of the components. *)
LEMMA FlowParts ==
    FlowInv => /\ FillAccounting /\ AverageHonest
               /\ PositionConsistent /\ ProfitMatchesCash
               /\ IndexExact /\ NeverCrossed /\ ReportsAccount
BY InvIndexExact, AccountsReport DEF FlowInv, OInv, PosInv, ExchangeInv

(* What is true of the components alone is true of them together: of the OMS   *)
(* and the positions whatever the exchange reports, and of the exchange       *)
(* whatever the gateway asks of it.                                        *)
THEOREM FlowComponents ==
    ASSUME 2 * MaxAccepted - 1 <= MaxReports
    PROVE  FlowSpec /\ []KeysDistinct =>
              [](/\ FillAccounting /\ AverageHonest
                 /\ PositionConsistent /\ ProfitMatchesCash
                 /\ IndexExact /\ NeverCrossed /\ ReportsAccount)
BY FlowInvariant, FlowParts, PTL

(* The exchange keeps price-time priority also when cancels and reports are    *)
(* under way between its calls.                                            *)
THEOREM FlowPriority ==
    ASSUME 2 * MaxAccepted - 1 <= MaxReports
    PROVE  FlowSpec /\ []KeysDistinct => PriceTimePriority
<1>1. FlowInv /\ [FlowNext]_flowVars => [Priority]_exchangeVars
  BY WithinExchange, StepPriority DEF FlowInv
<1>2. FlowSpec /\ []KeysDistinct => [][Priority]_exchangeVars
  BY <1>1, FlowInvariant, PTL DEF FlowSpec
<1> QED
  BY <1>2 DEF PriceTimePriority, Priority

=============================================================================
