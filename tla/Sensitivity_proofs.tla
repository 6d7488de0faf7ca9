-------------------------- MODULE Sensitivity_proofs --------------------------
(***************************************************************************)
(* What the sensitivity sweep promises, for every file, every command line *)
(* and every list of policies, and what the curve drawn from it shows.     *)
(*                                                                         *)
(* A leaked time lies between observation and receipt, so a moved file is  *)
(* a file with the same rows but for their receipt times.  What a record   *)
(* says is a function of the rows visible to its prediction                *)
(* (SignalViews_proofs), so it can change only with those.                 *)
(*                                                                         *)
(* The curve is drawn when the sweep is done.  Its points are the shares   *)
(* of one generated list, which rise, so sorting them moves none; and the  *)
(* list of changes of a comparison holds every new use and every flip of   *)
(* its log once.                                                           *)
(***************************************************************************)
EXTENDS LateArrivalCurve, SignalViews_proofs

-----------------------------------------------------------------------------
(***************************************************************************)
(* What a leaked lag can do to a receipt time, for every time and share.   *)
(***************************************************************************)
\* The part of a lag that is leaked.
ShareOf(lag, pct) == (lag * pct + 5000) \div FullBps

\* A share of a lag, rounded to nearest, lies between nothing and the lag.
LEMMA ShareOfLag ==
  ASSUME NEW lag \in Nat, NEW pct \in 0..FullBps
  PROVE  ShareOf(lag, pct) \in 0..lag
<1>1. lag * pct \in Nat /\ lag * pct <= lag * FullBps
  <2>1. pct \in Nat /\ FullBps - pct \in Nat
    BY DEF FullBps
  <2>2. lag * FullBps = lag * pct + lag * (FullBps - pct)
    BY <2>1 DEF FullBps
  <2>3. lag * (FullBps - pct) \in Nat /\ lag * pct \in Nat
    BY <2>1
  <2> QED
    BY <2>1, <2>2, <2>3 DEF FullBps
<1> DEFINE product == lag * pct
<1>2. product \in Nat /\ product <= lag * 10000
  BY <1>1 DEF FullBps
<1> HIDE DEF product
<1>3. (product + 5000) \div 10000 \in 0..lag
  BY <1>2
<1> QED
  BY <1>3 DEF product, FullBps, ShareOf

\* A larger share of a lag is not smaller.
LEMMA ShareGrows ==
  \A lag \in Nat : \A p, q \in 0..FullBps :
    p <= q => ShareOf(lag, p) <= ShareOf(lag, q)
<1> SUFFICES ASSUME NEW lag \in Nat, NEW p \in 0..FullBps, NEW q \in 0..FullBps, p <= q
             PROVE  ShareOf(lag, p) <= ShareOf(lag, q)
  OBVIOUS
<1>1. lag * p \in Nat /\ lag * q \in Nat /\ lag * p <= lag * q
  <2>1. p \in Nat /\ q - p \in Nat /\ q \in Nat
    BY DEF FullBps
  <2>2. lag * q = lag * p + lag * (q - p)
    BY <2>1
  <2>3. lag * (q - p) \in Nat /\ lag * p \in Nat
    BY <2>1
  <2> QED
    BY <2>1, <2>2, <2>3
<1> DEFINE small == lag * p
           large == lag * q
<1>2. small \in Nat /\ large \in Nat /\ small <= large
  BY <1>1
<1> HIDE DEF small, large
<1>3. (small + 5000) \div 10000 <= (large + 5000) \div 10000
  BY <1>2
<1> QED
  BY <1>3 DEF small, large, FullBps, ShareOf

(***************************************************************************)
(* A leaked row is available between its observation and its receipt; the  *)
(* whole lag makes it available at its observation (sensitivity.rs:390).   *)
(***************************************************************************)
THEOREM LeakStaysBetween ==
  ASSUME NEW observed \in Nat, NEW received \in Nat, NEW pct \in 0..FullBps,
         received > observed
  PROVE  /\ observed <= Leaked(observed, received, pct)
         /\ Leaked(observed, received, pct) <= received
         /\ pct = FullBps => Leaked(observed, received, pct) = observed
<1> DEFINE lag == received - observed
           share == ShareOf(lag, pct)
<1>1. lag \in Nat
  OBVIOUS
<1>2. share \in 0..lag
  BY <1>1, ShareOfLag
<1>3. pct = FullBps => share = lag
  <2> HIDE DEF lag
  <2> QED
    BY <1>1 DEF FullBps, ShareOf
<1>4. Leaked(observed, received, pct) = IF pct = 0 THEN received ELSE received - share
  BY DEF Leaked, ShareOf
<1> HIDE DEF share
<1> QED
  BY <1>2, <1>3, <1>4 DEF FullBps

(***************************************************************************)
(* A larger share never makes a row available later, so the curve of a     *)
(* sweep over growing shares only ever adds information earlier            *)
(* (sensitivity.rs:390-403).                                               *)
(***************************************************************************)
THEOREM LeakIsMonotone ==
  ASSUME NEW observed \in Nat, NEW received \in Nat,
         NEW p \in 0..FullBps, NEW q \in 0..FullBps, p <= q
  PROVE  Leaked(observed, received, q) <= Leaked(observed, received, p)
<1>1. CASE received <= observed
  BY <1>1 DEF Leaked
<1>2. CASE received > observed
  <2> DEFINE lag     == received - observed
             share_p == ShareOf(lag, p)
             share_q == ShareOf(lag, q)
  <2>1. lag \in Nat
    BY <1>2
  <2> HIDE DEF lag
  <2>2. share_p \in 0..lag /\ share_q \in 0..lag
    BY <2>1, ShareOfLag
  <2>3. share_p <= share_q
    BY <2>1, ShareGrows
  <2>4. Leaked(observed, received, p) = IF p = 0 THEN received ELSE received - share_p
    BY <1>2 DEF Leaked, lag, ShareOf
  <2>5. Leaked(observed, received, q) = IF q = 0 THEN received ELSE received - share_q
    BY <1>2 DEF Leaked, lag, ShareOf
  <2>6. q = 0 => p = 0
    <3>1. p \in Nat /\ q \in Nat
      BY DEF FullBps
    <3> QED
      BY <3>1
  <2> HIDE DEF share_p, share_q
  <2>7. share_p \in Nat /\ share_q \in Nat
    BY <2>1, <2>2
  <2> QED
    BY <2>3, <2>4, <2>5, <2>6, <2>7
<1> QED
  BY <1>1, <1>2

(***************************************************************************)
(* No leak policy moves a row out of the range of u64, so only a shift can *)
(* abort a sweep with a time out of range (sensitivity.rs:264-315, 378).   *)
(***************************************************************************)
THEOREM LeaksNeverOutOfRange ==
  ASSUME NEW policy, NEW e \in Event,
         policy.kind \in {"fraction", "bucket", "cumulative"},
         policy.pct \in 0..FullBps,
         e.received_time <= MaxTime
  PROVE  FitsTime(MovedTime(policy, e))
<1>1. e.observed_time \in Nat /\ e.received_time \in Nat
  BY DEF Event
<1>2. MovedTime(policy, e) = Leaked(e.observed_time, e.received_time, policy.pct)
  BY DEF MovedTime
<1>3. CASE e.received_time <= e.observed_time
  BY <1>1, <1>2, <1>3, TimeAssumption DEF Leaked, FitsTime
<1>4. CASE e.received_time > e.observed_time
  <2> DEFINE moved == Leaked(e.observed_time, e.received_time, policy.pct)
  <2>1. e.observed_time <= moved /\ moved <= e.received_time
    BY <1>1, <1>4, LeakStaysBetween
  <2>2. moved \in Int
    <3> DEFINE lag   == e.received_time - e.observed_time
               share == ShareOf(lag, policy.pct)
    <3>1. lag \in Nat
      BY <1>1, <1>4
    <3>2. share \in Int
      <4> HIDE DEF lag
      <4>1. share \in 0..lag
        BY <3>1, ShareOfLag
      <4> QED
        BY <3>1, <4>1
    <3>3. moved = IF policy.pct = 0 THEN e.received_time ELSE e.received_time - share
      BY <1>1, <1>4 DEF Leaked, ShareOf
    <3> HIDE DEF share, moved
    <3> QED
      BY <1>1, <3>2, <3>3
  <2> HIDE DEF moved
  <2>3. 0 <= moved /\ moved <= MaxTime
    BY <1>1, <2>1, <2>2, TimeAssumption
  <2> QED
    BY <1>2, <2>3 DEF FitsTime, moved
<1> QED
  BY <1>1, <1>3, <1>4

-----------------------------------------------------------------------------
(***************************************************************************)
(* The arguments make policies of the kinds the constructors make.         *)
(***************************************************************************)
ArePolicies(list) ==
  /\ list \in Seq(ToSet(list))
  /\ \A n \in DOMAIN list : IsPolicy(list[n])

LEMMA SeqOfItself ==
  ASSUME NEW T, NEW s \in Seq(T)
  PROVE  /\ s \in Seq(ToSet(s))
         /\ DOMAIN s = 1..Len(s) /\ Len(s) \in Nat
         /\ \A n \in DOMAIN s : s[n] \in T
<1>1. DOMAIN s = 1..Len(s) /\ Len(s) \in Nat /\ \A n \in 1..Len(s) : s[n] \in T
  BY LenProperties, ElementOfSeq
<1>2. \A n \in 1..Len(s) : s[n] \in ToSet(s)
  BY <1>1, Zenon DEF ToSet
<1>3. s \in [1..Len(s) -> ToSet(s)]
  BY <1>1, <1>2, LenProperties
<1>4. s \in Seq(ToSet(s))
  BY <1>1, <1>3, SeqDef
<1> QED BY <1>1, <1>4

LEMMA AppendedIsPolicies ==
  ASSUME NEW list, ArePolicies(list), NEW policy, IsPolicy(policy)
  PROVE  ArePolicies(Append(list, policy))
<1> DEFINE T == ToSet(list) \cup {policy}
           longer == Append(list, policy)
<1>1. list \in Seq(T)
  BY SeqMonotonic DEF ArePolicies
<1>2. longer \in Seq(T)
  BY <1>1
<1>3. \A n \in DOMAIN longer : n \in DOMAIN list \/ n = Len(list) + 1
  BY <1>1
<1>4. /\ \A n \in DOMAIN list : longer[n] = list[n]
      /\ longer[Len(list) + 1] = policy
  BY <1>1
<1>5. longer \in Seq(ToSet(longer))
  BY <1>2, SeqOfItself
<1> HIDE DEF longer
<1>6. \A n \in DOMAIN longer : IsPolicy(longer[n])
  BY <1>3, <1>4, Zenon DEF ArePolicies
<1> QED BY <1>5, <1>6 DEF ArePolicies, longer

LEMMA JoinedIsPolicies ==
  ASSUME NEW front, ArePolicies(front), NEW back, ArePolicies(back)
  PROVE  ArePolicies(front \o back)
<1> DEFINE T == ToSet(front) \cup ToSet(back)
           joined == front \o back
<1>1. front \in Seq(T) /\ back \in Seq(T)
  BY SeqMonotonic DEF ArePolicies
<1>2. joined \in Seq(T) /\ Len(joined) = Len(front) + Len(back)
  BY <1>1, ConcatProperties
<1>3. joined \in Seq(ToSet(joined))
  BY <1>2, SeqOfItself
<1>4. /\ Len(front) \in Nat /\ DOMAIN front = 1..Len(front)
      /\ Len(back) \in Nat /\ DOMAIN back = 1..Len(back)
      /\ DOMAIN joined = 1..(Len(front) + Len(back))
  BY <1>1, <1>2, LenProperties
<1>5. \A n \in 1..(Len(front) + Len(back)) :
        joined[n] = IF n <= Len(front) THEN front[n] ELSE back[n - Len(front)]
  BY <1>1, ConcatProperties
<1> HIDE DEF joined
<1>6. \A n \in DOMAIN joined : \/ n \in DOMAIN front /\ joined[n] = front[n]
                               \/ n - Len(front) \in DOMAIN back /\ joined[n] = back[n - Len(front)]
  BY <1>4, <1>5
<1>7. \A n \in DOMAIN joined : IsPolicy(joined[n])
  BY <1>6 DEF ArePolicies
<1> QED BY <1>3, <1>7 DEF ArePolicies, joined

LEMMA PartIsPolicies ==
  ASSUME NEW list, ArePolicies(list), NEW m \in Nat \ {0}, NEW n \in 0..Len(list)
  PROVE  ArePolicies(SubSeq(list, m, n))
<1> DEFINE T == ToSet(list)
           part == SubSeq(list, m, n)
<1>1. list \in Seq(T) /\ Len(list) \in Nat /\ DOMAIN list = 1..Len(list)
  BY LenProperties DEF ArePolicies
<1>2. \A i \in m..n : i \in DOMAIN list /\ list[i] \in T
  BY <1>1, ElementOfSeq
<1>3. part \in Seq(T) /\ Len(part) = IF m <= n THEN n - m + 1 ELSE 0
  BY <1>1, <1>2, SubSeqProperties
<1>4. part \in Seq(ToSet(part)) /\ DOMAIN part = 1..Len(part)
  BY <1>3, SeqOfItself
<1>5. \A i \in 1..Len(part) : i + m - 1 \in m..n /\ part[i] = list[i + m - 1]
  BY <1>1, <1>3
<1> HIDE DEF part
<1>6. \A i \in DOMAIN part : IsPolicy(part[i])
  BY <1>2, <1>4, <1>5 DEF ArePolicies
<1> QED BY <1>4, <1>6 DEF ArePolicies, part

LEMMA GeneratedArePolicies ==
  ASSUME NEW list, ArePolicies(list), NEW generated, ArePolicies(generated)
  PROVE  ArePolicies(WithGenerated(list, generated))
<1> DEFINE I == { i \in 1..Len(list) : IsLeaky(list[i]) }
           leaky == SelectInSeq(list, IsLeaky)
<1>1. leaky = IF I # {} THEN Min(I) ELSE 0
  BY DEF SelectInSeq
<1>2. Len(list) \in Nat
  BY LenProperties DEF ArePolicies
<1>3. I # {} => Min(I) \in I
  <2> SUFFICES ASSUME I # {} PROVE Min(I) \in I
    OBVIOUS
  <2>1. \E m \in I : \A x \in I : m <= x
    <3>1. \A x \in I : x \in Nat
      BY <1>2
    <3> HIDE DEF I
    <3> QED BY <3>1, LeastNatural
  <2> HIDE DEF I
  <2> QED BY <2>1 DEF Min
<1>4. leaky = 0 \/ leaky \in 1..Len(list)
  BY <1>1, <1>3
<1> HIDE DEF leaky, I
<1>5. CASE leaky = 0
  <2>1. WithGenerated(list, generated) = list \o generated
    BY <1>5, Zenon DEF WithGenerated, leaky
  <2> QED BY <2>1, JoinedIsPolicies
<1>6. CASE leaky \in 1..Len(list)
  <2> DEFINE front == SubSeq(list, 1, leaky - 1)
             back == SubSeq(list, leaky, Len(list))
  <2>1. leaky # 0 /\ leaky \in Nat \ {0} /\ leaky - 1 \in 0..Len(list) /\ Len(list) \in 0..Len(list)
    BY <1>2, <1>6
  <2>2. WithGenerated(list, generated) = (front \o generated) \o back
    BY <2>1, Zenon DEF WithGenerated, leaky
  <2>3. ArePolicies(front) /\ ArePolicies(back)
    BY <2>1, PartIsPolicies
  <2> HIDE DEF front, back
  <2>4. ArePolicies(front \o generated)
    BY <2>3, JoinedIsPolicies
  <2> QED BY <2>2, <2>3, <2>4, JoinedIsPolicies
<1> QED BY <1>4, <1>5, <1>6

LEMMA SharesArePolicies ==
  ASSUME NEW stem, NEW shares \in Seq(Nat)
  PROVE  ArePolicies(FractionPolicies(stem, shares))
<1> DEFINE list == FractionPolicies(stem, shares)
           Name(n) == <<stem>> \o PercentName(shares[n])
<1>1. DOMAIN shares = 1..Len(shares) /\ Len(shares) \in Nat /\ \A n \in DOMAIN shares : shares[n] \in Nat
  BY LenProperties, ElementOfSeq
<1>2. /\ DOMAIN list = DOMAIN shares
      /\ \A n \in DOMAIN shares : list[n] = LeakLagFraction(Name(n), shares[n])
      /\ list = [n \in 1..Len(shares) |-> list[n]]
  BY <1>1, Zenon DEF FractionPolicies
<1>3. \A name : \A pct \in Nat : IsPolicy(LeakLagFraction(name, pct))
  BY DEF LeakLagFraction, Capped, FullBps, IsPolicy, LagKinds
<1> HIDE DEF list, Name
<1>4. \A n \in DOMAIN list : IsPolicy(list[n])
  BY <1>1, <1>2, <1>3, Zenon
<1>5. \A n \in 1..Len(shares) : list[n] \in ToSet(list)
  BY <1>1, <1>2, Zenon DEF ToSet
<1>6. list \in [1..Len(shares) -> ToSet(list)]
  BY <1>2, <1>5
<1>7. list \in Seq(ToSet(list))
  BY <1>1, <1>6, SeqDef
<1> QED BY <1>4, <1>7 DEF ArePolicies, list

LEMMA SharesAreNumbers ==
  ASSUME NEW shares \in Seq(Nat)
  PROVE  WithoutRepetition(shares) \in Seq(Nat)
BY ListedType DEF WithoutRepetition

LEMMA QuotientIsNatural ==
  ASSUME NEW a \in Nat, NEW b \in Nat \ {0}
  PROVE  Rounded(a, b) \in Nat
<1>1. b \div 2 \in Nat
  OBVIOUS
<1>2. \A c \in Nat : c \div b \in Nat
  OBVIOUS
<1> QED BY <1>1, <1>2 DEF Rounded

LEMMA LookaheadSharesAreNumbers ==
  ASSUME NEW range, range \in (0..FullBps) \X (0..FullBps), range[1] <= range[2],
         NEW steps \in Nat \ {0}
  PROVE  LookaheadShares(range, steps) \in Seq(Nat)
<1> DEFINE Share(n) == range[1] + Rounded((range[2] - range[1]) * (n - 1), steps)
<1>1. range[1] \in Nat /\ range[2] - range[1] \in Nat
  <2>1. range[1] \in 0..FullBps /\ range[2] \in 0..FullBps
    OBVIOUS
  <2>2. \A a, b \in 0..FullBps : a <= b => a \in Nat /\ b - a \in Nat
    BY DEF FullBps
  <2> QED BY <2>1, <2>2, Zenon
<1>2. \A n \in 1..(steps + 1) : (range[2] - range[1]) * (n - 1) \in Nat
  BY <1>1
<1>3. \A n \in 1..(steps + 1) : Share(n) \in Nat
  BY <1>1, <1>2, QuotientIsNatural
<1>4. [n \in 1..(steps + 1) |-> Share(n)] \in [1..(steps + 1) -> Nat]
  BY <1>3
<1> HIDE DEF Share
<1>5. [n \in 1..(steps + 1) |-> Share(n)] \in Seq(Nat)
  BY <1>4, SeqDef
<1> QED BY <1>5, SharesAreNumbers DEF LookaheadShares, Share

LEMMA CumulativeSharesAreNumbers ==
  ASSUME NEW steps \in Nat \ {0}
  PROVE  CumulativeShares(steps) \in Seq(Nat)
<1> DEFINE Share(n) == Rounded(n * FullBps, steps)
<1>1. \A n \in 1..steps : n * FullBps \in Nat
  BY DEF FullBps
<1>2. \A n \in 1..steps : Share(n) \in Nat
  BY <1>1, QuotientIsNatural
<1>3. [n \in 1..steps |-> Share(n)] \in [1..steps -> Nat]
  BY <1>2
<1> HIDE DEF Share
<1>4. [n \in 1..steps |-> Share(n)] \in Seq(Nat)
  BY <1>3, SeqDef
<1> QED BY <1>4, SharesAreNumbers DEF CumulativeShares, Share

(***************************************************************************)
(* SensitivityArgs while the arguments are read.                           *)
(***************************************************************************)
ParsedFields == {"read", "scenario", "range", "buckets", "steps", "policies", "error"}

IsParsed(p) ==
  /\ DOMAIN p = ParsedFields
  /\ p.read \in Nat
  /\ p.range # Absent => p.range \in (0..FullBps) \X (0..FullBps) /\ p.range[1] <= p.range[2]
  /\ p.steps \in Nat \ {0}
  /\ ArePolicies(p.policies)

LEMMA NothingIsParsed == IsParsed(Unparsed) /\ ArePolicies(<<>>)
<1>1. ArePolicies(<<>>)
  BY EmptySeq DEF ArePolicies
<1> QED BY <1>1 DEF IsParsed, ParsedFields, Unparsed

LEMMA ArgumentIsParsed ==
  ASSUME NEW p, IsParsed(p), NEW arg, IsArgument(arg)
  PROVE  IsParsed(AfterArgument(p, arg))
<1> DEFINE q == Taken(p, arg)
<1>1. IsParsed(q)
  <2>1. CASE arg.flag = "scenario"
    <3>1. q = [p EXCEPT !.scenario = arg.value]
      BY <2>1 DEF Taken
    <3> HIDE DEF q
    <3> QED BY <3>1 DEF IsParsed, ParsedFields
  <2>2. CASE arg.flag = "leaky"
    <3>1. q = [p EXCEPT !.policies = Append(@, ObservedTimeLeaky)]
      BY <2>2 DEF Taken
    <3>2. IsPolicy(ObservedTimeLeaky)
      BY DEF ObservedTimeLeaky, IsPolicy, LagKinds
    <3>3. ArePolicies(Append(p.policies, ObservedTimeLeaky))
      BY <3>2, AppendedIsPolicies DEF IsParsed
    <3> HIDE DEF q
    <3> QED BY <3>1, <3>3 DEF IsParsed, ParsedFields
  <2>3. CASE arg.flag = "range"
    <3>1. \/ q = [p EXCEPT !.range = arg.value] /\ arg.value[1] <= arg.value[2]
          \/ q = [p EXCEPT !.error = "Range"]
      BY <2>3 DEF Taken
    <3>2. arg.value \in (0..FullBps) \X (0..FullBps)
      BY <2>3 DEF IsArgument
    <3> HIDE DEF q
    <3> QED BY <3>1, <3>2 DEF IsParsed, ParsedFields
  <2>4. CASE arg.flag = "buckets"
    <3>1. q = [p EXCEPT !.buckets = TRUE]
      BY <2>4 DEF Taken
    <3> HIDE DEF q
    <3> QED BY <3>1 DEF IsParsed, ParsedFields
  <2>5. CASE arg.flag = "steps"
    <3>1. \/ q = [p EXCEPT !.steps = arg.value] /\ arg.value # 0
          \/ q = [p EXCEPT !.error = "Steps"]
      BY <2>5 DEF Taken
    <3>2. arg.value \in Nat
      BY <2>5 DEF IsArgument
    <3> HIDE DEF q
    <3> QED BY <3>1, <3>2 DEF IsParsed, ParsedFields
  <2>6. CASE arg.flag = "shift"
    <3> DEFINE policy == ShiftFeatures(<<"shift_features", arg.value>>, arg.value)
    <3>1. q = [p EXCEPT !.policies = Append(@, policy)]
      BY <2>6 DEF Taken
    <3>2. IsPolicy(policy)
      BY <2>6 DEF IsArgument, ShiftFeatures, IsPolicy, LagKinds
    <3> HIDE DEF policy
    <3>3. ArePolicies(Append(p.policies, policy))
      BY <3>2, AppendedIsPolicies DEF IsParsed
    <3> HIDE DEF q
    <3> QED BY <3>1, <3>3 DEF IsParsed, ParsedFields
  <2> QED BY <2>1, <2>2, <2>3, <2>4, <2>5, <2>6 DEF IsArgument, Flags
<1>2. AfterArgument(p, arg) = [q EXCEPT !.read = @ + 1]
  BY DEF AfterArgument
<1> HIDE DEF q
<1> QED BY <1>1, <1>2 DEF IsParsed, ParsedFields

LEMMA WithErrorIsParsed ==
  ASSUME NEW p, IsParsed(p), NEW with
  PROVE  IsParsed([p EXCEPT !.error = with])
BY DEF IsParsed, ParsedFields

LEMMA WithPoliciesIsParsed ==
  ASSUME NEW p, IsParsed(p), NEW shares \in Seq(Nat), NEW stem
  PROVE  IsParsed([p EXCEPT !.policies = WithGenerated(@, FractionPolicies(stem, shares))])
<1>1. ArePolicies(WithGenerated(p.policies, FractionPolicies(stem, shares)))
  BY SharesArePolicies, GeneratedArePolicies DEF IsParsed
<1> QED BY <1>1 DEF IsParsed, ParsedFields

LEMMA ParsedIsParsed ==
  ASSUME NEW p, IsParsed(p), NEW line
  PROVE  IsParsed(ParsedArgs(line, p))
<1> DEFINE completed == Completed(p)
           ready == WithLookahead(line, completed)
           taken == ParsedArgs(line, p)
<1>1. IsParsed(completed)
  <2>1. /\ DOMAIN completed = ParsedFields
        /\ completed.read = p.read /\ completed.steps = p.steps /\ completed.policies = p.policies
        /\ completed.range = p.range \/ completed.range = <<0, FullBps>>
    BY DEF Completed, IsParsed, ParsedFields
  <2>2. <<0, FullBps>> \in (0..FullBps) \X (0..FullBps) /\ <<0, FullBps>>[1] <= <<0, FullBps>>[2]
    BY DEF FullBps
  <2> HIDE DEF completed
  <2> QED BY <2>1, <2>2, Zenon DEF IsParsed
<1>2. IsParsed(ready)
  <2> HIDE DEF completed
  <2>1. CASE completed.range # Absent
    <3> DEFINE shares == LookaheadShares(completed.range, completed.steps)
    <3>1. shares \in Seq(Nat)
      BY <1>1, <2>1, LookaheadSharesAreNumbers DEF IsParsed
    <3> HIDE DEF shares
    <3>2. \/ ready = [completed EXCEPT !.error = "EmptyRange"]
          \/ ready = [completed EXCEPT !.policies = WithGenerated(@, FractionPolicies("lookahead", shares))]
      BY <2>1, Zenon DEF WithLookahead, shares
    <3>3. \A with : IsParsed([completed EXCEPT !.error = with])
      BY <1>1, WithErrorIsParsed
    <3>4. IsParsed([completed EXCEPT !.policies = WithGenerated(@, FractionPolicies("lookahead", shares))])
      BY <1>1, <3>1, WithPoliciesIsParsed
    <3> HIDE DEF ready
    <3> QED BY <3>2, <3>3, <3>4, Zenon
  <2>2. CASE completed.range = Absent
    <3>1. ready = completed \/ ready = [completed EXCEPT !.error = "StepsWithoutRange"]
      BY <2>2, Zenon DEF WithLookahead
    <3> QED BY <1>1, <3>1, WithErrorIsParsed
  <2> QED BY <2>1, <2>2
<1>3. IsParsed(taken)
  <2>1. \/ taken = [p EXCEPT !.error = "Conflict"]
        \/ taken = [ready EXCEPT !.error = "NoPolicy"]
        \/ taken = ready
    BY Zenon DEF ParsedArgs
  <2> HIDE DEF ready, taken
  <2> QED BY <1>2, <2>1, WithErrorIsParsed
<1> QED BY <1>3 DEF taken

LEMMA CompletedIsParsed ==
  ASSUME NEW p, IsParsed(p), NEW line, NEW feed
  PROVE  IsParsed(WithLateArrivals(ParsedArgs(line, p), feed))
<1> DEFINE taken == ParsedArgs(line, p)
<1>1. IsParsed(taken)
  BY ParsedIsParsed
<1> HIDE DEF taken
<1>2. CumulativeShares(taken.steps) \in Seq(Nat)
  BY <1>1, CumulativeSharesAreNumbers DEF IsParsed
<1>3. \/ WithLateArrivals(taken, feed) = taken
      \/ WithLateArrivals(taken, feed) = [taken EXCEPT !.error = "NoLateArrivals"]
      \/ WithLateArrivals(taken, feed)
           = [taken EXCEPT !.policies =
                WithGenerated(@, FractionPolicies("late_arrivals_cumulative", CumulativeShares(taken.steps)))]
  BY Zenon DEF WithLateArrivals
<1>4. IsParsed(WithLateArrivals(taken, feed))
  <2>1. IsParsed([taken EXCEPT !.error = "NoLateArrivals"])
    BY <1>1, WithErrorIsParsed
  <2>2. IsParsed([taken EXCEPT !.policies =
                    WithGenerated(@, FractionPolicies("late_arrivals_cumulative",
                                                      CumulativeShares(taken.steps)))])
    BY <1>1, <1>2, WithPoliciesIsParsed
  <2> QED BY <1>1, <1>3, <2>1, <2>2, Zenon
<1> QED BY <1>4 DEF taken

-----------------------------------------------------------------------------
(***************************************************************************)
(* A policy moves feature rows only, and only their receipt times.         *)
(***************************************************************************)
LEMMA LeakedIsNumber ==
  ASSUME NEW observed \in Nat, NEW received \in Nat, NEW pct \in 0..FullBps
  PROVE  Leaked(observed, received, pct) \in Int
<1>1. CASE received <= observed
  BY <1>1 DEF Leaked
<1>2. CASE received > observed
  <2> DEFINE lag   == received - observed
             share == ShareOf(lag, pct)
  <2>1. lag \in Nat
    BY <1>2
  <2>2. share \in Int
    <3> HIDE DEF lag
    <3>1. share \in 0..lag
      BY <2>1, ShareOfLag
    <3> QED BY <2>1, <3>1
  <2>3. Leaked(observed, received, pct) = IF pct = 0 THEN received ELSE received - share
    BY <1>2 DEF Leaked, ShareOf
  <2> HIDE DEF share
  <2> QED BY <2>2, <2>3
<1> QED BY <1>1, <1>2

LEMMA MovedTimeIsNumber ==
  ASSUME NEW policy, IsPolicy(policy), NEW e \in Event, Moves(policy, e)
  PROVE  MovedTime(policy, e) \in Int /\ UpdatesSignalState(e) /\ policy.kind # "order"
<1>1. e.observed_time \in Nat /\ e.received_time \in Nat
  BY DEF Event
<1>2. policy.kind \in LagKinds \cup {"shift", "order"}
  BY DEF IsPolicy
<1>3. policy.kind # "order"
  BY DEF Moves, InCohort
<1>4. UpdatesSignalState(e)
  BY <1>3 DEF Moves, IsPolicy, UpdatesSignalState
<1>5. CASE policy.kind = "shift"
  BY <1>1, <1>3, <1>4, <1>5 DEF MovedTime, IsPolicy
<1>6. CASE policy.kind \in LagKinds
  <2>1. MovedTime(policy, e) = Leaked(e.observed_time, e.received_time, policy.pct)
    BY <1>6 DEF MovedTime, LagKinds
  <2>2. policy.pct \in 0..FullBps
    BY <1>6 DEF IsPolicy
  <2> QED BY <1>1, <1>3, <1>4, <2>1, <2>2, LeakedIsNumber
<1> QED BY <1>2, <1>3, <1>5, <1>6

LEMMA MovedRows ==
  ASSUME events \in Seq(Event), NEW policy, IsPolicy(policy)
  PROVE  /\ DOMAIN Transformed(policy) = DOMAIN events
         /\ \A i \in DOMAIN events :
              /\ Transformed(policy)[i].id = events[i].id
              /\ Transformed(policy)[i].symbol = events[i].symbol
              /\ Transformed(policy)[i].role = events[i].role
              /\ Transformed(policy)[i].sentiment = events[i].sentiment
              /\ Transformed(policy)[i].score = events[i].score
              /\ Transformed(policy)[i].observed_time = events[i].observed_time
         /\ \A i \in DOMAIN events :
              Transformed(policy)[i] = events[i] \/ (UpdatesSignalState(events[i]) /\ policy.kind # "order")
         /\ ~OutOfRange(policy) => Transformed(policy) \in Seq(Event)
<1> DEFINE moved == Transformed(policy)
<1>1. Len(events) \in Nat /\ DOMAIN events = 1..Len(events) /\ \A i \in DOMAIN events : events[i] \in Event
  OBVIOUS
<1>2. DOMAIN moved = DOMAIN events
  BY DEF Transformed
<1>3. ASSUME NEW i \in DOMAIN events
      PROVE  \/ /\ Moves(policy, events[i])
                /\ moved[i] = [events[i] EXCEPT !.received_time = MovedTime(policy, events[i])]
             \/ moved[i] = events[i]
  BY Zenon DEF Transformed
<1> HIDE DEF moved
<1>4. ASSUME NEW i \in DOMAIN events
      PROVE  /\ moved[i].id = events[i].id
             /\ moved[i].symbol = events[i].symbol
             /\ moved[i].role = events[i].role
             /\ moved[i].sentiment = events[i].sentiment
             /\ moved[i].score = events[i].score
             /\ moved[i].observed_time = events[i].observed_time
  BY <1>1, <1>3 DEF Event
<1>5. ASSUME NEW i \in DOMAIN events
      PROVE  moved[i] = events[i] \/ (UpdatesSignalState(events[i]) /\ policy.kind # "order")
  BY <1>1, <1>3, MovedTimeIsNumber
<1>6. ASSUME ~OutOfRange(policy)
      PROVE  moved \in Seq(Event)
  <2>1. ASSUME NEW i \in DOMAIN events
        PROVE  moved[i] \in Event
    <3>1. CASE moved[i] = events[i]
      BY <1>1, <3>1
    <3>2. CASE /\ Moves(policy, events[i])
               /\ moved[i] = [events[i] EXCEPT !.received_time = MovedTime(policy, events[i])]
      <4>1. MovedTime(policy, events[i]) \in Int
        BY <1>1, <3>2, MovedTimeIsNumber
      <4>2. FitsTime(MovedTime(policy, events[i]))
        BY <1>6, <3>2, Zenon DEF OutOfRange
      <4>3. MovedTime(policy, events[i]) \in Nat
        BY <4>1, <4>2, TimeAssumption DEF FitsTime
      <4> QED BY <1>1, <3>2, <4>3 DEF Event
    <3> QED BY <1>3, <3>1, <3>2
  <2>2. moved = [i \in 1..Len(events) |-> moved[i]]
    BY <1>1, Zenon DEF moved, Transformed
  <2>3. moved \in [1..Len(events) -> Event]
    BY <1>1, <2>1, <2>2
  <2> QED BY <1>1, <2>3, SeqDef
<1> QED BY <1>2, <1>4, <1>5, <1>6, Zenon DEF moved

\* A moved feed can only be refused for two rows at one receipt position.
LEMMA MovedIsCleanUnlessColliding ==
  ASSUME events \in Seq(Event), Clean(events), NEW policy, IsPolicy(policy),
         ~Clean(Transformed(policy))
  PROVE  Collides(Transformed(policy))
<1> DEFINE moved == Transformed(policy)
<1>1. /\ DOMAIN moved = DOMAIN events
      /\ \A i \in DOMAIN events : /\ moved[i].id = events[i].id
                                  /\ moved[i].symbol = events[i].symbol
                                  /\ moved[i].role = events[i].role
                                  /\ moved[i].sentiment = events[i].sentiment
                                  /\ moved[i].score = events[i].score
  BY MovedRows
<1> HIDE DEF moved
<1>2. \A i, j \in DOMAIN events : moved[i].symbol # moved[j].symbol =>
        SymbolIdOf[moved[i].symbol] # SymbolIdOf[moved[j].symbol]
  <2>1. \A i, j \in DOMAIN events : events[i].symbol # events[j].symbol =>
          SymbolIdOf[events[i].symbol] # SymbolIdOf[events[j].symbol]
    BY Zenon DEF Clean
  <2> QED BY <1>1, <2>1
<1>3. \A i \in DOMAIN events : UpdatesSignalState(moved[i]) => PayloadOk(moved[i])
  <2>1. \A i \in DOMAIN events : UpdatesSignalState(events[i]) => PayloadOk(events[i])
    BY Zenon DEF Clean
  <2> QED BY <1>1, <2>1, Zenon DEF UpdatesSignalState, PayloadOk
<1>4. \A i, j \in DOMAIN events : i # j => EventKey(moved[i]) # EventKey(moved[j])
  <2>1. \A i, j \in DOMAIN events : i # j => EventKey(events[i]) # EventKey(events[j])
    BY Zenon DEF Clean
  <2> QED BY <1>1, <2>1 DEF EventKey
<1>5. ~Clean(moved)
  BY DEF moved
<1>6. \E i, j \in DOMAIN moved :
        i # j /\ moved[i].received_time = moved[j].received_time /\ moved[i].seq = moved[j].seq
  BY <1>1, <1>2, <1>3, <1>4, <1>5, Zenon DEF Clean
<1>7. Collides(moved)
  BY <1>6, Zenon DEF Collides
<1> QED BY <1>7 DEF moved

-----------------------------------------------------------------------------
(***************************************************************************)
(* The log of a moved feed has a record for every prediction of the file,  *)
(* under the same key.                                                     *)
(***************************************************************************)
LEMMA KeysOfLog ==
  ASSUME NEW feed \in Seq(Event), Clean(feed), NEW by
  PROVE  KeysOf(LogOf(feed, by)) = { EventKey(feed[i]) : i \in { j \in DOMAIN feed : IsPrediction(feed[j]) } }
<1> DEFINE L == LogOf(feed, by)
           P == { j \in DOMAIN feed : IsPrediction(feed[j]) }
<1>1. \A n \in DOMAIN L : \E i \in DOMAIN feed :
        IsPrediction(feed[i]) /\ L[n] = RecordBy(by, RowsOf(feed), feed[i])
  BY LogRecords
<1>2. \A i \in DOMAIN feed : IsPrediction(feed[i]) =>
        \E n \in DOMAIN L : L[n] = RecordBy(by, RowsOf(feed), feed[i])
  BY LogRecords
<1>3. \A rows, p : RecordBy(by, rows, p).key = EventKey(p)
  BY DEF RecordBy, RecordFrom
<1> HIDE DEF L
<1>4. \A key : (\E n \in DOMAIN L : key = L[n].key) <=> \E i \in P : key = EventKey(feed[i])
  <2>1. \A n \in DOMAIN L : \E i \in P : L[n].key = EventKey(feed[i])
    BY <1>1, <1>3
  <2>2. \A i \in P : \E n \in DOMAIN L : L[n].key = EventKey(feed[i])
    BY <1>2, <1>3
  <2> HIDE DEF P
  <2> QED BY <2>1, <2>2, Zenon
<1>5. \A key : key \in KeysOf(L) <=> key \in { EventKey(feed[i]) : i \in P }
  BY <1>4, Zenon DEF KeysOf
<1>6. KeysOf(L) = { EventKey(feed[i]) : i \in P }
  BY <1>5, Zenon
<1> QED BY <1>6, Zenon DEF L

LEMMA RecordOfKey ==
  ASSUME NEW feed \in Seq(Event), Clean(feed), NEW by, NEW i \in DOMAIN feed, IsPrediction(feed[i])
  PROVE  RecordFor(LogOf(feed, by), EventKey(feed[i])) = RecordBy(by, RowsOf(feed), feed[i])
<1> DEFINE L == LogOf(feed, by)
           R(p) == RecordBy(by, RowsOf(feed), p)
           key == EventKey(feed[i])
<1>1. \A n \in DOMAIN L : \E j \in DOMAIN feed : IsPrediction(feed[j]) /\ L[n] = R(feed[j])
  BY LogRecords
<1>2. \E n \in DOMAIN L : L[n] = R(feed[i])
  BY LogRecords
<1>3. \A p : R(p).key = EventKey(p)
  BY DEF RecordBy, RecordFrom
<1>4. \A j \in DOMAIN feed : EventKey(feed[j]) = key => j = i
  BY CleanRows
<1>5. RecordFor(L, key) = L[CHOOSE n \in DOMAIN L : L[n].key = key]
  BY Zenon DEF RecordFor
<1> HIDE DEF L, R, key
<1>6. \E n \in DOMAIN L : L[n].key = key
  BY <1>2, <1>3, Zenon DEF key
<1>7. \A n \in DOMAIN L : L[n].key = key => L[n] = R(feed[i])
  BY <1>1, <1>3, <1>4, Zenon
<1>8. RecordFor(L, key) = R(feed[i])
  BY <1>5, <1>6, <1>7, Zenon
<1> QED BY <1>8, Zenon DEF L, R, key

LEMMA KeysAreKept ==
  ASSUME events \in Seq(Event), Clean(events), NEW policy, IsPolicy(policy),
         ~OutOfRange(policy), Clean(Transformed(policy)), NEW by
  PROVE  KeysOf(LogOf(Transformed(policy), by)) = KeysOf(LogOf(events, "ReceivedTime"))
<1> DEFINE moved == Transformed(policy)
           P == { j \in DOMAIN events : IsPrediction(events[j]) }
<1>1. /\ moved \in Seq(Event)
      /\ DOMAIN moved = DOMAIN events
      /\ \A i \in DOMAIN events : moved[i].id = events[i].id /\ moved[i].role = events[i].role
  BY MovedRows
<1>2. KeysOf(LogOf(moved, by)) = { EventKey(moved[i]) : i \in { j \in DOMAIN moved : IsPrediction(moved[j]) } }
  BY <1>1, KeysOfLog
<1>3. KeysOf(LogOf(events, "ReceivedTime")) = { EventKey(events[i]) : i \in P }
  BY KeysOfLog
<1> HIDE DEF moved
<1>4. { j \in DOMAIN moved : IsPrediction(moved[j]) } = P
  BY <1>1, Zenon DEF IsPrediction
<1>5. \A i \in P : EventKey(moved[i]) = EventKey(events[i])
  BY <1>1, Zenon DEF EventKey
<1>6. { EventKey(moved[i]) : i \in P } = { EventKey(events[i]) : i \in P }
  BY <1>5, SMT
<1> QED BY <1>2, <1>3, <1>4, <1>6, Zenon DEF moved

-----------------------------------------------------------------------------
(***************************************************************************)
(* A change of the sweep, for one policy: the records of one prediction in *)
(* the two logs differ.                                                    *)
(***************************************************************************)
Old(i) == RecordBy("ReceivedTime", RowsOf(events), events[i])

New(policy, i) == RecordBy(OrderOf(policy), RowsOf(Transformed(policy)), events[i])

\* What is known of a policy that was compared.
Comparable(policy) ==
  /\ events \in Seq(Event)
  /\ Clean(events)
  /\ IsPolicy(policy)
  /\ ~OutOfRange(policy)
  /\ Clean(Transformed(policy))
  /\ baseline = LogOf(events, "ReceivedTime")

LEMMA RowOfKey ==
  ASSUME events \in Seq(Event), Clean(events), NEW i \in DOMAIN events
  PROVE  RowWithKey(EventKey(events[i])) = i
<1>1. \A j \in DOMAIN events : EventKey(events[j]) = EventKey(events[i]) => j = i
  BY CleanRows
<1> QED BY <1>1, Zenon DEF RowWithKey

LEMMA DetailsAreChanges ==
  ASSUME NEW policy, Comparable(policy),
         NEW d \in DOMAIN DetailsOf(LogOf(Transformed(policy), OrderOf(policy)))
  PROVE  \E i \in DOMAIN events :
           /\ IsPrediction(events[i])
           /\ DetailsOf(LogOf(Transformed(policy), OrderOf(policy)))[d] = DetailOf(Old(i), New(policy, i))
           /\ IsChange(DetailOf(Old(i), New(policy, i)))
<1> DEFINE moved == Transformed(policy)
           log == LogOf(moved, OrderOf(policy))
           Detail(n) == DetailOf(baseline[n], RecordFor(log, baseline[n].key))
           all == [ n \in DOMAIN baseline |-> Detail(n) ]
           P == { n \in DOMAIN all : IsChange(all[n]) }
<1>1. /\ moved \in Seq(Event) /\ DOMAIN moved = DOMAIN events
      /\ \A i \in DOMAIN events : moved[i].id = events[i].id /\ moved[i].role = events[i].role
      /\ \A i \in DOMAIN events : IsPrediction(events[i]) => moved[i] = events[i]
  <2>1. \A i \in DOMAIN events : moved[i] = events[i] \/ UpdatesSignalState(events[i])
    BY MovedRows DEF Comparable
  <2>2. \A e : UpdatesSignalState(e) => ~IsPrediction(e)
    BY DEF UpdatesSignalState, IsPrediction, FeatureRoles
  <2>3. moved \in Seq(Event) /\ DOMAIN moved = DOMAIN events
    BY MovedRows DEF Comparable
  <2>4. \A i \in DOMAIN events : moved[i].id = events[i].id /\ moved[i].role = events[i].role
    BY MovedRows DEF Comparable
  <2> QED BY <2>1, <2>2, <2>3, <2>4, Zenon
<1>2. \A n \in DOMAIN baseline : \E i \in DOMAIN events : IsPrediction(events[i]) /\ baseline[n] = Old(i)
  BY LogRecords, Zenon DEF Comparable, Old
<1>3. ASSUME NEW i \in DOMAIN events, IsPrediction(events[i])
      PROVE  RecordFor(log, Old(i).key) = New(policy, i)
  <2>1. i \in DOMAIN moved /\ IsPrediction(moved[i]) /\ moved[i] = events[i]
    BY <1>1, <1>3, Zenon
  <2>2. RecordFor(log, EventKey(moved[i])) = RecordBy(OrderOf(policy), RowsOf(moved), moved[i])
    BY <1>1, <2>1, RecordOfKey DEF Comparable
  <2>3. Old(i).key = EventKey(events[i])
    BY DEF Old, RecordBy, RecordFrom
  <2> QED BY <2>1, <2>2, <2>3, Zenon DEF New
<1>4. \E N \in Nat : DOMAIN baseline = 1..N
  BY LogRecords, Zenon DEF Comparable
<1>5. PICK N \in Nat : DOMAIN baseline = 1..N
  BY <1>4
<1>6. DetailsOf(log) = Listed(all, P)
  BY Zenon DEF DetailsOf
<1> HIDE DEF log, moved, Detail
<1>7. DOMAIN all = 1..N /\ \A n \in 1..N : all[n] = Detail(n)
  BY <1>5
<1>8. \A q \in P : q \in 1..N
  BY <1>7
<1> HIDE DEF all
<1>9. \A n \in DOMAIN Listed(all, P) : \E p \in P : Listed(all, P)[n] = all[p]
  <2> HIDE DEF P
  <2> QED BY <1>8, ListedPlaces
<1>10. d \in DOMAIN Listed(all, P)
  BY <1>6 DEF log, moved
<1>11. PICK p \in P : Listed(all, P)[d] = all[p]
  BY <1>9, <1>10
<1>12. p \in DOMAIN baseline /\ IsChange(all[p]) /\ all[p] = Detail(p)
  BY <1>5, <1>7, <1>8, <1>11
<1>13. PICK i \in DOMAIN events : IsPrediction(events[i]) /\ baseline[p] = Old(i)
  BY <1>2, <1>12
<1>14. Detail(p) = DetailOf(Old(i), New(policy, i))
  BY <1>3, <1>13, Zenon DEF Detail
<1> QED BY <1>6, <1>11, <1>12, <1>13, <1>14, Zenon DEF log, moved

(***************************************************************************)
(* What a record cites: rows of its feed, visible to the prediction.       *)
(***************************************************************************)
LEMMA CitedRows ==
  ASSUME NEW feed \in Seq(Event), Clean(feed), NEW by, NEW p
  PROVE  /\ \E N \in Nat : CitedFrom(by, VisibleBy(by, RowsOf(feed), p))
                             = [k \in 1..N |-> CitedFrom(by, VisibleBy(by, RowsOf(feed), p))[k]]
         /\ \A k \in DOMAIN CitedFrom(by, VisibleBy(by, RowsOf(feed), p)) : \E j \in DOMAIN feed :
              /\ CitedFrom(by, VisibleBy(by, RowsOf(feed), p))[k] = feed[j]
              /\ feed[j] \in VisibleBy(by, RowsOf(feed), p)
<1> DEFINE V == VisibleBy(by, RowsOf(feed), p)
           L == LatestBy(by, { e \in LatestBy(by, V, MaxInputs) : Relevant(e) },
                             Clamp(SignalWindow, 1, MaxInputs))
           c == CitedFrom(by, V)
<1>1. Apart(RowsOf(feed))
  BY CleanRows
<1>2. \A k \in DOMAIN c : c[k] \in V
  BY <1>1, CitedAreVisible
<1>3. \A e \in V : \E j \in DOMAIN feed : e = feed[j]
  BY Zenon DEF VisibleBy, RowsOf
<1>4. c = RowsInOrder(by, L)
  BY Zenon DEF CitedFrom
<1>5. \A e \in L : e \in RowsOf(feed)
  BY Zenon DEF LatestBy, VisibleBy
<1> HIDE DEF L, V, c
<1>6. Apart(L)
  BY <1>1, <1>5, ApartSubset
<1>7. Cardinality(L) \in Nat
  BY <1>6, PlacesAreTaken
<1>8. c = [k \in 1..Cardinality(L) |-> c[k]]
  BY <1>4 DEF RowsInOrder
<1>9. \E N \in Nat : c = [k \in 1..N |-> c[k]]
  BY <1>7, <1>8, Zenon
<1>10. \A k \in DOMAIN c : \E j \in DOMAIN feed : c[k] = feed[j] /\ feed[j] \in V
  BY <1>2, <1>3, Zenon
<1> QED BY <1>9, <1>10, Zenon DEF c, V

\* The same inputs, in order, make the same value.
LEMMA InputsMakeTheValue ==
  ASSUME NEW policy, Comparable(policy), NEW i \in DOMAIN events,
         Old(i).inputs = New(policy, i).inputs
  PROVE  Old(i).signal_value = New(policy, i).signal_value
<1> DEFINE moved == Transformed(policy)
           by == OrderOf(policy)
           c == CitedFrom("ReceivedTime", VisibleBy("ReceivedTime", RowsOf(events), events[i]))
           d == CitedFrom(by, VisibleBy(by, RowsOf(moved), events[i]))
<1>1. events \in Seq(Event) /\ Clean(events) /\ moved \in Seq(Event) /\ Clean(moved)
  BY MovedRows DEF Comparable
<1>2. /\ DOMAIN moved = DOMAIN events
      /\ \A j \in DOMAIN events : /\ moved[j].id = events[j].id
                                  /\ moved[j].sentiment = events[j].sentiment
                                  /\ moved[j].score = events[j].score
  BY MovedRows DEF Comparable
<1>3. \A j, k \in DOMAIN events : EventKey(events[j]) = EventKey(moved[k]) => j = k
  <2>1. \A j, k \in DOMAIN events : EventKey(events[j]) = EventKey(events[k]) => j = k
    BY <1>1, CleanRows
  <2>2. \A k \in DOMAIN events : EventKey(moved[k]) = EventKey(events[k])
    BY <1>2, Zenon DEF EventKey
  <2> QED BY <2>1, <2>2, Zenon
<1>4. \E N \in Nat : c = [k \in 1..N |-> c[k]]
  BY <1>1, CitedRows
<1>5. \E N \in Nat : d = [k \in 1..N |-> d[k]]
  BY <1>1, CitedRows
<1>6. \A k \in DOMAIN c : \E j \in DOMAIN events : c[k] = events[j]
  BY <1>1, CitedRows
<1>7. \A k \in DOMAIN d : \E j \in DOMAIN moved : d[k] = moved[j]
  BY <1>1, CitedRows
<1>8. Old(i) = RecordFrom(c, events[i]) /\ New(policy, i) = RecordFrom(d, events[i])
  BY Zenon DEF Old, New, RecordBy
<1> HIDE DEF moved, c, d
<1>9. [k \in DOMAIN c |-> EventKey(c[k])] = [k \in DOMAIN d |-> EventKey(d[k])]
  <2>1. \A s, r : RecordFrom(s, r).inputs = [k \in DOMAIN s |-> EventKey(s[k])]
    BY DEF RecordFrom
  <2>2. Old(i).inputs = [k \in DOMAIN c |-> EventKey(c[k])]
    BY <1>8, <2>1
  <2>3. New(policy, i).inputs = [k \in DOMAIN d |-> EventKey(d[k])]
    BY <1>8, <2>1
  <2> QED BY <2>2, <2>3
<1>10. DOMAIN c = DOMAIN d /\ \A k \in DOMAIN c : EventKey(c[k]) = EventKey(d[k])
  BY <1>9
<1>11. PICK N \in Nat : c = [k \in 1..N |-> c[k]]
  BY <1>4
<1>12. PICK M \in Nat : d = [k \in 1..M |-> d[k]]
  BY <1>5
<1>13. DOMAIN c = 1..N /\ DOMAIN d = 1..M
  BY <1>11, <1>12
<1>14. d = [k \in 1..N |-> d[k]]
  BY <1>10, <1>12, <1>13, Zenon
<1>15. \A k \in 1..N : c[k].sentiment = d[k].sentiment /\ c[k].score = d[k].score
  <2> TAKE k \in 1..N
  <2>1. PICK j \in DOMAIN events : c[k] = events[j]
    BY <1>6, <1>13
  <2>2. PICK m \in DOMAIN events : d[k] = moved[m]
    BY <1>2, <1>7, <1>10, <1>13
  <2>3. j = m
    BY <1>3, <1>10, <1>13, <2>1, <2>2
  <2> QED BY <1>2, <2>1, <2>2, <2>3
<1>16. RecordFrom(c, events[i]).signal_value = RecordFrom(d, events[i]).signal_value
  <2>1. ASSUME NEW n \in Nat,
               c = [k \in 1..n |-> c[k]], d = [k \in 1..n |-> d[k]],
               \A k \in 1..n : c[k].sentiment = d[k].sentiment /\ c[k].score = d[k].score
        PROVE  RecordFrom(c, events[i]).signal_value = RecordFrom(d, events[i]).signal_value
    <3>1. ASSUME NEW p, NEW q
          PROVE  RecordFrom(c, p).signal_value = RecordFrom(d, q).signal_value
      BY <2>1, ValueOfPayloads
    <3> QED BY <3>1
  <2> QED BY <1>11, <1>14, <1>15, <2>1
<1> QED BY <1>8, <1>16, Zenon

\* A change without a change of recipe would be no change.
LEMMA ChangesAreOfRecipe ==
  ASSUME NEW policy, Comparable(policy), NEW i \in DOMAIN events,
         IsChange(DetailOf(Old(i), New(policy, i)))
  PROVE  DetailOf(Old(i), New(policy, i)).recipe_changed
<1>1. SUFFICES ASSUME Old(i).inputs = New(policy, i).inputs
               PROVE  FALSE
  BY DEF DetailOf, Recipe
<1>2. Old(i).signal_value = New(policy, i).signal_value
  BY <1>1, InputsMakeTheValue
<1>3. InputsOf(New(policy, i)) = InputsOf(Old(i))
  BY <1>1, Zenon DEF InputsOf
<1> QED BY <1>1, <1>2, <1>3 DEF IsChange, DetailOf, Recipe

\* Without a moved row before the prediction, it sees the same rows.
LEMMA ChangeHasMovedRow ==
  ASSUME NEW policy, Comparable(policy), policy.kind # "order",
         NEW i \in DOMAIN events, IsPrediction(events[i]),
         IsChange(DetailOf(Old(i), New(policy, i)))
  PROVE  \E j \in Moved(policy) :
           /\ UpdatesSignalState(events[j])
           /\ events[j].symbol = events[i].symbol
           /\ \/ ReceivedBefore(events[j], events[i])
              \/ ReceivedBefore(Transformed(policy)[j], Transformed(policy)[i])
<1> DEFINE moved == Transformed(policy)
           o == "ReceivedTime"
<1>1. /\ DOMAIN moved = DOMAIN events
      /\ \A j \in DOMAIN events : moved[j] = events[j] \/ UpdatesSignalState(events[j])
      /\ \A j \in DOMAIN events : moved[j].symbol = events[j].symbol
      /\ moved \in Seq(Event)
  BY MovedRows DEF Comparable
<1>2. moved[i] = events[i]
  BY <1>1 DEF UpdatesSignalState, IsPrediction, FeatureRoles
<1>3. \A e, f \in Event : EarlierBy(o, e, f) <=> ReceivedBefore(e, f)
  BY ReceivedInOrder
<1>4. /\ \A j \in DOMAIN events : events[j] \in Event
      /\ \A j \in DOMAIN moved : moved[j] \in Event
  BY <1>1 DEF Comparable
<1>5. OrderOf(policy) = o
  BY DEF OrderOf
<1>6. \A j : j \in Moved(policy) <=> j \in DOMAIN events /\ moved[j] # events[j]
  BY Zenon DEF Moved
<1> SUFFICES ASSUME \A j \in Moved(policy) :
                      UpdatesSignalState(events[j]) /\ events[j].symbol = events[i].symbol =>
                        /\ ~ReceivedBefore(events[j], events[i])
                        /\ ~ReceivedBefore(moved[j], moved[i])
             PROVE  FALSE
  BY Zenon
<1> HIDE DEF moved
<1>7. ASSUME NEW j \in DOMAIN events, events[j] \in VisibleBy(o, RowsOf(events), events[i])
      PROVE  moved[j] = events[j]
  <2>1. /\ UpdatesSignalState(events[j]) /\ events[j].symbol = events[i].symbol
        /\ EarlierBy(o, events[j], events[i])
    BY <1>7, Zenon DEF VisibleBy
  <2> QED BY <2>1, <1>3, <1>4, <1>6
<1>8. ASSUME NEW j \in DOMAIN events, moved[j] \in VisibleBy(o, RowsOf(moved), events[i])
      PROVE  moved[j] = events[j]
  <2>1. moved[j].symbol = events[i].symbol /\ EarlierBy(o, moved[j], events[i])
    BY <1>8, Zenon DEF VisibleBy
  <2>2. ReceivedBefore(moved[j], moved[i])
    BY <2>1, <1>1, <1>2, <1>3, <1>4, Zenon
  <2> QED BY <2>1, <2>2, <1>1, <1>6
<1>9. \A e : e \in VisibleBy(o, RowsOf(events), events[i]) <=> e \in VisibleBy(o, RowsOf(moved), events[i])
  <2>1. \A e : e \in RowsOf(events) <=> \E j \in DOMAIN events : e = events[j]
    BY Zenon DEF RowsOf
  <2>2. \A e : e \in RowsOf(moved) <=> \E j \in DOMAIN events : e = moved[j]
    BY <1>1, Zenon DEF RowsOf
  <2>3. ASSUME NEW e, e \in VisibleBy(o, RowsOf(events), events[i])
        PROVE  e \in RowsOf(moved)
    <3>1. PICK j \in DOMAIN events : e = events[j]
      BY <2>1, <2>3, Zenon DEF VisibleBy
    <3>2. moved[j] = events[j]
      BY <1>7, <2>3, <3>1
    <3> QED BY <2>2, <3>1, <3>2, Zenon
  <2>4. ASSUME NEW e, e \in VisibleBy(o, RowsOf(moved), events[i])
        PROVE  e \in RowsOf(events)
    <3>1. PICK j \in DOMAIN events : e = moved[j]
      BY <2>2, <2>4, Zenon DEF VisibleBy
    <3>2. moved[j] = events[j]
      BY <1>8, <2>4, <3>1
    <3> QED BY <2>1, <3>1, <3>2, Zenon
  <2> QED BY <2>3, <2>4, Zenon DEF VisibleBy
<1>10. VisibleBy(o, RowsOf(events), events[i]) = VisibleBy(o, RowsOf(moved), events[i])
  BY <1>9, Zenon
<1>11. Old(i) = New(policy, i)
  BY <1>5, <1>10, Zenon DEF Old, New, RecordBy, moved
<1>12. ~IsChange(DetailOf(Old(i), New(policy, i)))
  <2>1. \A record : ~IsChange(DetailOf(record, record))
    BY DEF IsChange, DetailOf
  <2> QED BY <1>11, <2>1, Zenon
<1> QED BY <1>12

\* An input of the moved feed was before the prediction already, or was moved.
LEMMA InputsAreKnownOrMoved ==
  ASSUME NEW policy, Comparable(policy), policy.kind # "order",
         NEW i \in DOMAIN events, IsPrediction(events[i]),
         NEW key \in InputsOf(New(policy, i))
  PROVE  \/ ReceivedBefore(events[RowWithKey(key)], events[i])
         \/ RowWithKey(key) \in Moved(policy)
<1> DEFINE moved == Transformed(policy)
           o == "ReceivedTime"
           V == VisibleBy(o, RowsOf(moved), events[i])
           c == CitedFrom(o, V)
<1>1. /\ DOMAIN moved = DOMAIN events
      /\ \A j \in DOMAIN events : moved[j].id = events[j].id
      /\ moved \in Seq(Event) /\ Clean(moved)
  BY MovedRows DEF Comparable
<1>2. New(policy, i) = RecordFrom(c, events[i])
  <2>1. OrderOf(policy) = o
    BY DEF OrderOf
  <2> QED BY <2>1, Zenon DEF New, RecordBy
<1>3. \A k \in DOMAIN c : \E j \in DOMAIN moved : c[k] = moved[j] /\ moved[j] \in V
  BY <1>1, CitedRows
<1> HIDE DEF c
<1>4. New(policy, i).inputs = [k \in DOMAIN c |-> EventKey(c[k])]
  BY <1>2 DEF RecordFrom
<1>5. \E k \in DOMAIN c : key = EventKey(c[k])
  <2>1. \E k \in DOMAIN New(policy, i).inputs : key = New(policy, i).inputs[k]
    BY Zenon DEF InputsOf
  <2> QED BY <1>4, <2>1
<1>6. PICK j \in DOMAIN moved : key = EventKey(moved[j]) /\ moved[j] \in V
  BY <1>3, <1>5, Zenon
<1>7. RowWithKey(key) = j
  <2>1. key = EventKey(events[j]) /\ j \in DOMAIN events
    BY <1>1, <1>6, Zenon DEF EventKey
  <2>2. RowWithKey(EventKey(events[j])) = j
    BY <2>1, RowOfKey DEF Comparable
  <2> QED BY <2>1, <2>2, Zenon
<1>8. CASE moved[j] # events[j]
  BY <1>1, <1>6, <1>7, <1>8, Zenon DEF Moved
<1>9. CASE moved[j] = events[j]
  <2>1. EarlierBy(o, events[j], events[i])
    BY <1>6, <1>9, Zenon DEF VisibleBy
  <2>2. events[j] \in Event /\ events[i] \in Event
    BY <1>1, <1>6 DEF Comparable
  <2>3. ReceivedBefore(events[j], events[i])
    BY <2>1, <2>2, ReceivedInOrder
  <2> QED BY <1>7, <2>3
<1> QED BY <1>8, <1>9

-----------------------------------------------------------------------------
(***************************************************************************)
(* The inductive invariant: what the policies and the results are, and     *)
(* that every result so far is the comparison of its policy.               *)
(***************************************************************************)
TypesOfSweep ==
  /\ phase \in {"parse", "validate", "baseline", "compare", "done", "failed"}
  /\ events \in Seq(Event)
  /\ ArePolicies(policies)
  /\ phase = "parse" => /\ policies = <<>>
                        /\ IsParsed(parsed)
                        /\ args \in Seq(ToSet(args))
                        /\ \A n \in DOMAIN args : IsArgument(args[n])
  /\ results \in Seq(ToSet(results))
  /\ Len(results) <= Len(policies)
  /\ phase \in {"parse", "validate", "baseline"} => results = <<>>

ResultIs(n) ==
  /\ ~OutOfRange(policies[n])
  /\ ~Refused(Transformed(policies[n]))
  /\ results[n].details = DetailsOf(LogOf(Transformed(policies[n]), OrderOf(policies[n])))

ResultsAreComparisons ==
  /\ phase = "compare" \/ results # <<>> =>
       ~Refused(events) /\ baseline = LogOf(events, "ReceivedTime")
  /\ \A n \in DOMAIN results : ResultIs(n)

SInv == TypesOfSweep /\ ResultsAreComparisons /\ AbortHasCause

LEMMA ResultsStay ==
  ASSUME events' = events, policies' = policies, baseline' = baseline, results' = results
  PROVE  \A n : ResultIs(n)' <=> ResultIs(n)
<1> TAKE n
<1>1. OutOfRange(policies[n])' <=> OutOfRange(policies[n])
  BY DEF OutOfRange
<1>2. Transformed(policies[n])' = Transformed(policies[n])
  BY DEF Transformed
<1>3. Refused(Transformed(policies[n]))' <=> Refused(Transformed(policies[n]))
  BY <1>2
<1>4. DetailsOf(LogOf(Transformed(policies[n]), OrderOf(policies[n])))'
        = DetailsOf(LogOf(Transformed(policies[n]), OrderOf(policies[n])))
  BY <1>2 DEF DetailsOf
<1> QED BY <1>1, <1>3, <1>4 DEF ResultIs

\* An error leaves the policies and the results as they are.
LEMMA FailingKeeps ==
  ASSUME SInv, NEW with, Fail(with)
  PROVE  TypesOfSweep' /\ ResultsAreComparisons'
<1>1. /\ phase' = "failed" /\ events' = events /\ policies' = policies
      /\ baseline' = baseline /\ results' = results
  BY DEF Fail
<1>2. TypesOfSweep'
  BY <1>1 DEF SInv, TypesOfSweep, ArePolicies
<1>3. \A n : ResultIs(n)' <=> ResultIs(n)
  BY <1>1, ResultsStay
<1>4. ResultsAreComparisons'
  BY <1>1, <1>3 DEF SInv, ResultsAreComparisons
<1> QED BY <1>2, <1>4

\* A step within the sweep that fails no policy keeps the cause of an abort.
LEMMA NoAbort ==
  ASSUME phase' # "failed" \/ policies' = <<>>
  PROVE  AbortHasCause'
BY DEF AbortHasCause

LEMMA SweepStarts == Init => SInv
<1> SUFFICES ASSUME Init PROVE SInv
  OBVIOUS
<1>1. /\ results = <<>> /\ phase \in {"parse", "validate"} /\ parsed = Unparsed
      /\ \/ /\ \E call \in Commands : events = call.events /\ args = call.args
            /\ policies = <<>> /\ phase = "parse"
         \/ /\ \E call \in LibraryCalls : events = call.events /\ policies = call.policies
            /\ phase = "validate"
  BY DEF Init
<1>2. /\ results \in Seq(ToSet(results)) /\ Len(results) = 0 /\ DOMAIN results = {}
  BY <1>1, EmptySeq
<1>3. TypesOfSweep
  <2>1. IsParsed(parsed) /\ ArePolicies(<<>>) /\ Len(<<>>) = 0
    BY <1>1, NothingIsParsed
  <2>2. ASSUME NEW call \in Commands, events = call.events, args = call.args,
               policies = <<>>, phase = "parse"
        PROVE  TypesOfSweep
    BY <1>1, <1>2, <2>1, <2>2, SensitivityAssumption DEF TypesOfSweep
  <2>3. ASSUME NEW call \in LibraryCalls, events = call.events, policies = call.policies,
               phase = "validate"
        PROVE  TypesOfSweep
    <3>1. events \in Seq(Event) /\ ArePolicies(policies)
      BY <2>3, SensitivityAssumption DEF ArePolicies
    <3>2. Len(policies) \in Nat
      BY <3>1, LenProperties DEF ArePolicies
    <3> QED BY <1>1, <1>2, <2>3, <3>1, <3>2 DEF TypesOfSweep
  <2> QED BY <1>1, <2>2, <2>3
<1>4. ResultsAreComparisons
  BY <1>1, <1>2 DEF ResultsAreComparisons
<1>5. AbortHasCause
  BY <1>1 DEF AbortHasCause
<1> QED BY <1>3, <1>4, <1>5 DEF SInv

(***************************************************************************)
(* Reading the arguments.                                                  *)
(***************************************************************************)
LEMMA ParseArgumentKeeps == SInv /\ ParseArgument => SInv'
<1> SUFFICES ASSUME SInv, ParseArgument PROVE SInv'
  OBVIOUS
<1>1. /\ phase = "parse" /\ parsed.read < Len(args)
      /\ parsed' = AfterArgument(parsed, args[parsed.read + 1])
      /\ events' = events /\ args' = args /\ policies' = policies /\ phase' = phase
      /\ baseline' = baseline /\ results' = results
  BY DEF ParseArgument
<1>2. /\ IsParsed(parsed) /\ args \in Seq(ToSet(args))
      /\ \A n \in DOMAIN args : IsArgument(args[n])
  BY <1>1 DEF SInv, TypesOfSweep
<1>3. parsed.read + 1 \in DOMAIN args
  <2>1. parsed.read \in Nat
    BY <1>2 DEF IsParsed
  <2> QED BY <1>1, <1>2, <2>1
<1>4. IsParsed(parsed')
  BY <1>1, <1>2, <1>3, ArgumentIsParsed
<1>5. TypesOfSweep'
  BY <1>1, <1>4 DEF SInv, TypesOfSweep, ArePolicies, IsParsed
<1>6. \A n : ResultIs(n)' <=> ResultIs(n)
  BY <1>1, ResultsStay
<1>7. ResultsAreComparisons'
  BY <1>1, <1>6 DEF SInv, ResultsAreComparisons
<1>8. AbortHasCause'
  BY <1>1, NoAbort
<1> QED BY <1>5, <1>7, <1>8 DEF SInv

LEMMA CompleteArgumentsKeeps == SInv /\ CompleteArguments => SInv'
<1> SUFFICES ASSUME SInv, CompleteArguments PROVE SInv'
  OBVIOUS
<1>1. phase = "parse" /\ policies = <<>> /\ IsParsed(parsed) /\ results = <<>>
  BY DEF SInv, TypesOfSweep, CompleteArguments
<1>2. ASSUME NEW with, Fail(with) PROVE SInv'
  <2>1. policies' = <<>>
    BY <1>1, <1>2 DEF Fail
  <2> QED BY <1>2, <2>1, FailingKeeps, NoAbort DEF SInv
<1> DEFINE ready == WithLateArrivals(ParsedArgs(args, parsed), events)
<1>3. ASSUME policies' = ready.policies, phase' = "validate",
             events' = events, results' = results
      PROVE  SInv'
  <2>1. ArePolicies(ready.policies)
    BY <1>1, CompletedIsParsed DEF IsParsed
  <2> HIDE DEF ready
  <2>2. Len(ready.policies) \in Nat
    BY <2>1, LenProperties DEF ArePolicies
  <2>3. Len(results) = 0 /\ results \in Seq(ToSet(results)) /\ DOMAIN results = {}
    BY <1>1, EmptySeq
  <2>4. ArePolicies(policies')
    BY <1>3, <2>1
  <2>5. TypesOfSweep'
    BY <1>1, <1>3, <2>2, <2>3, <2>4 DEF SInv, TypesOfSweep, ArePolicies
  <2>6. ResultsAreComparisons'
    BY <1>1, <1>3, <2>3 DEF ResultsAreComparisons
  <2>7. AbortHasCause'
    BY <1>3, NoAbort
  <2> QED BY <2>5, <2>6, <2>7 DEF SInv
<1>4. \/ \E with : Fail(with)
      \/ /\ policies' = ready.policies /\ phase' = "validate"
         /\ events' = events /\ results' = results
  BY Zenon DEF CompleteArguments
<1> QED BY <1>2, <1>3, <1>4

(***************************************************************************)
(* The sweep.  A failing policy names its cause, and the keys of the       *)
(* predictions always match.                                               *)
(***************************************************************************)
LEMMA PhaseMoves ==
  ASSUME SInv, events' = events, policies' = policies, results' = results, baseline' = baseline,
         \/ phase = "validate" /\ phase' = "baseline"
         \/ phase = "compare" /\ phase' = "done"
         \/ phase' = phase /\ args' = args /\ parsed' = parsed /\ error' = error
  PROVE  SInv'
<1>1. TypesOfSweep'
  BY DEF SInv, TypesOfSweep, ArePolicies, IsParsed
<1>2. \A n : ResultIs(n)' <=> ResultIs(n)
  BY ResultsStay
<1>3. ResultsAreComparisons'
  BY <1>2 DEF SInv, ResultsAreComparisons
<1>4. AbortHasCause'
  <2>1. CASE phase' # "failed"
    BY <2>1, NoAbort
  <2>2. CASE phase' = phase /\ error' = error
    BY <2>2 DEF SInv, AbortHasCause, DuplicateName, NamesOf, Collides, Current, Transformed
  <2> QED BY <2>1, <2>2
<1> QED BY <1>1, <1>3, <1>4 DEF SInv

LEMMA ValidateKeeps == SInv /\ Validate => SInv'
<1> SUFFICES ASSUME SInv, Validate PROVE SInv'
  OBVIOUS
<1>1. CASE policies = <<>> /\ Fail("NoComparisonPolicies")
  BY <1>1, FailingKeeps, NoAbort DEF Fail, SInv
<1>2. CASE DuplicateName(policies) /\ Fail("DuplicatePolicyName")
  <2>1. AbortHasCause'
    BY <1>2 DEF Fail, AbortHasCause, DuplicateName, NamesOf
  <2> QED BY <1>2, <2>1, FailingKeeps DEF SInv
<1>3. CASE phase' = "baseline" /\ UNCHANGED <<events, args, parsed, policies, error, baseline, results>>
  BY <1>3, PhaseMoves DEF Validate
<1> QED BY <1>1, <1>2, <1>3 DEF Validate

LEMMA RunBaselineKeeps == SInv /\ RunBaseline => SInv'
<1> SUFFICES ASSUME SInv, RunBaseline PROVE SInv'
  OBVIOUS
<1>1. CASE Refused(events) /\ Fail("Replay")
  <2>1. AbortHasCause'
    <3>1. Refused(events)'
      BY <1>1 DEF Fail
    <3> QED BY <3>1 DEF AbortHasCause
  <2> QED BY <1>1, <2>1, FailingKeeps DEF SInv
<1>2. CASE /\ ~Refused(events) /\ baseline' = LogOf(events, "ReceivedTime")
           /\ phase' = "compare"
           /\ UNCHANGED <<events, args, parsed, policies, error, results>>
  <2>1. results = <<>> /\ phase = "baseline"
    BY DEF SInv, TypesOfSweep, RunBaseline
  <2>2. TypesOfSweep'
    BY <1>2, <2>1 DEF SInv, TypesOfSweep, ArePolicies
  <2>3. ResultsAreComparisons'
    <3>1. DOMAIN results' = {}
      BY <1>2, <2>1
    <3>2. (~Refused(events) /\ baseline = LogOf(events, "ReceivedTime"))'
      BY <1>2
    <3> QED BY <3>1, <3>2 DEF ResultsAreComparisons
  <2>4. AbortHasCause'
    BY <1>2, NoAbort
  <2> QED BY <2>2, <2>3, <2>4 DEF SInv
<1> QED BY <1>1, <1>2 DEF RunBaseline

\* What is known when a policy is compared.
LEMMA ComparingKnows ==
  ASSUME SInv, Comparing
  PROVE  /\ events \in Seq(Event) /\ Clean(events)
         /\ baseline = LogOf(events, "ReceivedTime")
         /\ IsPolicy(Current)
         /\ Len(results) + 1 \in DOMAIN policies
         /\ Len(results) \in Nat
<1>1. /\ events \in Seq(Event) /\ ArePolicies(policies) /\ results \in Seq(ToSet(results))
      /\ ~Refused(events) /\ baseline = LogOf(events, "ReceivedTime")
      /\ Len(results) < Len(policies)
  BY DEF SInv, TypesOfSweep, ResultsAreComparisons, Comparing
<1>2. Len(results) \in Nat /\ Len(policies) \in Nat /\ DOMAIN policies = 1..Len(policies)
  BY <1>1, LenProperties DEF ArePolicies
<1>3. Len(results) + 1 \in DOMAIN policies
  BY <1>1, <1>2
<1> QED BY <1>1, <1>2, <1>3, RefusedUnlessClean DEF ArePolicies, Current

LEMMA RejectPolicyKeeps == SInv /\ RejectPolicy => SInv'
<1> SUFFICES ASSUME SInv, RejectPolicy PROVE SInv'
  OBVIOUS
<1>1. /\ events \in Seq(Event) /\ Clean(events) /\ IsPolicy(Current)
      /\ Len(results) < Len(policies)
  BY ComparingKnows DEF RejectPolicy, Comparing
<1>2. ASSUME NEW with, Fail(with)
      PROVE  events' = events /\ policies' = policies /\ results' = results /\ error' = with
  BY <1>2 DEF Fail
<1>3. CASE OutOfRange(Current) /\ Fail("TimestampShiftOutOfRange")
  <2>1. PICK i \in DOMAIN events :
          Moves(Current, events[i]) /\ ~FitsTime(MovedTime(Current, events[i]))
    BY <1>3, Zenon DEF OutOfRange
  <2>2. events[i] \in Event
    BY <1>1
  <2>3. MovedTime(Current, events[i]) \in Int
    BY <1>1, <2>1, <2>2, MovedTimeIsNumber
  <2>4. MovedTime(Current, events[i]) < 0 \/ MovedTime(Current, events[i]) > MaxTime
    BY <2>1, <2>3, TimeAssumption DEF FitsTime
  <2>5. \E j \in DOMAIN events : LET time == MovedTime(Current, events[j]) IN
          Moves(Current, events[j]) /\ (time < 0 \/ time > MaxTime)
    BY <2>1, <2>4
  <2>6. AbortHasCause'
    BY <1>1, <1>2, <1>3, <2>5 DEF AbortHasCause, Current
  <2> QED BY <1>3, <2>6, FailingKeeps DEF SInv
<1>4. CASE Refused(Transformed(Current)) /\ Fail("Replay")
  <2>1. Collides(Transformed(Current))
    BY <1>1, <1>4, RefusedUnlessClean, MovedIsCleanUnlessColliding
  <2>2. Collides(Transformed(Current))'
    BY <1>2, <1>4, <2>1 DEF Transformed, Current
  <2>3. AbortHasCause'
    BY <1>1, <1>2, <1>4, <2>2 DEF AbortHasCause
  <2> QED BY <1>4, <2>3, FailingKeeps DEF SInv
<1> QED BY <1>3, <1>4 DEF RejectPolicy

LEMMA ComparePolicyKeeps == SInv /\ ComparePolicy => SInv'
<1> SUFFICES ASSUME SInv, ComparePolicy PROVE SInv'
  OBVIOUS
<1> DEFINE log == LogOf(Transformed(Current), OrderOf(Current))
<1>1. /\ events \in Seq(Event) /\ Clean(events)
      /\ baseline = LogOf(events, "ReceivedTime")
      /\ IsPolicy(Current)
      /\ Len(results) + 1 \in DOMAIN policies
      /\ Len(results) \in Nat
  BY ComparingKnows DEF ComparePolicy
<1>2. /\ phase = "compare" /\ Len(results) < Len(policies)
      /\ ~OutOfRange(Current) /\ ~Refused(Transformed(Current))
  BY DEF ComparePolicy, Comparing
<1>3. Clean(Transformed(Current))
  BY <1>2, RefusedUnlessClean
<1>4. KeysOf(log) = KeysOf(baseline)
  BY <1>1, <1>2, <1>3, KeysAreKept
<1>5. /\ results' = Append(results, ResultOf(Current, log))
      /\ events' = events /\ args' = args /\ parsed' = parsed /\ policies' = policies
      /\ phase' = phase /\ error' = error /\ baseline' = baseline
  BY <1>4 DEF ComparePolicy
<1> DEFINE result == ResultOf(Current, log)
           N == Len(results)
<1>6. result.details = DetailsOf(log)
  BY DEF ResultOf
<1> HIDE DEF log, result
<1>7. /\ results' \in Seq(ToSet(results'))
      /\ DOMAIN results' = 1..(N + 1)
      /\ Len(results') = N + 1
      /\ results'[N + 1] = result
      /\ \A n \in 1..N : results'[n] = results[n]
  <2> DEFINE T == ToSet(results) \cup {result}
  <2>1. results \in Seq(T)
    BY SeqMonotonic DEF SInv, TypesOfSweep
  <2>2. results' = Append(results, result)
    BY <1>5 DEF result
  <2>3. results' \in Seq(T)
    BY <2>1, <2>2
  <2>4. results' \in Seq(ToSet(results'))
    BY <2>3, SeqOfItself
  <2> QED BY <2>1, <2>2, <2>4
<1>8. TypesOfSweep'
  <2>1. Len(policies) \in Nat /\ DOMAIN policies = 1..Len(policies)
    BY LenProperties DEF SInv, TypesOfSweep, ArePolicies
  <2>2. Len(results') <= Len(policies')
    BY <1>1, <1>5, <1>7, <2>1
  <2>3. events' \in Seq(Event) /\ ArePolicies(policies') /\ phase' = "compare"
    BY <1>2, <1>5 DEF SInv, TypesOfSweep
  <2> QED BY <1>7, <2>2, <2>3 DEF TypesOfSweep, ArePolicies
<1>9. ASSUME NEW n \in DOMAIN results' PROVE ResultIs(n)'
  <2>1. OutOfRange(policies[n])' <=> OutOfRange(policies[n])
    BY <1>5 DEF OutOfRange
  <2>2. Transformed(policies[n])' = Transformed(policies[n])
    BY <1>5 DEF Transformed
  <2>3. Refused(Transformed(policies[n]))' <=> Refused(Transformed(policies[n]))
    BY <2>2
  <2>4. DetailsOf(LogOf(Transformed(policies[n]), OrderOf(policies[n])))'
          = DetailsOf(LogOf(Transformed(policies[n]), OrderOf(policies[n])))
    BY <1>5, <2>2 DEF DetailsOf
  <2>5. /\ ~OutOfRange(policies[n]) /\ ~Refused(Transformed(policies[n]))
        /\ results'[n].details = DetailsOf(LogOf(Transformed(policies[n]), OrderOf(policies[n])))
    <3>1. CASE n = N + 1
      <4>1. policies[n] = Current
        BY <3>1 DEF Current
      <4> QED BY <1>2, <1>6, <1>7, <3>1, <4>1 DEF log
    <3>2. CASE n \in 1..N
      <4>1. DOMAIN results = 1..N
        BY LenProperties DEF SInv, TypesOfSweep
      <4>2. ResultIs(n) /\ results'[n] = results[n]
        BY <1>7, <3>2, <4>1 DEF SInv, ResultsAreComparisons
      <4> QED BY <4>2 DEF ResultIs
    <3> QED BY <1>1, <1>7, <3>1, <3>2
  <2> QED BY <2>1, <2>3, <2>4, <2>5 DEF ResultIs
<1>10. ResultsAreComparisons'
  <2>1. (~Refused(events) /\ baseline = LogOf(events, "ReceivedTime"))'
    BY <1>1, <1>5, RefusedUnlessClean
  <2> QED BY <1>9, <2>1 DEF ResultsAreComparisons
<1>11. AbortHasCause'
  BY <1>2, <1>5, NoAbort
<1> QED BY <1>8, <1>10, <1>11 DEF SInv

THEOREM SweepInvariant == Spec => []SInv
<1>1. Init => SInv
  BY SweepStarts
<1>2. SInv /\ [Next]_vars => SInv'
  <2> SUFFICES ASSUME SInv, [Next]_vars PROVE SInv'
    OBVIOUS
  <2>1. CASE ParseArgument
    BY <2>1, ParseArgumentKeeps
  <2>2. CASE CompleteArguments
    BY <2>2, CompleteArgumentsKeeps
  <2>3. CASE Validate
    BY <2>3, ValidateKeeps
  <2>4. CASE RunBaseline
    BY <2>4, RunBaselineKeeps
  <2>5. CASE RejectPolicy
    BY <2>5, RejectPolicyKeeps
  <2>6. CASE ComparePolicy
    BY <2>6, ComparePolicyKeeps
  <2>7. CASE Finish
    BY <2>7, PhaseMoves DEF Finish
  <2>8. CASE UNCHANGED vars
    BY <2>8, PhaseMoves DEF vars
  <2> QED BY <2>1, <2>2, <2>3, <2>4, <2>5, <2>6, <2>7, <2>8 DEF Next, Returned
<1> QED BY <1>1, <1>2, PTL DEF Spec

-----------------------------------------------------------------------------
(***************************************************************************)
(* What a sweep promises.                                                  *)
(***************************************************************************)

\* A leak policy makes a late row available between its observation and its
\* receipt, earlier with a larger share, and leaves every other row where it
\* is (sensitivity.rs:390-403).
THEOREM LeakedRowsStayBetween == Spec => []LeaksStayBetween
<1>1. SInv => LeaksStayBetween
  <2> SUFFICES ASSUME SInv, NEW n \in LeakPolicies, NEW i \in DOMAIN events
               PROVE  LET moved == Transformed(policies[n])[i].received_time IN
                      /\ IF IsLate(events[i])
                         THEN events[i].observed_time <= moved /\ moved <= events[i].received_time
                         ELSE moved = events[i].received_time
                      /\ \A m \in LeakPolicies :
                           policies[m].kind = "fraction" /\ policies[n].kind = "fraction"
                             /\ policies[m].pct <= policies[n].pct
                           => moved <= Transformed(policies[m])[i].received_time
    BY Zenon DEF LeaksStayBetween
  <2> DEFINE e == events[i]
             Time(policy) == Transformed(policy)[i].received_time
  <2>1. e \in Event /\ e.observed_time \in Nat /\ e.received_time \in Nat
    <3>1. events \in Seq(Event)
      BY DEF SInv, TypesOfSweep
    <3>2. events[i] \in Event
      BY <3>1
    <3> QED BY <3>2 DEF Event
  <2>2. \A m \in LeakPolicies : /\ IsPolicy(policies[m]) /\ policies[m].kind \in LagKinds
                                /\ policies[m].pct \in 0..FullBps
                                /\ policies[m].roles = FeatureRoles
    BY DEF SInv, TypesOfSweep, ArePolicies, LeakPolicies, LagKinds, IsPolicy
  <2>3. \A policy : policy.kind \in LagKinds =>
          Time(policy) = IF Moves(policy, e)
                         THEN Leaked(e.observed_time, e.received_time, policy.pct)
                         ELSE e.received_time
    <3> TAKE policy
    <3>1. Transformed(policy)[i] = IF Moves(policy, e)
                                   THEN [e EXCEPT !.received_time = MovedTime(policy, e)] ELSE e
      BY Zenon DEF Transformed
    <3>2. [e EXCEPT !.received_time = MovedTime(policy, e)].received_time = MovedTime(policy, e)
      BY <2>1 DEF Event
    <3>3. policy.kind \in LagKinds =>
            MovedTime(policy, e) = Leaked(e.observed_time, e.received_time, policy.pct)
      BY DEF MovedTime, LagKinds
    <3> HIDE DEF e
    <3> QED BY <3>1, <3>2, <3>3
  <2> HIDE DEF Time, e
  <2>4. \A m \in LeakPolicies :
          Time(policies[m]) = IF Moves(policies[m], e)
                              THEN Leaked(e.observed_time, e.received_time, policies[m].pct)
                              ELSE e.received_time
    BY <2>2, <2>3, Zenon
  <2>5. \A pct \in 0..FullBps :
          IF IsLate(e)
          THEN /\ e.observed_time <= Leaked(e.observed_time, e.received_time, pct)
               /\ Leaked(e.observed_time, e.received_time, pct) <= e.received_time
          ELSE Leaked(e.observed_time, e.received_time, pct) = e.received_time
    <3> TAKE pct \in 0..FullBps
    <3>1. CASE e.received_time > e.observed_time
      BY <2>1, <3>1, LeakStaysBetween DEF IsLate
    <3>2. CASE e.received_time <= e.observed_time
      BY <2>1, <3>2 DEF IsLate, Leaked
    <3> QED BY <2>1, <3>1, <3>2
  <2>6. IF IsLate(e)
        THEN e.observed_time <= Time(policies[n]) /\ Time(policies[n]) <= e.received_time
        ELSE Time(policies[n]) = e.received_time
    <3>1. CASE Moves(policies[n], e)
      BY <2>2, <2>4, <2>5, <3>1
    <3>2. CASE ~Moves(policies[n], e)
      BY <2>1, <2>4, <3>2 DEF IsLate
    <3> QED BY <3>1, <3>2
  <2>7. ASSUME NEW m \in LeakPolicies, policies[m].kind = "fraction", policies[n].kind = "fraction",
               policies[m].pct <= policies[n].pct
        PROVE  Time(policies[n]) <= Time(policies[m])
    <3>1. Moves(policies[m], e) <=> Moves(policies[n], e)
      BY <2>2, <2>7 DEF Moves, InCohort
    <3>2. Leaked(e.observed_time, e.received_time, policies[n].pct)
            <= Leaked(e.observed_time, e.received_time, policies[m].pct)
      BY <2>1, <2>2, <2>7, LeakIsMonotone
    <3> QED BY <2>1, <2>4, <3>1, <3>2
  <2> QED BY <2>6, <2>7 DEF Time, e
<1> QED BY <1>1, SweepInvariant, PTL

\* A sweep of an accepted file over distinct policies is aborted only by the
\* policy it names, and never for unmatched prediction keys
\* (sensitivity.rs:343-366, 378-388, 503-526).
THEOREM OnlyThePolicyAborts == Spec => []AbortHasCause
<1>1. SInv => AbortHasCause
  BY DEF SInv
<1> QED BY <1>1, SweepInvariant, PTL

\* What is known of a result.
LEMMA ResultKnows ==
  ASSUME SInv, NEW n \in DOMAIN results, NEW d \in DOMAIN results[n].details
  PROVE  /\ Comparable(policies[n])
         /\ \E i \in DOMAIN events :
              /\ IsPrediction(events[i])
              /\ results[n].details[d] = DetailOf(Old(i), New(policies[n], i))
              /\ IsChange(DetailOf(Old(i), New(policies[n], i)))
<1>1. results # <<>> /\ n \in DOMAIN policies
  <2>1. results \in Seq(ToSet(results)) /\ Len(results) <= Len(policies) /\ ArePolicies(policies)
    BY DEF SInv, TypesOfSweep
  <2>2. DOMAIN results = 1..Len(results) /\ Len(results) \in Nat
    BY <2>1, LenProperties
  <2>3. DOMAIN policies = 1..Len(policies) /\ Len(policies) \in Nat
    BY <2>1, LenProperties DEF ArePolicies
  <2> QED BY <2>1, <2>2, <2>3
<1>2. ~Refused(events) /\ baseline = LogOf(events, "ReceivedTime") /\ ResultIs(n)
  BY <1>1 DEF SInv, ResultsAreComparisons
<1>3. Comparable(policies[n])
  BY <1>1, <1>2, RefusedUnlessClean DEF Comparable, SInv, TypesOfSweep, ArePolicies, ResultIs
<1>4. results[n].details = DetailsOf(LogOf(Transformed(policies[n]), OrderOf(policies[n])))
  BY <1>2 DEF ResultIs
<1>5. d \in DOMAIN DetailsOf(LogOf(Transformed(policies[n]), OrderOf(policies[n])))
  BY <1>4
<1>6. \E i \in DOMAIN events :
        /\ IsPrediction(events[i])
        /\ DetailsOf(LogOf(Transformed(policies[n]), OrderOf(policies[n])))[d]
             = DetailOf(Old(i), New(policies[n], i))
        /\ IsChange(DetailOf(Old(i), New(policies[n], i)))
  BY <1>3, <1>5, DetailsAreChanges
<1> QED BY <1>3, <1>4, <1>6

\* No value flips without a change of the recipe (sensitivity.rs:443-471).
THEOREM NoFlipWithoutRecipe == Spec => []FlipComesWithRecipe
<1>1. SInv => FlipComesWithRecipe
  <2> SUFFICES ASSUME SInv, NEW n \in DOMAIN results, NEW d \in DOMAIN results[n].details
               PROVE  results[n].details[d].recipe_changed
    BY Zenon DEF FlipComesWithRecipe
  <2>1. Comparable(policies[n])
    BY ResultKnows
  <2>2. PICK i \in DOMAIN events :
          /\ results[n].details[d] = DetailOf(Old(i), New(policies[n], i))
          /\ IsChange(DetailOf(Old(i), New(policies[n], i)))
    BY ResultKnows
  <2> QED BY <2>1, <2>2, ChangesAreOfRecipe
<1> QED BY <1>1, SweepInvariant, PTL

\* A change of a record comes from a moved row before its prediction, and an
\* input that is new to the prediction was moved (sensitivity.rs:419-494).
THEOREM EveryChangeHasAMovedRow == Spec => []ChangesAreAttributable
<1>1. SInv => ChangesAreAttributable
  <2> SUFFICES ASSUME SInv, NEW n \in DOMAIN results, NEW d \in DOMAIN results[n].details,
                      policies[n].kind # "order"
               PROVE  LET detail == results[n].details[d]
                          p      == RowWithKey(detail.key)
                      IN  /\ \E i \in Moved(policies[n]) :
                               /\ UpdatesSignalState(events[i])
                               /\ events[i].symbol = events[p].symbol
                               /\ \/ ReceivedBefore(events[i], events[p])
                                  \/ ReceivedBefore(Transformed(policies[n])[i], Transformed(policies[n])[p])
                          /\ \A key \in detail.new_inputs :
                               \/ ReceivedBefore(events[RowWithKey(key)], events[p])
                               \/ RowWithKey(key) \in Moved(policies[n])
    BY Zenon DEF ChangesAreAttributable
  <2> DEFINE policy == policies[n]
             detail == results[n].details[d]
  <2>1. Comparable(policy)
    BY ResultKnows
  <2>2. PICK i \in DOMAIN events :
          /\ IsPrediction(events[i])
          /\ detail = DetailOf(Old(i), New(policy, i))
          /\ IsChange(DetailOf(Old(i), New(policy, i)))
    BY ResultKnows
  <2> HIDE DEF policy, detail
  <2>3. detail.key = EventKey(events[i])
    BY <2>2 DEF DetailOf, Old, RecordBy, RecordFrom
  <2>4. RowWithKey(detail.key) = i
    BY <2>1, <2>2, <2>3, RowOfKey DEF Comparable
  <2>5. policy.kind # "order"
    BY DEF policy
  <2>6. \E j \in Moved(policy) :
          /\ UpdatesSignalState(events[j])
          /\ events[j].symbol = events[i].symbol
          /\ \/ ReceivedBefore(events[j], events[i])
             \/ ReceivedBefore(Transformed(policy)[j], Transformed(policy)[i])
    BY <2>1, <2>2, <2>5, ChangeHasMovedRow
  <2>7. ASSUME NEW key \in detail.new_inputs
        PROVE  \/ ReceivedBefore(events[RowWithKey(key)], events[i])
               \/ RowWithKey(key) \in Moved(policy)
    <3>1. key \in InputsOf(New(policy, i))
      BY <2>2, <2>7 DEF DetailOf
    <3> QED BY <2>1, <2>2, <2>5, <3>1, InputsAreKnownOrMoved
  <2> QED BY <2>4, <2>6, <2>7, Zenon DEF policy, detail
<1> QED BY <1>1, SweepInvariant, PTL

-----------------------------------------------------------------------------
(***************************************************************************)
(* The generated shares.  Rounding an even spacing keeps its order and its *)
(* end, and leaving out repetitions makes it rise strictly.                *)
(***************************************************************************)
LEMMA QuotientGrows ==
  ASSUME NEW s \in Nat \ {0}
  PROVE  /\ \A c, d \in Nat : c <= d => c \div s <= d \div s
         /\ \A e \in Nat : Rounded(e * s, s) = e
<1>1. \A x \in Nat : /\ x = s * (x \div s) + (x % s) /\ x \div s \in Nat
                     /\ x % s \in 0..(s - 1)
  OBVIOUS
<1>2. ASSUME NEW c \in Nat, NEW d \in Nat, c <= d
      PROVE  c \div s <= d \div s
  <2> DEFINE a == c \div s
             b == d \div s
  <2>1. a \in Nat /\ b \in Nat /\ s * a <= c /\ d < s * b + s
    <3>1. \A y \in 0..(s - 1) : y \in Nat /\ y < s
      OBVIOUS
    <3>2. c = s * a + (c % s) /\ d = s * b + (d % s) /\ a \in Nat /\ b \in Nat
      BY <1>1
    <3>3. c % s \in Nat /\ d % s < s /\ d % s \in Nat
      BY <1>1, <3>1
    <3> HIDE DEF a, b
    <3>4. s * a \in Nat /\ s * b \in Nat
      BY <3>2
    <3> QED BY <3>2, <3>3, <3>4
  <2> HIDE DEF a, b
  <2>2. ~(b + 1 <= a)
    <3>1. SUFFICES ASSUME b + 1 <= a PROVE FALSE
      OBVIOUS
    <3>2. s * (b + 1) <= s * a
      BY <2>1, <3>1
    <3>3. s * (b + 1) = s * b + s
      BY <2>1
    <3>4. s * a \in Nat /\ s * b \in Nat
      BY <2>1
    <3> QED BY <1>2, <2>1, <3>2, <3>3, <3>4
  <2> QED BY <2>1, <2>2 DEF a, b
<1>3. ASSUME NEW e \in Nat
      PROVE  Rounded(e * s, s) = e
  <2> DEFINE half == s \div 2
             x == e * s + half
             q == x \div s
  <2>1. half \in Nat /\ half < s
    OBVIOUS
  <2> HIDE DEF half
  <2>2. x \in Nat
    BY <2>1
  <2>3. x = s * q + (x % s) /\ q \in Nat /\ x % s \in 0..(s - 1)
    BY <1>1, <2>2
  <2>4. x % s \in Nat /\ x % s < s
    BY <2>3
  <2>5. x = s * e + half /\ s * e \in Nat /\ s * q \in Nat
    BY <2>1, <2>3
  <2>6. Rounded(e * s, s) = q
    BY DEF Rounded, half
  <2> HIDE DEF x, q
  <2>7. s * q < s * e + s /\ s * e < s * q + s
    BY <2>1, <2>3, <2>4, <2>5
  <2>8. ~(e + 1 <= q)
    <3>1. SUFFICES ASSUME e + 1 <= q PROVE FALSE
      OBVIOUS
    <3>2. s * (e + 1) <= s * q /\ s * (e + 1) = s * e + s
      BY <2>3, <3>1
    <3> QED BY <2>5, <2>7, <3>2
  <2>9. ~(q + 1 <= e)
    <3>1. SUFFICES ASSUME q + 1 <= e PROVE FALSE
      OBVIOUS
    <3>2. s * (q + 1) <= s * e /\ s * (q + 1) = s * q + s
      BY <2>3, <3>1
    <3> QED BY <2>5, <2>7, <3>2
  <2> QED BY <2>3, <2>6, <2>8, <2>9
<1> QED BY <1>2, <1>3

\* The shares of a list rise strictly, above zero, to their bound.
RisesTo(shares, end) ==
  /\ shares \in Seq(Nat)
  /\ \A n \in DOMAIN shares : shares[n] \in 1..end
  /\ \A m, n \in DOMAIN shares : m < n => shares[m] < shares[n]
  /\ shares # <<>> => \E n \in DOMAIN shares : shares[n] = end

LEMMA RisingWithoutRepetition ==
  ASSUME NEW N \in Nat \ {0}, NEW S \in [1..N -> Nat],
         \A m, n \in 1..N : m <= n => S[m] <= S[n]
  PROVE  /\ RisesTo(WithoutRepetition(S), S[N])
         /\ S[N] # 0 => WithoutRepetition(S) # <<>>
<1> DEFINE P == { n \in DOMAIN S : S[n] # 0 /\ (n > 1 => S[n - 1] # S[n]) }
           W == WithoutRepetition(S)
<1>1. W = Listed(S, P) /\ DOMAIN S = 1..N
  BY DEF WithoutRepetition
<1>2. /\ \A p \in P : p \in 1..N /\ S[p] # 0 /\ (p > 1 => S[p - 1] # S[p])
      /\ \A p \in 1..N : S[p] # 0 /\ (p > 1 => S[p - 1] # S[p]) => p \in P
  BY <1>1
<1> HIDE DEF P
<1>3. W \in Seq(Nat)
  <2>1. S \in Seq(Nat)
    BY SeqDef
  <2> QED BY <2>1, SharesAreNumbers
<1>4. /\ \A n \in DOMAIN W : \E p \in P : Rank(P, p) = n /\ W[n] = S[p]
      /\ \A p \in P : Rank(P, p) \in DOMAIN W /\ W[Rank(P, p)] = S[p]
      /\ \A p, q \in P : p < q => Rank(P, p) < Rank(P, q)
      /\ \A p \in P : Rank(P, p) \in 1..Cardinality(P)
      /\ Cardinality(P) \in Nat
  <2>1. \A n \in DOMAIN W : \E p \in P : Rank(P, p) = n /\ W[n] = S[p]
    BY <1>1, <1>2, ListedPlaces
  <2>2. \A p \in P : Rank(P, p) \in DOMAIN W /\ W[Rank(P, p)] = S[p]
    BY <1>1, <1>2, ListedAtRank
  <2>3. /\ \A p, q \in P : p < q => Rank(P, p) < Rank(P, q)
        /\ \A p \in P : Rank(P, p) \in 1..Cardinality(P)
    BY <1>2, RankOrder
  <2>4. Cardinality(P) \in Nat
    BY <1>2, ListedElements
  <2> QED BY <2>1, <2>2, <2>3, <2>4
<1>5. \A n \in 1..N : S[n] \in Nat
  OBVIOUS
<1> HIDE DEF W
<1>6. \A n \in DOMAIN W : W[n] \in 1..S[N]
  <2> TAKE n \in DOMAIN W
  <2>1. PICK p \in P : W[n] = S[p]
    BY <1>4
  <2>2. p \in 1..N /\ N \in 1..N /\ p <= N /\ S[p] # 0
    BY <1>2
  <2>3. S[p] <= S[N] /\ S[p] \in Nat /\ S[N] \in Nat
    BY <1>5, <2>2
  <2> QED BY <2>1, <2>2, <2>3
<1>7. \A p, q \in P : p < q => S[p] < S[q]
  <2> TAKE p, q \in P
  <2> HAVE p < q
  <2>1. p \in 1..N /\ q \in 1..N /\ q - 1 \in 1..N /\ p <= q - 1 /\ q - 1 <= q /\ q > 1
    BY <1>2
  <2>2. S[p] <= S[q - 1] /\ S[q - 1] <= S[q] /\ S[q - 1] # S[q]
    BY <1>2, <2>1
  <2>3. S[p] \in Nat /\ S[q - 1] \in Nat /\ S[q] \in Nat
    BY <1>5, <2>1
  <2> QED BY <2>2, <2>3
<1>8. \A m, n \in DOMAIN W : m < n => W[m] < W[n]
  <2> TAKE m, n \in DOMAIN W
  <2> HAVE m < n
  <2>1. PICK p \in P : Rank(P, p) = m /\ W[m] = S[p]
    BY <1>4
  <2>2. PICK q \in P : Rank(P, q) = n /\ W[n] = S[q]
    BY <1>4
  <2>3. ~(q < p) /\ p # q
    <3>1. m \in Nat /\ n \in Nat
      BY <1>4, <2>1, <2>2
    <3> QED BY <1>4, <2>1, <2>2, <3>1
  <2>4. p < q
    BY <1>2, <2>3
  <2> QED BY <1>7, <2>1, <2>2, <2>4
<1>9. S[N] # 0 => \E n \in DOMAIN W : W[n] = S[N]
  <2> SUFFICES ASSUME S[N] # 0 PROVE \E n \in DOMAIN W : W[n] = S[N]
    OBVIOUS
  <2> DEFINE Ends == { n \in 1..N : S[n] = S[N] }
  <2>1. Ends # {} /\ \A n \in Ends : n \in Nat /\ n \in 1..N /\ S[n] = S[N]
    OBVIOUS
  <2>2. \A n \in 1..N : S[n] = S[N] => n \in Ends
    OBVIOUS
  <2> HIDE DEF Ends
  <2>3. PICK first \in Ends : \A n \in Ends : first <= n
    BY <2>1, LeastNatural
  <2>4. first \in 1..N /\ S[first] = S[N]
    BY <2>1
  <2>5. first > 1 => S[first - 1] # S[first]
    <3>1. SUFFICES ASSUME first > 1, S[first - 1] = S[first] PROVE FALSE
      OBVIOUS
    <3>2. first - 1 \in 1..N
      BY <2>4, <3>1
    <3>3. first - 1 \in Ends
      BY <2>2, <2>4, <3>1, <3>2
    <3> QED BY <2>3, <2>4, <3>3
  <2>6. first \in P
    BY <1>2, <2>4, <2>5
  <2>7. Rank(P, first) \in DOMAIN W /\ W[Rank(P, first)] = S[N]
    BY <1>4, <2>4, <2>6, Zenon
  <2> QED BY <2>7
<1>10. W # <<>> => S[N] # 0
  <2> SUFFICES ASSUME W # <<>> PROVE S[N] # 0
    OBVIOUS
  <2>1. 1 \in DOMAIN W
    BY <1>3
  <2>2. W[1] \in 1..S[N] /\ S[N] \in Nat
    BY <1>5, <1>6, <2>1
  <2> QED BY <2>2
<1>11. S[N] # 0 => W # <<>>
  BY <1>9
<1>12. RisesTo(W, S[N])
  BY <1>3, <1>6, <1>8, <1>9, <1>10, Zenon DEF RisesTo
<1> QED BY <1>11, <1>12 DEF W

LEMMA LookaheadRises ==
  ASSUME NEW range, range \in (0..FullBps) \X (0..FullBps), range[1] <= range[2],
         NEW steps \in Nat \ {0}
  PROVE  RisesTo(LookaheadShares(range, steps), range[2])
<1> DEFINE from == range[1]
           width == range[2] - range[1]
           N == steps + 1
           S == [n \in 1..N |-> from + Rounded(width * (n - 1), steps)]
<1>1. from \in Nat /\ width \in Nat /\ range[2] = from + width
  <2>1. range[1] \in 0..FullBps /\ range[2] \in 0..FullBps
    OBVIOUS
  <2>2. \A a, b \in 0..FullBps : a <= b => a \in Nat /\ b - a \in Nat /\ b = a + (b - a)
    BY DEF FullBps
  <2> QED BY <2>1, <2>2, Zenon
<1> HIDE DEF from, width
<1>2. /\ N \in Nat \ {0}
      /\ \A n \in 1..N : width * (n - 1) \in Nat
      /\ \A m, n \in 1..N : m <= n => width * (m - 1) <= width * (n - 1)
      /\ width * (N - 1) = width * steps
  BY <1>1
<1>3. \A n \in 1..N : Rounded(width * (n - 1), steps) \in Nat
  BY <1>2, QuotientIsNatural
<1>4. \A m, n \in 1..N : m <= n =>
        Rounded(width * (m - 1), steps) <= Rounded(width * (n - 1), steps)
  <2> TAKE m, n \in 1..N
  <2> HAVE m <= n
  <2>1. steps \div 2 \in Nat
    OBVIOUS
  <2>2. /\ width * (m - 1) + steps \div 2 \in Nat /\ width * (n - 1) + steps \div 2 \in Nat
        /\ width * (m - 1) + steps \div 2 <= width * (n - 1) + steps \div 2
    BY <1>2, <2>1
  <2> QED BY <2>2, QuotientGrows, Zenon DEF Rounded
<1> DEFINE R(n) == Rounded(width * (n - 1), steps)
<1>5. S \in [1..N -> Nat] /\ \A n \in 1..N : S[n] = from + R(n)
  <2>1. \A n \in 1..N : R(n) \in Nat
    BY <1>3
  <2> HIDE DEF R
  <2>2. \A n \in 1..N : from + R(n) \in Nat
    BY <1>1, <2>1
  <2>3. S = [n \in 1..N |-> from + R(n)]
    BY Zenon DEF R
  <2> HIDE DEF S, N
  <2> QED BY <2>2, <2>3
<1>6. \A m, n \in 1..N : m <= n => S[m] <= S[n]
  <2>1. \A n \in 1..N : R(n) \in Nat
    BY <1>3
  <2>2. \A m, n \in 1..N : m <= n => R(m) <= R(n)
    BY <1>4
  <2> HIDE DEF R, S, N
  <2> QED BY <1>1, <1>5, <2>1, <2>2
<1>7. S[N] = range[2]
  <2>1. N \in 1..N
    BY <1>2
  <2>2. S[N] = from + Rounded(width * steps, steps)
    BY <1>2, <2>1
  <2>3. Rounded(width * steps, steps) = width
    BY <1>1, QuotientGrows
  <2> QED BY <1>1, <2>2, <2>3
<1>8. LookaheadShares(range, steps) = WithoutRepetition(S)
  BY DEF LookaheadShares, from, width
<1> HIDE DEF S, N
<1> QED BY <1>2, <1>5, <1>6, <1>7, <1>8, RisingWithoutRepetition

LEMMA CumulativeRises ==
  ASSUME NEW steps \in Nat \ {0}
  PROVE  RisesTo(CumulativeShares(steps), FullBps) /\ CumulativeShares(steps) # <<>>
<1> DEFINE S == [n \in 1..steps |-> Rounded(n * FullBps, steps)]
<1>1. /\ \A n \in 1..steps : n * FullBps \in Nat
      /\ \A m, n \in 1..steps : m <= n => m * FullBps <= n * FullBps
      /\ steps * FullBps = FullBps * steps /\ FullBps \in Nat \ {0}
  BY DEF FullBps
<1>2. \A n \in 1..steps : Rounded(n * FullBps, steps) \in Nat
  BY <1>1, QuotientIsNatural
<1>3. \A m, n \in 1..steps : m <= n => Rounded(m * FullBps, steps) <= Rounded(n * FullBps, steps)
  <2> TAKE m, n \in 1..steps
  <2> HAVE m <= n
  <2>1. steps \div 2 \in Nat
    OBVIOUS
  <2>2. /\ m * FullBps + steps \div 2 \in Nat /\ n * FullBps + steps \div 2 \in Nat
        /\ m * FullBps + steps \div 2 <= n * FullBps + steps \div 2
    BY <1>1, <2>1
  <2> QED BY <2>2, QuotientGrows, Zenon DEF Rounded
<1>4. S \in [1..steps -> Nat] /\ \A m, n \in 1..steps : m <= n => S[m] <= S[n]
  BY <1>2, <1>3
<1>5. S[steps] = FullBps
  <2>1. steps \in 1..steps
    OBVIOUS
  <2>2. S[steps] = Rounded(FullBps * steps, steps)
    BY <1>1, <2>1
  <2> QED BY <1>1, <2>2, QuotientGrows
<1>6. CumulativeShares(steps) = WithoutRepetition(S)
  BY DEF CumulativeShares
<1> HIDE DEF S
<1> QED BY <1>1, <1>4, <1>5, <1>6, RisingWithoutRepetition

-----------------------------------------------------------------------------
(***************************************************************************)
(* The names of the policies a command line can make.                      *)
(***************************************************************************)
Stems == {"lookahead", "late_arrivals_cumulative"}

Shifted(shift) == ShiftFeatures(<<"shift_features", shift>>, shift)

IsBase(policy) == policy = ObservedTimeLeaky \/ \E shift \in Int : policy = Shifted(shift)

NameOfShare(stem, pct) == <<stem>> \o PercentName(pct)

IsShareOf(stem, policy) ==
  \E pct \in 1..FullBps : policy = LeakLagFraction(NameOfShare(stem, pct), pct)

\* The parts of a name give the share back.
LEMMA PercentIsRead ==
  ASSUME NEW stem, NEW pct \in Nat
  PROVE  LET name == NameOfShare(stem, pct) IN
         /\ name[1] = stem
         /\ \/ Len(name) = 2 /\ pct = 100 * name[2]
            \/ Len(name) = 3 /\ pct = 100 * name[2] + 10 * name[3]
            \/ Len(name) = 4 /\ pct = 100 * name[2] + 10 * name[3] + name[4]
<1> DEFINE w == pct \div 100
           h == pct % 100
           a == h \div 10
           b == h % 10
           tail == IF h = 0 THEN <<>> ELSE IF b = 0 THEN <<a>> ELSE <<a, b>>
           T == {stem} \cup Nat
<1>1. pct = 100 * w + h /\ w \in Nat /\ h \in Nat
  OBVIOUS
<1>2. NameOfShare(stem, pct) = <<stem>> \o (<<w>> \o tail)
  BY DEF NameOfShare, PercentName
<1> HIDE DEF w, h
<1>3. h = 10 * a + b /\ a \in Nat /\ b \in Nat
  BY <1>1
<1> HIDE DEF a, b
<1>4. /\ tail \in Seq(Nat)
      /\ \/ Len(tail) = 0 /\ h = 0
         \/ Len(tail) = 1 /\ h = 10 * tail[1]
         \/ Len(tail) = 2 /\ h = 10 * tail[1] + tail[2]
  BY <1>3
<1> HIDE DEF tail
<1> DEFINE digits == <<w>> \o tail
<1>5. /\ digits \in Seq(T) /\ Len(digits) = Len(tail) + 1
      /\ digits[1] = w /\ \A n \in 1..Len(tail) : digits[n + 1] = tail[n]
  <2>1. digits \in Seq(Nat) /\ Len(digits) = Len(tail) + 1
        /\ digits[1] = w /\ \A n \in 1..Len(tail) : digits[n + 1] = tail[n]
    BY <1>1, <1>4
  <2> HIDE DEF digits
  <2> QED BY <2>1, SeqMonotonic
<1> HIDE DEF digits
<1> DEFINE name == <<stem>> \o digits
<1>6. /\ Len(name) = Len(tail) + 2
      /\ name[1] = stem /\ \A n \in 1..(Len(tail) + 1) : name[n + 1] = digits[n]
  <2>1. <<stem>> \in Seq(T) /\ Len(tail) \in Nat
    BY <1>4
  <2> HIDE DEF T
  <2> QED BY <1>5, <2>1
<1>7. NameOfShare(stem, pct) = name
  BY <1>2 DEF digits
<1> HIDE DEF name
<1>8. CASE Len(tail) = 0 /\ h = 0
  BY <1>1, <1>5, <1>6, <1>7, <1>8
<1>9. CASE Len(tail) = 1 /\ h = 10 * tail[1]
  BY <1>1, <1>4, <1>5, <1>6, <1>7, <1>9
<1>10. CASE Len(tail) = 2 /\ h = 10 * tail[1] + tail[2]
  <2>1. name[2] = w /\ name[3] = tail[1] /\ name[4] = tail[2] /\ Len(name) = 4
    BY <1>5, <1>6, <1>10
  <2>2. tail[1] \in Nat /\ tail[2] \in Nat
    <3>1. \A n \in 1..Len(tail) : tail[n] \in Nat
      BY <1>4, ElementOfSeq
    <3> QED BY <1>10, <3>1
  <2>3. pct = 100 * name[2] + 10 * name[3] + name[4]
    BY <1>1, <1>10, <2>1, <2>2
  <2> QED BY <1>6, <1>7, <2>1, <2>3
<1> QED BY <1>4, <1>8, <1>9, <1>10

LEMMA SharesHaveNames ==
  ASSUME NEW stem
  PROVE  /\ \A pct \in Nat : NameOfShare(stem, pct)[1] = stem
         /\ \A p, q \in Nat : NameOfShare(stem, p) = NameOfShare(stem, q) => p = q
         /\ \A pct \in Nat : \A x : NameOfShare(stem, pct) # <<x>>
<1>1. ASSUME NEW pct \in Nat
      PROVE  NameOfShare(stem, pct)[1] = stem /\ \A x : NameOfShare(stem, pct) # <<x>>
  <2>1. NameOfShare(stem, pct)[1] = stem /\ Len(NameOfShare(stem, pct)) \in 2..4
    BY PercentIsRead
  <2>2. \A x : Len(<<x>>) = 1
    OBVIOUS
  <2> QED BY <2>1, <2>2
<1>2. ASSUME NEW p \in Nat, NEW q \in Nat, NameOfShare(stem, p) = NameOfShare(stem, q)
      PROVE  p = q
  <2> DEFINE name == NameOfShare(stem, p)
  <2>1. \/ Len(name) = 2 /\ p = 100 * name[2]
        \/ Len(name) = 3 /\ p = 100 * name[2] + 10 * name[3]
        \/ Len(name) = 4 /\ p = 100 * name[2] + 10 * name[3] + name[4]
    BY PercentIsRead
  <2>2. \/ Len(name) = 2 /\ q = 100 * name[2]
        \/ Len(name) = 3 /\ q = 100 * name[2] + 10 * name[3]
        \/ Len(name) = 4 /\ q = 100 * name[2] + 10 * name[3] + name[4]
    BY <1>2, PercentIsRead
  <2> HIDE DEF name
  <2> QED BY <2>1, <2>2
<1> QED BY <1>1, <1>2

LEMMA BaseIsNamed ==
  ASSUME NEW policy, IsBase(policy)
  PROVE  /\ policy.kind \in {"order", "shift"}
         /\ policy.name[1] \in {"observed_time_leaky", "shift_features"}
         /\ policy.name # <<"strict_received_time">>
BY DEF IsBase, ObservedTimeLeaky, Shifted, ShiftFeatures

LEMMA SameBase ==
  ASSUME NEW one, IsBase(one), NEW other, IsBase(other), one.name = other.name
  PROVE  one = other
<1>1. CASE one = ObservedTimeLeaky
  BY <1>1 DEF IsBase, ObservedTimeLeaky, Shifted, ShiftFeatures
<1>2. CASE other = ObservedTimeLeaky
  BY <1>2 DEF IsBase, ObservedTimeLeaky, Shifted, ShiftFeatures
<1>3. ASSUME NEW a \in Int, one = Shifted(a), NEW b \in Int, other = Shifted(b)
      PROVE  one = other
  <2>1. one.name = <<"shift_features", a>> /\ other.name = <<"shift_features", b>>
    BY <1>3 DEF Shifted, ShiftFeatures
  <2>2. \A x : <<"shift_features", x>>[2] = x
    OBVIOUS
  <2>3. <<"shift_features", a>> = <<"shift_features", b>>
    BY <2>1
  <2>4. a = b
    BY <2>2, <2>3, Zenon
  <2> QED BY <1>3, <2>4, Zenon
<1> QED BY <1>1, <1>2, <1>3 DEF IsBase

LEMMA ShareIsNamed ==
  ASSUME NEW stem \in Stems, NEW policy, IsShareOf(stem, policy)
  PROVE  /\ policy.kind = "fraction" /\ policy.pct \in 1..FullBps
         /\ policy.name = NameOfShare(stem, policy.pct) /\ policy.name[1] = stem
         /\ policy.name # <<"strict_received_time">>
         /\ ~IsLeaky(policy)
<1>1. PICK pct \in 1..FullBps : policy = LeakLagFraction(NameOfShare(stem, pct), pct)
  BY DEF IsShareOf
<1>2. Capped(pct) = pct /\ pct \in Nat
  BY DEF Capped, FullBps
<1>3. policy.kind = "fraction" /\ policy.pct = pct /\ policy.name = NameOfShare(stem, pct)
  BY <1>1, <1>2, Zenon DEF LeakLagFraction
<1>4. NameOfShare(stem, pct)[1] = stem /\ \A x : NameOfShare(stem, pct) # <<x>>
  BY <1>2, SharesHaveNames
<1> QED BY <1>2, <1>3, <1>4, Zenon DEF IsLeaky

(***************************************************************************)
(* Generated policies are inserted in one piece, before the leaky policy.  *)
(***************************************************************************)
IsInserted(k, list, generated, new) ==
  /\ k \in 0..Len(list)
  /\ DOMAIN new = 1..(Len(list) + Len(generated))
  /\ \A n \in 1..k : new[n] = list[n] /\ ~IsLeaky(list[n])
  /\ \A n \in 1..Len(generated) : new[k + n] = generated[n]
  /\ \A n \in (k + 1)..Len(list) : new[n + Len(generated)] = list[n]

LEMMA GeneratedAreInserted ==
  ASSUME NEW list, ArePolicies(list), NEW generated, ArePolicies(generated)
  PROVE  \E k : IsInserted(k, list, generated, WithGenerated(list, generated))
<1> DEFINE I == { i \in 1..Len(list) : IsLeaky(list[i]) }
           leaky == SelectInSeq(list, IsLeaky)
           new == WithGenerated(list, generated)
           L == Len(list)
           G == Len(generated)
           T == ToSet(list) \cup ToSet(generated)
<1>1. leaky = IF I # {} THEN Min(I) ELSE 0
  BY DEF SelectInSeq
<1>2. /\ L \in Nat /\ DOMAIN list = 1..L /\ list \in Seq(T)
      /\ G \in Nat /\ DOMAIN generated = 1..G /\ generated \in Seq(T)
  BY LenProperties, SeqMonotonic DEF ArePolicies
<1>3. I # {} => Min(I) \in I /\ \A i \in I : Min(I) <= i
  <2> SUFFICES ASSUME I # {} PROVE Min(I) \in I /\ \A i \in I : Min(I) <= i
    OBVIOUS
  <2>1. \E m \in I : \A x \in I : m <= x
    <3>1. \A x \in I : x \in Nat
      BY <1>2
    <3> HIDE DEF I
    <3> QED BY <3>1, LeastNatural
  <2> HIDE DEF I
  <2> QED BY <2>1 DEF Min
<1>4. \A i \in 1..L : IsLeaky(list[i]) => i \in I
  OBVIOUS
<1>5. \/ leaky = 0 /\ \A i \in 1..L : ~IsLeaky(list[i])
      \/ leaky \in 1..L /\ \A i \in 1..(leaky - 1) : ~IsLeaky(list[i])
  <2>1. CASE I = {}
    BY <1>1, <1>4, <2>1
  <2>2. CASE I # {}
    <3>1. leaky \in 1..L /\ \A i \in I : leaky <= i
      BY <1>1, <1>3, <2>2
    <3> HIDE DEF leaky, I
    <3>2. \A i \in 1..(leaky - 1) : i \in 1..L /\ ~(leaky <= i)
      BY <1>2, <3>1
    <3> QED BY <1>4, <3>1, <3>2
  <2> QED BY <2>1, <2>2
<1> HIDE DEF leaky, I, T
<1>6. CASE leaky = 0 /\ \A i \in 1..L : ~IsLeaky(list[i])
  <2>1. new = list \o generated
    BY <1>6, Zenon DEF WithGenerated, leaky
  <2>2. /\ DOMAIN new = 1..(L + G)
        /\ \A n \in 1..(L + G) : new[n] = IF n <= L THEN list[n] ELSE generated[n - L]
    BY <1>2, <2>1, ConcatProperties, LenProperties
  <2> HIDE DEF new
  <2>3. IsInserted(L, list, generated, new)
    BY <1>2, <1>6, <2>2 DEF IsInserted
  <2> QED BY <2>3 DEF new
<1>7. CASE leaky \in 1..L /\ \A i \in 1..(leaky - 1) : ~IsLeaky(list[i])
  <2> DEFINE k == leaky - 1
             front == SubSeq(list, 1, k)
             back == SubSeq(list, leaky, L)
             head == front \o generated
  <2>1. leaky # 0 /\ k \in 0..L /\ leaky = k + 1 /\ k \in Nat /\ k < L
    BY <1>2, <1>7
  <2>2. new = head \o back
    BY <2>1, Zenon DEF WithGenerated, leaky
  <2>3. /\ front \in Seq(T) /\ Len(front) = k
        /\ \A n \in 1..k : front[n] = list[n]
        /\ back \in Seq(T) /\ Len(back) = L - k
        /\ \A n \in 1..(L - k) : back[n] = list[n + k]
    <3>1. \A i \in 1..L : list[i] \in T
      BY <1>2
    <3>2. k \in Nat /\ L \in Nat /\ leaky = k + 1 /\ k < L
      BY <1>2, <2>1
    <3> HIDE DEF k, L
    <3>3. front \in Seq(T) /\ Len(front) = k /\ \A n \in 1..k : front[n] = list[n]
      <4>1. \A i \in 1..k : list[i] \in T
        BY <3>1, <3>2
      <4>2. /\ front \in Seq(T)
            /\ Len(front) = IF 1 <= k THEN k - 1 + 1 ELSE 0
            /\ \A n \in 1..(k - 1 + 1) : front[n] = list[1 + n - 1]
        BY <3>2, <4>1, SubSeqProperties
      <4> HIDE DEF front
      <4> QED BY <3>2, <4>2
    <3>4. /\ back \in Seq(T) /\ Len(back) = L - k
          /\ \A n \in 1..(L - k) : back[n] = list[n + k]
      <4>1. \A i \in leaky..L : list[i] \in T
        BY <3>1, <3>2
      <4>2. /\ back \in Seq(T)
            /\ Len(back) = IF leaky <= L THEN L - leaky + 1 ELSE 0
            /\ \A n \in 1..(L - leaky + 1) : back[n] = list[leaky + n - 1]
        BY <3>2, <4>1, SubSeqProperties
      <4> HIDE DEF back
      <4> QED BY <3>2, <4>2
    <3> QED BY <3>3, <3>4, Zenon
  <2> HIDE DEF front, back
  <2>4. /\ head \in Seq(T) /\ Len(head) = k + G
        /\ \A n \in 1..(k + G) : head[n] = IF n <= k THEN list[n] ELSE generated[n - k]
    <3>1. /\ head \in Seq(T) /\ Len(head) = Len(front) + Len(generated)
          /\ \A n \in 1..(Len(front) + Len(generated)) :
               head[n] = IF n <= Len(front) THEN front[n] ELSE generated[n - Len(front)]
      <4>1. front \in Seq(T) /\ generated \in Seq(T)
        BY <1>2, <2>3
      <4> QED BY <4>1, ConcatProperties
    <3> HIDE DEF head, k
    <3>2. \A n \in 1..(k + G) : n <= k => n \in 1..k
      BY <1>2, <2>1
    <3> QED BY <2>3, <3>1, <3>2
  <2> HIDE DEF head
  <2>5. /\ DOMAIN new = 1..(L + G)
        /\ \A n \in 1..(L + G) : new[n] = IF n <= k + G THEN head[n] ELSE back[n - (k + G)]
    <3>1. /\ new \in Seq(T) /\ Len(new) = (k + G) + (L - k)
          /\ \A n \in 1..((k + G) + (L - k)) :
               new[n] = IF n <= k + G THEN head[n] ELSE back[n - (k + G)]
      BY <2>2, <2>3, <2>4, ConcatProperties
    <3>2. (k + G) + (L - k) = L + G
      BY <1>2, <2>1
    <3> HIDE DEF new
    <3> QED BY <3>1, <3>2, LenProperties
  <2> HIDE DEF new
  <2>6. \A n \in 1..k : new[n] = list[n] /\ ~IsLeaky(list[n])
    <3> TAKE n \in 1..k
    <3>1. n \in 1..(L + G) /\ n <= k + G /\ n \in 1..(k + G) /\ n <= k
      BY <1>2, <2>1
    <3> QED BY <1>7, <2>4, <2>5, <3>1
  <2>7. \A n \in 1..G : new[k + n] = generated[n]
    <3> TAKE n \in 1..G
    <3>1. /\ k + n \in 1..(L + G) /\ k + n <= k + G /\ k + n \in 1..(k + G) /\ ~(k + n <= k)
          /\ (k + n) - k = n
      BY <1>2, <2>1
    <3> QED BY <2>4, <2>5, <3>1
  <2>8. \A n \in (k + 1)..L : new[n + G] = list[n]
    <3> TAKE n \in (k + 1)..L
    <3>1. /\ n + G \in 1..(L + G) /\ ~(n + G <= k + G) /\ (n + G) - (k + G) = n - k
          /\ n - k \in 1..(L - k) /\ (n - k) + k = n
      BY <1>2, <2>1
    <3> QED BY <2>3, <2>5, <3>1
  <2> HIDE DEF k
  <2>9. IsInserted(k, list, generated, new)
    BY <2>1, <2>5, <2>6, <2>7, <2>8, Zenon DEF IsInserted
  <2> QED BY <2>9 DEF new
<1> QED BY <1>5, <1>6, <1>7

\* Where the policy at a place comes from.
LEMMA PlaceOfInserted ==
  ASSUME NEW k, NEW list, NEW generated, NEW new, IsInserted(k, list, generated, new),
         ArePolicies(list), ArePolicies(generated)
  PROVE  \A n \in DOMAIN new :
           \/ n \in DOMAIN list /\ n <= k /\ new[n] = list[n] /\ ~IsLeaky(list[n])
           \/ n - k \in DOMAIN generated /\ new[n] = generated[n - k]
           \/ /\ n - Len(generated) \in DOMAIN list /\ k < n - Len(generated)
              /\ new[n] = list[n - Len(generated)]
<1> TAKE n \in DOMAIN new
<1>1. /\ Len(list) \in Nat /\ DOMAIN list = 1..Len(list)
      /\ Len(generated) \in Nat /\ DOMAIN generated = 1..Len(generated)
      /\ k \in 0..Len(list) /\ n \in 1..(Len(list) + Len(generated))
  BY LenProperties DEF ArePolicies, IsInserted
<1>2. CASE n <= k
  BY <1>1, <1>2 DEF IsInserted
<1>3. CASE k < n /\ n <= k + Len(generated)
  <2>1. n - k \in 1..Len(generated) /\ k + (n - k) = n
    BY <1>1, <1>3
  <2> QED BY <1>1, <2>1 DEF IsInserted
<1>4. CASE k + Len(generated) < n
  <2>1. /\ n - Len(generated) \in (k + 1)..Len(list) /\ n - Len(generated) \in 1..Len(list)
        /\ (n - Len(generated)) + Len(generated) = n /\ k < n - Len(generated)
    BY <1>1, <1>4
  <2>2. new[n] = list[n - Len(generated)]
    BY <2>1 DEF IsInserted
  <2> QED BY <1>1, <2>1, <2>2
<1> QED BY <1>1, <1>2, <1>3, <1>4

\* Where a policy of either list goes.
LEMMA PlaceInInserted ==
  ASSUME NEW k, NEW list, NEW generated, NEW new, IsInserted(k, list, generated, new),
         ArePolicies(list), ArePolicies(generated)
  PROVE  /\ \A n \in DOMAIN list : \E m \in DOMAIN new : new[m] = list[n]
         /\ \A n \in DOMAIN generated : \E m \in DOMAIN new : new[m] = generated[n]
<1>1. /\ Len(list) \in Nat /\ DOMAIN list = 1..Len(list)
      /\ Len(generated) \in Nat /\ DOMAIN generated = 1..Len(generated)
      /\ k \in 0..Len(list) /\ DOMAIN new = 1..(Len(list) + Len(generated))
  BY LenProperties DEF ArePolicies, IsInserted
<1>2. ASSUME NEW n \in DOMAIN list PROVE \E m \in DOMAIN new : new[m] = list[n]
  <2>1. CASE n <= k
    <3>1. n \in 1..k /\ n \in DOMAIN new
      BY <1>1, <2>1
    <3> QED BY <3>1 DEF IsInserted
  <2>2. CASE k < n
    <3>1. n \in (k + 1)..Len(list) /\ n + Len(generated) \in DOMAIN new
      BY <1>1, <2>2
    <3> QED BY <3>1 DEF IsInserted
  <2> QED BY <1>1, <2>1, <2>2
<1>3. ASSUME NEW n \in DOMAIN generated PROVE \E m \in DOMAIN new : new[m] = generated[n]
  <2>1. n \in 1..Len(generated) /\ k + n \in DOMAIN new
    BY <1>1
  <2> QED BY <2>1 DEF IsInserted
<1> QED BY <1>2, <1>3

(***************************************************************************)
(* What holds of the list of policies of a command line.                   *)
(***************************************************************************)
AreMade(list) ==
  /\ ArePolicies(list)
  /\ \A n \in DOMAIN list : IsBase(list[n]) \/ \E stem \in Stems : IsShareOf(stem, list[n])

BasesOnce(list) ==
  \A m, n \in DOMAIN list : IsBase(list[m]) /\ list[m] = list[n] => m = n

LeakyLast(list) ==
  \A m, n \in DOMAIN list : IsLeaky(list[m]) /\ m < n => list[n].kind # "fraction"

Grows(list, stem, end) ==
  /\ \A m, n \in DOMAIN list :
       list[m].name[1] = stem /\ list[n].name[1] = stem /\ m < n => list[m].pct < list[n].pct
  /\ \A n \in DOMAIN list : list[n].name[1] = stem =>
       /\ list[n].pct <= end
       /\ \E k \in DOMAIN list : list[k].name[1] = stem /\ list[k].pct = end

HasNone(list, stem) == \A n \in DOMAIN list : list[n].name[1] # stem

\* The policies made of the shares of a list.
LEMMA FractionsAreShares ==
  ASSUME NEW stem \in Stems, NEW end \in 0..FullBps, NEW shares, RisesTo(shares, end)
  PROVE  LET list == FractionPolicies(stem, shares) IN
         /\ ArePolicies(list)
         /\ DOMAIN list = DOMAIN shares
         /\ \A n \in DOMAIN list : IsShareOf(stem, list[n]) /\ list[n].pct = shares[n]
         /\ shares # <<>> => list # <<>>
<1> DEFINE list == FractionPolicies(stem, shares)
<1>1. /\ shares \in Seq(Nat) /\ DOMAIN shares = 1..Len(shares)
      /\ \A n \in DOMAIN shares : shares[n] \in 1..FullBps
  <2>1. shares \in Seq(Nat) /\ \A n \in DOMAIN shares : shares[n] \in 1..end
    BY DEF RisesTo
  <2>2. end \in Nat /\ FullBps \in Nat /\ end <= FullBps
    BY DEF FullBps
  <2>3. \A x \in 1..end : x \in 1..FullBps
    BY <2>2
  <2> QED BY <2>1, <2>3
<1>2. ArePolicies(list)
  BY <1>1, SharesArePolicies
<1>3. /\ DOMAIN list = DOMAIN shares
      /\ \A n \in DOMAIN shares : list[n] = LeakLagFraction(NameOfShare(stem, shares[n]), shares[n])
  BY Zenon DEF FractionPolicies, NameOfShare
<1> HIDE DEF list
<1>4. \A n \in DOMAIN list : IsShareOf(stem, list[n])
  BY <1>1, <1>3, Zenon DEF IsShareOf
<1>5. \A n \in DOMAIN list : list[n].pct = shares[n]
  <2> TAKE n \in DOMAIN list
  <2>1. shares[n] \in 1..FullBps /\ list[n] = LeakLagFraction(NameOfShare(stem, shares[n]), shares[n])
    BY <1>1, <1>3
  <2>2. \A x \in 1..FullBps : Capped(x) = x
    BY DEF Capped, FullBps
  <2>3. list[n].pct = Capped(shares[n])
    <3>1. \A name, pct : LeakLagFraction(name, pct).pct = Capped(pct)
      BY DEF LeakLagFraction
    <3> QED BY <2>1, <3>1, Zenon
  <2> QED BY <2>1, <2>2, <2>3
<1>6. shares # <<>> => list # <<>>
  <2>1. shares # <<>> => 1 \in DOMAIN shares
    BY <1>1
  <2> QED BY <1>3, <2>1
<1> QED BY <1>2, <1>3, <1>4, <1>5, <1>6 DEF list

LEMMA MadeIsKept ==
  ASSUME NEW k, NEW list, NEW generated, NEW new, IsInserted(k, list, generated, new),
         AreMade(list), ArePolicies(generated), ArePolicies(new),
         \E stem \in Stems : \A n \in DOMAIN generated : IsShareOf(stem, generated[n])
  PROVE  /\ AreMade(new)
         /\ BasesOnce(list) => BasesOnce(new)
         /\ LeakyLast(list) => LeakyLast(new)
<1>0. ArePolicies(list)
  BY DEF AreMade
<1>1. PICK stem \in Stems : \A n \in DOMAIN generated : IsShareOf(stem, generated[n])
  OBVIOUS
<1>2. \A n \in DOMAIN new :
        \/ n \in DOMAIN list /\ n <= k /\ new[n] = list[n] /\ ~IsLeaky(list[n])
        \/ n - k \in DOMAIN generated /\ new[n] = generated[n - k]
        \/ /\ n - Len(generated) \in DOMAIN list /\ k < n - Len(generated)
           /\ new[n] = list[n - Len(generated)]
  BY <1>0, PlaceOfInserted
<1>3. AreMade(new)
  BY <1>1, <1>2 DEF AreMade
<1>4. \A n \in DOMAIN generated : ~IsBase(generated[n]) /\ ~IsLeaky(generated[n])
  <2> TAKE n \in DOMAIN generated
  <2>1. IsShareOf(stem, generated[n])
    BY <1>1
  <2>2. generated[n].kind = "fraction" /\ ~IsLeaky(generated[n])
    BY <2>1, ShareIsNamed
  <2>3. ~IsBase(generated[n])
    BY <2>2, BaseIsNamed
  <2> QED BY <2>2, <2>3
<1>5. /\ Len(generated) \in Nat /\ Len(list) \in Nat /\ k \in Nat
      /\ \A n \in DOMAIN new : n \in Nat
      /\ \A n \in DOMAIN list : n \in Nat
  <2>1. Len(generated) \in Nat /\ Len(list) \in Nat /\ DOMAIN list = 1..Len(list)
    BY <1>0, LenProperties DEF ArePolicies
  <2>2. k \in 0..Len(list) /\ DOMAIN new = 1..(Len(list) + Len(generated))
    BY DEF IsInserted
  <2> QED BY <2>1, <2>2
<1>6. ASSUME BasesOnce(list), NEW m \in DOMAIN new, NEW n \in DOMAIN new,
             IsBase(new[m]), new[m] = new[n]
      PROVE  m = n
  <2>1. \/ m \in DOMAIN list /\ m <= k /\ new[m] = list[m]
        \/ m - Len(generated) \in DOMAIN list /\ k < m - Len(generated)
           /\ new[m] = list[m - Len(generated)]
    BY <1>2, <1>4, <1>6
  <2>2. \/ n \in DOMAIN list /\ n <= k /\ new[n] = list[n]
        \/ n - Len(generated) \in DOMAIN list /\ k < n - Len(generated)
           /\ new[n] = list[n - Len(generated)]
    BY <1>2, <1>4, <1>6
  <2>3. m \in Nat /\ n \in Nat
    BY <1>5
  <2>4. \A i, j \in DOMAIN list : IsBase(list[i]) /\ list[i] = list[j] => i = j
    BY <1>6 DEF BasesOnce
  <2> QED BY <1>5, <1>6, <2>1, <2>2, <2>3, <2>4
<1>7. ASSUME LeakyLast(list), NEW m \in DOMAIN new, NEW n \in DOMAIN new,
             IsLeaky(new[m]), m < n
      PROVE  new[n].kind # "fraction"
  <2>1. m - Len(generated) \in DOMAIN list /\ k < m - Len(generated)
        /\ new[m] = list[m - Len(generated)]
    BY <1>2, <1>4, <1>7
  <2>2. m \in Nat /\ n \in Nat
    BY <1>5
  <2>3. ~(n <= k) /\ m - Len(generated) < n - Len(generated)
    BY <1>5, <1>7, <2>1, <2>2
  <2>4. ~(n - k \in DOMAIN generated)
    <3>1. DOMAIN generated = 1..Len(generated)
      BY LenProperties DEF ArePolicies
    <3> QED BY <1>5, <1>7, <2>1, <2>2, <3>1
  <2>5. n - Len(generated) \in DOMAIN list /\ new[n] = list[n - Len(generated)]
    BY <1>2, <2>3, <2>4
  <2>6. IsLeaky(list[m - Len(generated)])
    BY <1>7, <2>1
  <2> QED BY <1>7, <2>1, <2>3, <2>5, <2>6 DEF LeakyLast
<1> QED BY <1>3, <1>6, <1>7 DEF BasesOnce, LeakyLast

\* A list without policies of a stem gets the generated ones.
LEMMA GrowthIsNew ==
  ASSUME NEW k, NEW list, NEW generated, NEW new, IsInserted(k, list, generated, new),
         ArePolicies(list), ArePolicies(generated),
         NEW stem, HasNone(list, stem),
         NEW end, Grows(generated, stem, end)
  PROVE  Grows(new, stem, end)
<1>1. \A n \in DOMAIN new : new[n].name[1] = stem =>
        n - k \in DOMAIN generated /\ new[n] = generated[n - k]
  BY PlaceOfInserted DEF HasNone
<1>2. \A n \in DOMAIN generated : \E m \in DOMAIN new : new[m] = generated[n]
  BY PlaceInInserted
<1>3. k \in Int /\ \A n \in DOMAIN new : n \in Int
  <2>1. Len(list) \in Nat /\ Len(generated) \in Nat
    BY LenProperties DEF ArePolicies
  <2>2. k \in 0..Len(list) /\ DOMAIN new = 1..(Len(list) + Len(generated))
    BY DEF IsInserted
  <2> QED BY <2>1, <2>2
<1>4. ASSUME NEW m \in DOMAIN new, NEW n \in DOMAIN new,
             new[m].name[1] = stem, new[n].name[1] = stem, m < n
      PROVE  new[m].pct < new[n].pct
  <2>1. /\ m - k \in DOMAIN generated /\ new[m] = generated[m - k]
        /\ n - k \in DOMAIN generated /\ new[n] = generated[n - k]
    BY <1>1, <1>4
  <2>2. m - k < n - k
    BY <1>3, <1>4
  <2> QED BY <1>4, <2>1, <2>2, Zenon DEF Grows
<1>5. ASSUME NEW n \in DOMAIN new, new[n].name[1] = stem
      PROVE  new[n].pct <= end /\ \E i \in DOMAIN new : new[i].name[1] = stem /\ new[i].pct = end
  <2>1. n - k \in DOMAIN generated /\ new[n] = generated[n - k]
    BY <1>1, <1>5
  <2>2. /\ new[n].pct <= end
        /\ \E i \in DOMAIN generated : generated[i].name[1] = stem /\ generated[i].pct = end
    BY <1>5, <2>1, Zenon DEF Grows
  <2>3. PICK i \in DOMAIN generated : generated[i].name[1] = stem /\ generated[i].pct = end
    BY <2>2
  <2> QED BY <1>2, <2>2, <2>3
<1> QED BY <1>4, <1>5 DEF Grows

\* The growth of one stem is not disturbed by the policies of another.
LEMMA GrowthIsKept ==
  ASSUME NEW k, NEW list, NEW generated, NEW new, IsInserted(k, list, generated, new),
         ArePolicies(list), ArePolicies(generated),
         NEW stem, HasNone(generated, stem),
         NEW end, Grows(list, stem, end)
  PROVE  Grows(new, stem, end)
<1>1. \A n \in DOMAIN new : new[n].name[1] = stem =>
        \/ n \in DOMAIN list /\ n <= k /\ new[n] = list[n]
        \/ /\ n - Len(generated) \in DOMAIN list /\ k < n - Len(generated)
           /\ new[n] = list[n - Len(generated)]
  BY PlaceOfInserted DEF HasNone
<1>2. \A n \in DOMAIN list : \E m \in DOMAIN new : new[m] = list[n]
  BY PlaceInInserted
<1>3. k \in Int /\ Len(generated) \in Nat /\ \A n \in DOMAIN new : n \in Int
  <2>1. Len(list) \in Nat /\ Len(generated) \in Nat
    BY LenProperties DEF ArePolicies
  <2>2. k \in 0..Len(list) /\ DOMAIN new = 1..(Len(list) + Len(generated))
    BY DEF IsInserted
  <2> QED BY <2>1, <2>2
<1>4. ASSUME NEW m \in DOMAIN new, NEW n \in DOMAIN new,
             new[m].name[1] = stem, new[n].name[1] = stem, m < n
      PROVE  new[m].pct < new[n].pct
  <2>1. PICK i \in DOMAIN list : new[m] = list[i] /\ ((i = m /\ m <= k) \/ (i = m - Len(generated) /\ k < i))
    BY <1>1, <1>4
  <2>2. PICK j \in DOMAIN list : new[n] = list[j] /\ ((j = n /\ n <= k) \/ (j = n - Len(generated) /\ k < j))
    BY <1>1, <1>4
  <2>3. i < j
    BY <1>3, <1>4, <2>1, <2>2
  <2> QED BY <1>4, <2>1, <2>2, <2>3, Zenon DEF Grows
<1>5. ASSUME NEW n \in DOMAIN new, new[n].name[1] = stem
      PROVE  new[n].pct <= end /\ \E i \in DOMAIN new : new[i].name[1] = stem /\ new[i].pct = end
  <2>1. PICK j \in DOMAIN list : new[n] = list[j]
    BY <1>1, <1>5
  <2>2. /\ new[n].pct <= end
        /\ \E i \in DOMAIN list : list[i].name[1] = stem /\ list[i].pct = end
    BY <1>5, <2>1, Zenon DEF Grows
  <2>3. PICK i \in DOMAIN list : list[i].name[1] = stem /\ list[i].pct = end
    BY <2>2
  <2> QED BY <1>2, <2>2, <2>3
<1> QED BY <1>4, <1>5 DEF Grows

\* Inserting the policies of a rising list of shares.
LEMMA SharesAreInserted ==
  ASSUME NEW list, AreMade(list), NEW stem \in Stems, HasNone(list, stem),
         NEW end \in 0..FullBps, NEW shares, RisesTo(shares, end)
  PROVE  LET new == WithGenerated(list, FractionPolicies(stem, shares)) IN
         /\ AreMade(new) /\ Grows(new, stem, end)
         /\ BasesOnce(list) => BasesOnce(new)
         /\ LeakyLast(list) => LeakyLast(new)
         /\ \A other \in Stems : HasNone(list, other) /\ other # stem => HasNone(new, other)
         /\ \A other \in Stems : \A e : Grows(list, other, e) /\ other # stem => Grows(new, other, e)
         /\ shares # <<>> \/ list # <<>> => new # <<>>
<1> DEFINE generated == FractionPolicies(stem, shares)
           new == WithGenerated(list, generated)
<1>1. /\ ArePolicies(generated) /\ DOMAIN generated = DOMAIN shares
      /\ \A n \in DOMAIN generated : IsShareOf(stem, generated[n]) /\ generated[n].pct = shares[n]
      /\ shares # <<>> => generated # <<>>
  BY FractionsAreShares
<1>2. ArePolicies(list)
  BY DEF AreMade
<1> HIDE DEF generated
<1>3. ArePolicies(new)
  BY <1>1, <1>2, GeneratedArePolicies
<1>4. PICK k : IsInserted(k, list, generated, new)
  BY <1>1, <1>2, GeneratedAreInserted
<1> HIDE DEF new
<1>5. /\ AreMade(new)
      /\ BasesOnce(list) => BasesOnce(new)
      /\ LeakyLast(list) => LeakyLast(new)
  BY <1>1, <1>3, <1>4, MadeIsKept
<1>6. \A n \in DOMAIN generated : generated[n].name[1] = stem
  BY <1>1, ShareIsNamed
<1>7. Grows(generated, stem, end)
  <2>1. /\ \A n \in DOMAIN shares : shares[n] \in 1..end
        /\ \A m, n \in DOMAIN shares : m < n => shares[m] < shares[n]
        /\ shares # <<>> => \E n \in DOMAIN shares : shares[n] = end
        /\ shares \in Seq(Nat)
    BY DEF RisesTo
  <2>2. \A n \in DOMAIN shares : shares # <<>> /\ shares[n] <= end
    <3>1. \A x \in 1..end : x <= end
      OBVIOUS
    <3>2. shares = <<>> => DOMAIN shares = {}
      OBVIOUS
    <3> QED BY <2>1, <3>1, <3>2
  <2>3. \A m, n \in DOMAIN generated : m < n => generated[m].pct < generated[n].pct
    BY <1>1, <2>1, Zenon
  <2>4. \A n \in DOMAIN generated :
          /\ generated[n].pct <= end
          /\ \E i \in DOMAIN generated : generated[i].name[1] = stem /\ generated[i].pct = end
    BY <1>1, <1>6, <2>1, <2>2, Zenon
  <2> QED BY <2>3, <2>4, Zenon DEF Grows
<1>8. Grows(new, stem, end)
  BY <1>1, <1>2, <1>4, <1>7, GrowthIsNew
<1>9. ASSUME NEW other \in Stems, HasNone(list, other), other # stem
      PROVE  HasNone(new, other)
  <2> SUFFICES ASSUME NEW n \in DOMAIN new PROVE new[n].name[1] # other
    BY DEF HasNone
  <2>1. \/ \E m \in DOMAIN list : new[n] = list[m]
        \/ \E m \in DOMAIN generated : new[n] = generated[m]
    BY <1>1, <1>2, <1>4, PlaceOfInserted
  <2> QED BY <1>6, <1>9, <2>1 DEF HasNone
<1>10. ASSUME NEW other \in Stems, other # stem, NEW e, Grows(list, other, e)
       PROVE  Grows(new, other, e)
  <2>1. HasNone(generated, other)
    BY <1>6, <1>10 DEF HasNone
  <2> QED BY <1>1, <1>2, <1>4, <1>10, <2>1, GrowthIsKept
<1>11. shares # <<>> \/ list # <<>> => new # <<>>
  <2>1. (shares # <<>> => Len(generated) > 0) /\ (list # <<>> => Len(list) > 0)
        /\ Len(generated) \in Nat /\ Len(list) \in Nat
    <3>1. generated \in Seq(ToSet(generated)) /\ list \in Seq(ToSet(list))
      BY <1>1, <1>2 DEF ArePolicies
    <3> QED BY <1>1, <3>1, EmptySeq
  <2>2. DOMAIN new = 1..(Len(list) + Len(generated))
    BY <1>4 DEF IsInserted
  <2>3. shares # <<>> \/ list # <<>> => 1 \in DOMAIN new
    BY <2>1, <2>2
  <2>4. DOMAIN <<>> = {}
    OBVIOUS
  <2> QED BY <2>3, <2>4
<1> QED BY <1>5, <1>8, <1>9, <1>10, <1>11 DEF new, generated

(***************************************************************************)
(* Reading the arguments, as far as the policies depend on them.           *)
(***************************************************************************)
PolicyOf(arg) == IF arg.flag = "leaky" THEN ObservedTimeLeaky ELSE Shifted(arg.value)

LEMMA ArgumentIsTaken ==
  ASSUME NEW p, IsParsed(p), NEW arg, IsArgument(arg)
  PROVE  LET q == AfterArgument(p, arg) IN
         /\ q.read = p.read + 1
         /\ \/ q.policies = p.policies
            \/ /\ arg.flag \in {"leaky", "shift"} /\ IsBase(PolicyOf(arg))
               /\ q.policies = Append(p.policies, PolicyOf(arg))
         /\ \/ arg.flag # "range" /\ q.range = p.range
            \/ arg.flag = "range" /\ p.range = Absent /\ q.range = arg.value
            \/ q.error # "none"
         /\ q.error = p.error \/ q.error \in {"Range", "Steps"}
<1> DEFINE t == Taken(p, arg)
           q == AfterArgument(p, arg)
           Done(x) == /\ x.read = p.read
                      /\ \/ x.policies = p.policies
                         \/ /\ arg.flag \in {"leaky", "shift"} /\ IsBase(PolicyOf(arg))
                            /\ x.policies = Append(p.policies, PolicyOf(arg))
                      /\ \/ arg.flag # "range" /\ x.range = p.range
                         \/ arg.flag = "range" /\ p.range = Absent /\ x.range = arg.value
                         \/ x.error # "none"
                      /\ x.error = p.error \/ x.error \in {"Range", "Steps"}
                      /\ DOMAIN x = ParsedFields
<1>1. DOMAIN p = ParsedFields
  BY DEF IsParsed
<1>2. Done(t)
  <2>1. CASE arg.flag = "scenario"
    <3>1. t = [p EXCEPT !.scenario = arg.value]
      BY <2>1 DEF Taken
    <3> HIDE DEF t
    <3> QED BY <1>1, <2>1, <3>1 DEF ParsedFields
  <2>2. CASE arg.flag = "leaky"
    <3>1. t = [p EXCEPT !.policies = Append(@, ObservedTimeLeaky)]
      BY <2>2 DEF Taken
    <3>2. PolicyOf(arg) = ObservedTimeLeaky /\ IsBase(PolicyOf(arg))
      BY <2>2 DEF PolicyOf, IsBase
    <3>3. t.policies = Append(p.policies, PolicyOf(arg))
      BY <1>1, <3>1, <3>2, Zenon DEF ParsedFields
    <3>4. t.read = p.read /\ t.range = p.range /\ t.error = p.error /\ DOMAIN t = ParsedFields
      BY <1>1, <3>1 DEF ParsedFields
    <3> HIDE DEF t
    <3> QED BY <2>2, <3>2, <3>3, <3>4
  <2>3. CASE arg.flag = "range"
    <3>1. \/ t = [p EXCEPT !.range = arg.value] /\ p.range = Absent
          \/ t = [p EXCEPT !.error = "Range"]
      BY <2>3 DEF Taken
    <3> HIDE DEF t
    <3> QED BY <1>1, <2>3, <3>1 DEF ParsedFields
  <2>4. CASE arg.flag = "buckets"
    <3>1. t = [p EXCEPT !.buckets = TRUE]
      BY <2>4 DEF Taken
    <3> HIDE DEF t
    <3> QED BY <1>1, <2>4, <3>1 DEF ParsedFields
  <2>5. CASE arg.flag = "steps"
    <3>1. \/ t = [p EXCEPT !.steps = arg.value]
          \/ t = [p EXCEPT !.error = "Steps"]
      BY <2>5 DEF Taken
    <3> HIDE DEF t
    <3> QED BY <1>1, <2>5, <3>1 DEF ParsedFields
  <2>6. CASE arg.flag = "shift"
    <3>1. t = [p EXCEPT !.policies = Append(@, Shifted(arg.value))]
      BY <2>6 DEF Taken, Shifted
    <3>2. PolicyOf(arg) = Shifted(arg.value) /\ IsBase(PolicyOf(arg))
      BY <2>6 DEF PolicyOf, IsBase, IsArgument
    <3>3. t.policies = Append(p.policies, PolicyOf(arg))
      BY <1>1, <3>1, <3>2, Zenon DEF ParsedFields
    <3>4. t.read = p.read /\ t.range = p.range /\ t.error = p.error /\ DOMAIN t = ParsedFields
      BY <1>1, <3>1 DEF ParsedFields
    <3> HIDE DEF t
    <3> QED BY <2>6, <3>2, <3>3, <3>4
  <2> QED BY <2>1, <2>2, <2>3, <2>4, <2>5, <2>6 DEF IsArgument, Flags
<1>3. q = [t EXCEPT !.read = @ + 1]
  BY DEF AfterArgument
<1> HIDE DEF t, q
<1>4. q.policies = t.policies /\ q.range = t.range /\ q.error = t.error /\ q.read = p.read + 1
  BY <1>2, <1>3 DEF ParsedFields
<1> QED BY <1>2, <1>4 DEF q

Distinct == \A m, n \in DOMAIN args : args[m] = args[n] => m = n

Reading ==
  /\ parsed.error \in {"none", "Range", "Steps"}
  /\ parsed.read <= Len(args)
  /\ parsed.error = "none" =>
       /\ \A n \in DOMAIN parsed.policies :
            /\ IsBase(parsed.policies[n])
            /\ \E a \in 1..parsed.read :
                 args[a].flag \in {"leaky", "shift"} /\ parsed.policies[n] = PolicyOf(args[a])
       /\ Distinct => BasesOnce(parsed.policies)
       /\ \A a \in 1..parsed.read : args[a].flag = "range" => args[a].value = parsed.range
       /\ \A a, b \in 1..parsed.read :
            args[a].flag = "range" /\ args[b].flag = "range" => a = b
       /\ parsed.range # Absent => \E a \in 1..parsed.read : args[a].flag = "range"

\* Two arguments that make the same policy are the same.
LEMMA PolicyTellsArgument ==
  ASSUME NEW a, IsArgument(a), a.flag \in {"leaky", "shift"},
         NEW b, IsArgument(b), b.flag \in {"leaky", "shift"}, PolicyOf(a) = PolicyOf(b)
  PROVE  a = b
<1>1. /\ a = [flag |-> a.flag, value |-> a.value] /\ b = [flag |-> b.flag, value |-> b.value]
      /\ a.flag = "leaky" => a.value = TRUE
      /\ b.flag = "leaky" => b.value = TRUE
  BY DEF IsArgument
<1>2. \A v : Shifted(v) # ObservedTimeLeaky /\ Shifted(v).shift = v
  BY DEF Shifted, ShiftFeatures, ObservedTimeLeaky
<1>3. CASE a.flag = "leaky" /\ b.flag = "leaky"
  <2>1. a.value = b.value /\ a.flag = b.flag
    BY <1>1, <1>3, Zenon
  <2> QED BY <1>1, <2>1, Zenon
<1>4. CASE a.flag = "shift" /\ b.flag = "shift"
  <2>1. PolicyOf(a) = Shifted(a.value) /\ PolicyOf(b) = Shifted(b.value)
    BY <1>4 DEF PolicyOf
  <2>2. a.value = b.value /\ a.flag = b.flag
    BY <1>2, <1>4, <2>1, Zenon
  <2> QED BY <1>1, <2>2, Zenon
<1>5. CASE a.flag = "leaky" /\ b.flag = "shift"
  BY <1>2, <1>5 DEF PolicyOf
<1>6. CASE a.flag = "shift" /\ b.flag = "leaky"
  BY <1>2, <1>6 DEF PolicyOf
<1> QED BY <1>3, <1>4, <1>5, <1>6

LEMMA BoundsAreNumbers ==
  \A pair \in (0..FullBps) \X (0..FullBps) : pair \in Nat \X Nat
<1>1. \A x \in 0..FullBps : x \in Nat
  BY DEF FullBps
<1>2. \A S : \A pair \in S \X S : (\A x \in S : x \in Nat) => pair \in Nat \X Nat
  OBVIOUS
<1> QED BY <1>1, <1>2, Zenon

LEMMA ReadingIsKept ==
  ASSUME SInv, Reading, ParseArgument
  PROVE  Reading'
<1> DEFINE next == parsed.read + 1
           arg == args[next]
           old == parsed.policies
           new == parsed'.policies
<1>1. /\ phase = "parse" /\ parsed.error = "none" /\ parsed.read < Len(args)
      /\ parsed' = AfterArgument(parsed, arg) /\ args' = args
  BY DEF ParseArgument
<1>2. /\ IsParsed(parsed) /\ \A n \in DOMAIN args : IsArgument(args[n])
      /\ parsed.read \in Nat /\ Len(args) \in Nat /\ DOMAIN args = 1..Len(args)
  BY <1>1, LenProperties DEF SInv, TypesOfSweep, IsParsed
<1>3. next \in DOMAIN args /\ IsArgument(arg) /\ next \in Nat
  BY <1>1, <1>2
<1>4. /\ parsed'.read = next
      /\ \/ new = old
         \/ /\ arg.flag \in {"leaky", "shift"} /\ IsBase(PolicyOf(arg))
            /\ new = Append(old, PolicyOf(arg))
      /\ \/ arg.flag # "range" /\ parsed'.range = parsed.range
         \/ arg.flag = "range" /\ parsed.range = Absent /\ parsed'.range = arg.value
         \/ parsed'.error # "none"
      /\ parsed'.error = parsed.error \/ parsed'.error \in {"Range", "Steps"}
  BY <1>1, <1>2, <1>3, ArgumentIsTaken
<1>5. /\ \A n \in DOMAIN old :
           /\ IsBase(old[n])
           /\ \E a \in 1..parsed.read :
                args[a].flag \in {"leaky", "shift"} /\ old[n] = PolicyOf(args[a])
      /\ Distinct => BasesOnce(old)
      /\ \A a \in 1..parsed.read : args[a].flag = "range" => args[a].value = parsed.range
      /\ \A a, b \in 1..parsed.read : args[a].flag = "range" /\ args[b].flag = "range" => a = b
      /\ parsed.range # Absent => \E a \in 1..parsed.read : args[a].flag = "range"
  BY <1>1 DEF Reading
<1>6. /\ \A a \in 1..next : a \in DOMAIN args /\ (a = next \/ a \in 1..parsed.read)
      /\ \A a \in 1..parsed.read : a \in 1..next /\ a # next
      /\ next \in 1..next
  BY <1>2, <1>3
<1>7. parsed'.error \in {"none", "Range", "Steps"} /\ parsed'.read <= Len(args')
  BY <1>1, <1>2, <1>4
<1>8. ArePolicies(old) /\ Len(old) \in Nat /\ DOMAIN old = 1..Len(old)
  BY <1>2, LenProperties DEF IsParsed, ArePolicies
<1> HIDE DEF arg, next, old, new
<1>9. \A n \in DOMAIN new :
        \/ n \in DOMAIN old /\ new[n] = old[n]
        \/ /\ arg.flag \in {"leaky", "shift"} /\ IsBase(PolicyOf(arg)) /\ new[n] = PolicyOf(arg)
           /\ n = Len(old) + 1
  <2>1. CASE new = old
    BY <2>1
  <2>2. CASE /\ arg.flag \in {"leaky", "shift"} /\ IsBase(PolicyOf(arg))
             /\ new = Append(old, PolicyOf(arg))
    <3> DEFINE policy == PolicyOf(arg)
    <3> HIDE DEF policy
    <3>1. /\ DOMAIN new = 1..(Len(old) + 1) /\ new[Len(old) + 1] = policy
          /\ \A n \in 1..Len(old) : new[n] = old[n]
      <4>1. old \in Seq(ToSet(old)) /\ new = Append(old, policy)
        BY <1>8, <2>2 DEF ArePolicies, policy
      <4> DEFINE T == ToSet(old) \cup {policy}
      <4>2. old \in Seq(T) /\ policy \in T
        BY <4>1, SeqMonotonic
      <4> HIDE DEF T
      <4> QED BY <4>1, <4>2, AppendProperties, LenProperties
    <3>2. \A n \in DOMAIN new : n \in 1..Len(old) \/ n = Len(old) + 1
      BY <1>8, <3>1
    <3> QED BY <1>8, <2>2, <3>1, <3>2 DEF policy
  <2> QED BY <1>4, <2>1, <2>2
<1>10. ASSUME NEW n \in DOMAIN new
       PROVE  /\ IsBase(new[n])
              /\ \E a \in 1..next : args[a].flag \in {"leaky", "shift"} /\ new[n] = PolicyOf(args[a])
  <2>1. CASE n \in DOMAIN old /\ new[n] = old[n]
    BY <1>5, <1>6, <2>1
  <2>2. CASE /\ arg.flag \in {"leaky", "shift"} /\ IsBase(PolicyOf(arg)) /\ new[n] = PolicyOf(arg)
    BY <1>6, <2>2 DEF arg
  <2> QED BY <1>9, <2>1, <2>2
<1>11. ASSUME Distinct PROVE BasesOnce(new)
  <2>1. \A n \in DOMAIN old : arg.flag \in {"leaky", "shift"} => old[n] # PolicyOf(arg)
    <3> TAKE n \in DOMAIN old
    <3> SUFFICES ASSUME arg.flag \in {"leaky", "shift"}, old[n] = PolicyOf(arg) PROVE FALSE
      OBVIOUS
    <3>1. PICK a \in 1..parsed.read : args[a].flag \in {"leaky", "shift"} /\ old[n] = PolicyOf(args[a])
      BY <1>5
    <3>2. a \in DOMAIN args /\ IsArgument(args[a]) /\ a # next
      BY <1>2, <1>6
    <3>3. args[a] = arg
      BY <1>3, <3>1, <3>2, PolicyTellsArgument
    <3> QED BY <1>3, <1>11, <3>2, <3>3 DEF Distinct, arg
  <2>2. \A m, n \in DOMAIN old : IsBase(old[m]) /\ old[m] = old[n] => m = n
    BY <1>5, <1>11 DEF BasesOnce
  <2> QED BY <1>9, <2>1, <2>2 DEF BasesOnce
<1>12. ASSUME parsed'.error = "none"
       PROVE  /\ \A a \in 1..next : args[a].flag = "range" => args[a].value = parsed'.range
              /\ \A a, b \in 1..next : args[a].flag = "range" /\ args[b].flag = "range" => a = b
              /\ parsed'.range # Absent => \E a \in 1..next : args[a].flag = "range"
  <2>1. CASE arg.flag # "range" /\ parsed'.range = parsed.range
    <3>1. \A a \in 1..next : args[a].flag = "range" => a \in 1..parsed.read
      BY <1>6, <2>1 DEF arg
    <3> QED BY <1>5, <1>6, <2>1, <3>1
  <2>2. CASE arg.flag = "range" /\ parsed.range = Absent /\ parsed'.range = arg.value
    <3>1. \A a \in 1..parsed.read : args[a].flag # "range"
      <4> SUFFICES ASSUME NEW a \in 1..parsed.read, args[a].flag = "range" PROVE FALSE
        OBVIOUS
      <4>1. args[a].value = Absent /\ IsArgument(args[a])
        BY <1>2, <1>5, <1>6, <2>2
      <4>2. args[a].value \in (0..FullBps) \X (0..FullBps)
        BY <4>1 DEF IsArgument
      <4>3. \A pair \in (0..FullBps) \X (0..FullBps) : pair \in Nat \X Nat
        BY BoundsAreNumbers
      <4> QED BY <4>1, <4>2, <4>3, SensitivityAssumption, Zenon
    <3>2. \A a \in 1..next : args[a].flag = "range" => a = next
      BY <1>6, <3>1
    <3> QED BY <1>6, <2>2, <3>2 DEF arg
  <2> QED BY <1>4, <1>12, <2>1, <2>2
<1>13. Distinct' <=> Distinct
  BY <1>1 DEF Distinct
<1> QED BY <1>1, <1>4, <1>7, <1>10, <1>11, <1>12, <1>13 DEF Reading, new

\* Where the shares of a command line end.
LEMMA EndIsRead ==
  ASSUME SInv, phase = "parse", Reading, parsed.error = "none", parsed.read = Len(args)
  PROVE  /\ EndOf("late_arrivals_cumulative") = FullBps
         /\ parsed.range # Absent => EndOf("lookahead") = parsed.range[2]
         /\ parsed.range = Absent => EndOf("lookahead") = FullBps
<1>1. /\ \A n \in DOMAIN args : IsArgument(args[n])
      /\ DOMAIN args = 1..parsed.read
      /\ \A a \in 1..parsed.read : args[a].flag = "range" => args[a].value = parsed.range
      /\ \A a, b \in 1..parsed.read : args[a].flag = "range" /\ args[b].flag = "range" => a = b
      /\ parsed.range # Absent => \E a \in 1..parsed.read : args[a].flag = "range"
  BY LenProperties DEF SInv, TypesOfSweep, Reading
<1>2. CASE parsed.range # Absent
  <2>1. PICK a \in DOMAIN args : args[a].flag = "range"
    BY <1>1, <1>2
  <2>2. (CHOOSE n \in DOMAIN args : args[n].flag = "range") \in DOMAIN args
        /\ args[CHOOSE n \in DOMAIN args : args[n].flag = "range"].flag = "range"
    BY <2>1, Zenon
  <2>3. args[CHOOSE n \in DOMAIN args : args[n].flag = "range"].value = parsed.range
    BY <1>1, <2>2
  <2>4. Has(args, "range")
    BY <2>1 DEF Has
  <2> QED BY <1>2, <2>3, <2>4 DEF EndOf
<1>3. CASE parsed.range = Absent
  <2>1. \A a \in DOMAIN args : args[a].flag # "range"
    <3> SUFFICES ASSUME NEW a \in DOMAIN args, args[a].flag = "range" PROVE FALSE
      OBVIOUS
    <3>1. args[a].value = Absent /\ args[a].value \in (0..FullBps) \X (0..FullBps)
      BY <1>1, <1>3 DEF IsArgument
    <3>2. \A pair \in (0..FullBps) \X (0..FullBps) : pair \in Nat \X Nat
      BY BoundsAreNumbers
    <3> QED BY <3>1, <3>2, SensitivityAssumption, Zenon
  <2> QED BY <1>3, <2>1 DEF Has, EndOf
<1>4. EndOf("late_arrivals_cumulative") = FullBps
  BY DEF EndOf
<1> QED BY <1>2, <1>3, <1>4

IsUsable(list) ==
  /\ AreMade(list) /\ LeakyLast(list)
  /\ Distinct => BasesOnce(list)
  /\ \A stem \in Stems : Grows(list, stem, EndOf(stem))

LEMMA NoneGrows ==
  ASSUME NEW list, NEW stem, HasNone(list, stem), NEW end
  PROVE  Grows(list, stem, end)
BY DEF HasNone, Grows

\* The policies of the arguments alone.
LEMMA ReadPoliciesAreUsable ==
  ASSUME SInv, phase = "parse", Reading, parsed.error = "none"
  PROVE  /\ AreMade(parsed.policies) /\ LeakyLast(parsed.policies)
         /\ Distinct => BasesOnce(parsed.policies)
         /\ \A stem \in Stems : HasNone(parsed.policies, stem)
<1> DEFINE list == parsed.policies
<1>1. ArePolicies(list) /\ \A n \in DOMAIN list : IsBase(list[n])
  BY DEF SInv, TypesOfSweep, IsParsed, Reading
<1>2. Distinct => BasesOnce(list)
  BY DEF Reading
<1> HIDE DEF list
<1>3. AreMade(list)
  BY <1>1 DEF AreMade
<1>4. \A n \in DOMAIN list : /\ list[n].kind # "fraction"
                             /\ \A stem \in Stems : list[n].name[1] # stem
  <2> TAKE n \in DOMAIN list
  <2>1. list[n].kind \in {"order", "shift"}
        /\ list[n].name[1] \in {"observed_time_leaky", "shift_features"}
    BY <1>1, BaseIsNamed
  <2> QED BY <2>1 DEF Stems
<1> QED BY <1>2, <1>3, <1>4 DEF list, LeakyLast, HasNone

\* Completing the arguments from what a scenario implies.
LEMMA LineIsCompleted ==
  ASSUME SInv, phase = "parse", Reading, parsed.error = "none", parsed.read = Len(args),
         NEW taken, taken = ParsedArgs(args, parsed), taken.error = "none"
  PROVE  /\ IsUsable(taken.policies) /\ HasNone(taken.policies, "late_arrivals_cumulative")
         /\ taken.policies # <<>> \/ taken.buckets
<1> DEFINE completed == Completed(parsed)
           ready == WithLookahead(args, completed)
<1>1. IsParsed(parsed)
  BY DEF SInv, TypesOfSweep
<1>2. /\ DOMAIN completed = ParsedFields
      /\ completed.steps = parsed.steps /\ completed.policies = parsed.policies
      /\ \/ completed.range = parsed.range
         \/ parsed.range = Absent /\ completed.range = <<0, FullBps>>
  BY <1>1 DEF Completed, IsParsed, ParsedFields
<1>3. taken = ready /\ (ready.policies = <<>> => ready.buckets)
  <2>1. DOMAIN parsed = ParsedFields /\ DOMAIN ready = ParsedFields
    <3>1. \/ ready = completed
          \/ \E with : ready = [completed EXCEPT !.error = with]
          \/ \E list : ready = [completed EXCEPT !.policies = list]
      BY Zenon DEF WithLookahead
    <3> HIDE DEF ready, completed
    <3> QED BY <1>1, <1>2, <3>1 DEF IsParsed
  <2> HIDE DEF ready, completed
  <2>2. [parsed EXCEPT !.error = "Conflict"].error # "none"
    BY <2>1 DEF ParsedFields
  <2>3. [ready EXCEPT !.error = "NoPolicy"].error # "none"
    BY <2>1 DEF ParsedFields
  <2>4. ~Conflicts(parsed)
    BY <2>2, Zenon DEF ParsedArgs
  <2>5. taken = IF ready.error = "none" /\ ready.policies = <<>> /\ ~ready.buckets
                THEN [ready EXCEPT !.error = "NoPolicy"] ELSE ready
    BY <2>4, Zenon DEF ParsedArgs, ready, completed
  <2>6. ~(ready.error = "none" /\ ready.policies = <<>> /\ ~ready.buckets)
    BY <2>3, <2>5, Zenon
  <2>7. taken = ready
    BY <2>5, <2>6, Zenon
  <2> QED BY <2>6, <2>7, Zenon
<1>4. /\ AreMade(parsed.policies) /\ LeakyLast(parsed.policies)
      /\ Distinct => BasesOnce(parsed.policies)
      /\ \A stem \in Stems : HasNone(parsed.policies, stem)
  BY ReadPoliciesAreUsable
<1>5. /\ EndOf("late_arrivals_cumulative") = FullBps
      /\ parsed.range # Absent => EndOf("lookahead") = parsed.range[2]
      /\ parsed.range = Absent => EndOf("lookahead") = FullBps
  BY EndIsRead
<1> HIDE DEF completed
<1>6. IsUsable(ready.policies) /\ HasNone(ready.policies, "late_arrivals_cumulative")
  <2>1. CASE completed.range = Absent
    <3>1. ready = completed \/ ready = [completed EXCEPT !.error = "StepsWithoutRange"]
      BY <2>1, Zenon DEF WithLookahead
    <3>2. ready.policies = parsed.policies
      <4> HIDE DEF ready
      <4> QED BY <1>2, <3>1 DEF ParsedFields
    <3> HIDE DEF ready
    <3>3. \A stem \in Stems : Grows(parsed.policies, stem, EndOf(stem))
      BY <1>4, NoneGrows
    <3> QED BY <1>4, <3>2, <3>3 DEF IsUsable, Stems
  <2>2. CASE completed.range # Absent
    <3> DEFINE shares == LookaheadShares(completed.range, completed.steps)
               list == WithGenerated(parsed.policies, FractionPolicies("lookahead", shares))
    <3>1. /\ completed.range \in (0..FullBps) \X (0..FullBps)
          /\ completed.range[1] <= completed.range[2]
          /\ completed.range[2] = EndOf("lookahead")
          /\ completed.range[2] \in 0..FullBps
      <4>1. CASE completed.range = parsed.range
        BY <1>1, <1>5, <2>2, <4>1 DEF IsParsed
      <4>2. CASE parsed.range = Absent /\ completed.range = <<0, FullBps>>
        BY <1>5, <4>2 DEF FullBps
      <4> QED BY <1>2, <4>1, <4>2
    <3>2. RisesTo(shares, EndOf("lookahead"))
      BY <1>1, <1>2, <3>1, LookaheadRises DEF IsParsed
    <3> HIDE DEF shares
    <3>3. /\ AreMade(list) /\ Grows(list, "lookahead", EndOf("lookahead"))
          /\ BasesOnce(parsed.policies) => BasesOnce(list)
          /\ LeakyLast(parsed.policies) => LeakyLast(list)
          /\ HasNone(list, "late_arrivals_cumulative")
      <4>1. /\ "lookahead" \in Stems /\ "late_arrivals_cumulative" \in Stems
            /\ HasNone(parsed.policies, "lookahead")
            /\ HasNone(parsed.policies, "late_arrivals_cumulative")
            /\ EndOf("lookahead") \in 0..FullBps
        BY <1>4, <3>1 DEF Stems
      <4> QED BY <1>4, <3>2, <4>1, SharesAreInserted
    <3>4. ready.policies = list
      <4>1. shares # <<>>
        <5>1. shares = <<>> => ready = [completed EXCEPT !.error = "EmptyRange"]
          BY <2>2, Zenon DEF WithLookahead, shares
        <5>2. [completed EXCEPT !.error = "EmptyRange"].error # "none"
          BY <1>2 DEF ParsedFields
        <5> QED BY <1>3, <5>1, <5>2, Zenon
      <4>2. ready = [completed EXCEPT !.policies =
                       WithGenerated(@, FractionPolicies("lookahead", shares))]
        BY <2>2, <4>1, Zenon DEF WithLookahead, shares
      <4> HIDE DEF ready
      <4> QED BY <1>2, <4>2, Zenon DEF ParsedFields
    <3> HIDE DEF ready, list
    <3>5. Grows(list, "late_arrivals_cumulative", EndOf("late_arrivals_cumulative"))
      BY <3>3, NoneGrows
    <3> QED BY <1>4, <3>3, <3>4, <3>5 DEF IsUsable, Stems
  <2> QED BY <2>1, <2>2
<1> HIDE DEF ready
<1> QED BY <1>3, <1>6

LEMMA LineMakesUsable ==
  ASSUME SInv, phase = "parse", Reading, parsed.error = "none", parsed.read = Len(args),
         NEW ready, ready = WithLateArrivals(ParsedArgs(args, parsed), events),
         ready.error = "none"
  PROVE  IsUsable(ready.policies) /\ ready.policies # <<>>
<1> DEFINE taken == ParsedArgs(args, parsed)
           shares == CumulativeShares(taken.steps)
           list == WithGenerated(taken.policies, FractionPolicies("late_arrivals_cumulative", shares))
<1>1. IsParsed(parsed)
  BY DEF SInv, TypesOfSweep
<1>2. IsParsed(taken)
  BY <1>1, ParsedIsParsed
<1> HIDE DEF taken
<1>3. ready = WithLateArrivals(taken, events)
  BY DEF taken
<1>4. taken.error = "none"
  <2>1. taken.error # "none" => ready = taken
    BY <1>3, Zenon DEF WithLateArrivals
  <2> QED BY <2>1
<1>5. /\ IsUsable(taken.policies) /\ HasNone(taken.policies, "late_arrivals_cumulative")
      /\ taken.policies # <<>> \/ taken.buckets
  BY <1>4, LineIsCompleted DEF taken
<1>6. CASE ~taken.buckets
  <2>1. ready = taken
    BY <1>3, <1>6, Zenon DEF WithLateArrivals
  <2> QED BY <1>5, <1>6, <2>1
<1>7. CASE taken.buckets
  <2>1. HasLateArrivals(events)
    <3>1. ~HasLateArrivals(events) => ready = [taken EXCEPT !.error = "NoLateArrivals"]
      BY <1>3, <1>4, <1>7, Zenon DEF WithLateArrivals
    <3>2. [taken EXCEPT !.error = "NoLateArrivals"].error # "none"
      BY <1>2 DEF IsParsed, ParsedFields
    <3> QED BY <3>1, <3>2, Zenon
  <2>2. ready = [taken EXCEPT !.policies =
                   WithGenerated(@, FractionPolicies("late_arrivals_cumulative", shares))]
    BY <1>3, <1>4, <1>7, <2>1, Zenon DEF WithLateArrivals
  <2>3. ready.policies = list
    BY <1>2, <2>2, Zenon DEF IsParsed, ParsedFields
  <2>4. RisesTo(shares, FullBps) /\ shares # <<>>
    BY <1>2, CumulativeRises DEF IsParsed
  <2> HIDE DEF shares
  <2>5. /\ AreMade(list) /\ Grows(list, "late_arrivals_cumulative", FullBps)
        /\ BasesOnce(taken.policies) => BasesOnce(list)
        /\ LeakyLast(taken.policies) => LeakyLast(list)
        /\ Grows(list, "lookahead", EndOf("lookahead"))
        /\ list # <<>>
    <3>1. /\ "lookahead" \in Stems /\ "late_arrivals_cumulative" \in Stems
          /\ AreMade(taken.policies) /\ FullBps \in 0..FullBps
          /\ Grows(taken.policies, "lookahead", EndOf("lookahead"))
      BY <1>5 DEF Stems, IsUsable, FullBps
    <3> QED BY <1>5, <2>4, <3>1, SharesAreInserted
  <2> HIDE DEF list
  <2>6. EndOf("late_arrivals_cumulative") = FullBps
    BY EndIsRead
  <2> QED BY <1>5, <2>3, <2>5, <2>6 DEF IsUsable, Stems
<1> QED BY <1>6, <1>7

\* What completing the arguments can refuse.
LEMMA CompletionErrors ==
  ASSUME SInv, phase = "parse", parsed.error = "none"
  PROVE  WithLateArrivals(ParsedArgs(args, parsed), events).error
           \notin {"NoComparisonPolicies", "DuplicatePolicyName"}
<1> DEFINE completed == Completed(parsed)
           ready == WithLookahead(args, completed)
           taken == ParsedArgs(args, parsed)
           late == WithLateArrivals(taken, events)
           Known == {"none", "Conflict", "EmptyRange", "StepsWithoutRange", "NoPolicy", "NoLateArrivals"}
<1>1. DOMAIN parsed = ParsedFields
  BY DEF SInv, TypesOfSweep, IsParsed
<1>2. DOMAIN completed = ParsedFields /\ completed.error \in Known
  BY <1>1 DEF Completed, ParsedFields
<1>3. DOMAIN ready = ParsedFields /\ ready.error \in Known
  <2>1. \/ ready = completed
        \/ ready = [completed EXCEPT !.error = "EmptyRange"]
        \/ ready = [completed EXCEPT !.error = "StepsWithoutRange"]
        \/ \E list : ready = [completed EXCEPT !.policies = list]
    BY Zenon DEF WithLookahead
  <2> HIDE DEF ready, completed
  <2> QED BY <1>2, <2>1 DEF ParsedFields
<1>4. DOMAIN taken = ParsedFields /\ taken.error \in Known
  <2>1. \/ taken = [parsed EXCEPT !.error = "Conflict"]
        \/ taken = [ready EXCEPT !.error = "NoPolicy"]
        \/ taken = ready
    BY Zenon DEF ParsedArgs
  <2> HIDE DEF taken, ready
  <2> QED BY <1>1, <1>3, <2>1 DEF ParsedFields
<1> HIDE DEF taken
<1>5. late.error \in Known
  <2>1. \/ late = taken
        \/ late = [taken EXCEPT !.error = "NoLateArrivals"]
        \/ \E list : late = [taken EXCEPT !.policies = list]
    BY Zenon DEF WithLateArrivals
  <2> HIDE DEF late
  <2> QED BY <1>4, <2>1 DEF ParsedFields
<1> QED BY <1>5 DEF taken

-----------------------------------------------------------------------------
(***************************************************************************)
(* Until the policies are made the arguments read so far account for them; *)
(* from then on they are usable.                                           *)
(***************************************************************************)
LineErrors == {"NoComparisonPolicies", "DuplicatePolicyName"}

LineInv ==
  args # Absent =>
    /\ phase = "parse" => policies = <<>> /\ Reading
    /\ policies # <<>> => IsUsable(policies)
    /\ phase = "validate" => policies # <<>>
    /\ Distinct => error \notin LineErrors

\* Usable policies have names of their own.
LEMMA UsableNamesDiffer ==
  ASSUME NEW list, IsUsable(list), Distinct
  PROVE  ~DuplicateName(list)
<1>1. ArePolicies(list) /\ BasesOnce(list) /\ \A stem \in Stems : Grows(list, stem, EndOf(stem))
  BY DEF IsUsable, AreMade
<1>2. \A n \in DOMAIN list : IsBase(list[n]) \/ \E stem \in Stems : IsShareOf(stem, list[n])
  BY DEF IsUsable, AreMade
<1>3. \A n \in DOMAIN list : list[n].name # <<"strict_received_time">>
  BY <1>2, BaseIsNamed, ShareIsNamed
<1>4. Len(list) \in Nat /\ DOMAIN list = 1..Len(list)
  BY <1>1, LenProperties DEF ArePolicies
<1>5. ASSUME NEW m \in DOMAIN list, NEW n \in DOMAIN list, list[m].name = list[n].name
      PROVE  m = n
  <2>1. CASE IsBase(list[m]) /\ IsBase(list[n])
    <3>1. list[m] = list[n]
      BY <1>5, <2>1, SameBase
    <3> QED BY <1>1, <2>1, <3>1 DEF BasesOnce
  <2>2. ASSUME NEW stem \in Stems, IsShareOf(stem, list[m]) PROVE m = n
    <3>1. list[m].name[1] = stem /\ list[n].name[1] = stem
      BY <1>5, <2>2, ShareIsNamed
    <3>2. ~IsBase(list[n])
      BY <3>1, BaseIsNamed DEF Stems
    <3>3. PICK other \in Stems : IsShareOf(other, list[n])
      BY <1>2, <3>2
    <3>4. other = stem
      BY <3>1, <3>3, ShareIsNamed
    <3>5. /\ list[m].pct \in 1..FullBps /\ list[n].pct \in 1..FullBps
          /\ list[m].name = NameOfShare(stem, list[m].pct)
          /\ list[n].name = NameOfShare(stem, list[n].pct)
      BY <2>2, <3>3, <3>4, ShareIsNamed
    <3>6. list[m].pct = list[n].pct /\ list[m].pct \in Nat
      <4>1. list[m].pct \in Nat /\ list[n].pct \in Nat
        BY <3>5
      <4> QED BY <1>5, <3>5, <4>1, SharesHaveNames
    <3>7. ~(m < n) /\ ~(n < m)
      BY <1>1, <3>1, <3>6 DEF Grows
    <3> QED BY <1>4, <3>7
  <2>3. ASSUME NEW stem \in Stems, IsShareOf(stem, list[n]), IsBase(list[m]) PROVE FALSE
    <3>1. list[n].name[1] = stem
      BY <2>3, ShareIsNamed
    <3> QED BY <1>5, <2>3, <3>1, BaseIsNamed DEF Stems
  <2> QED BY <1>2, <2>1, <2>2, <2>3
<1>6. Cardinality(NamesOf(list)) = Len(list)
  <2> DEFINE names == [n \in DOMAIN list |-> list[n].name]
  <2>1. NamesOf(list) = At(names, DOMAIN list)
    BY DEF NamesOf, At
  <2>2. \A m, n \in DOMAIN list : names[m] = names[n] => m = n
    BY <1>5
  <2>3. IsFiniteSet(DOMAIN list) /\ Cardinality(DOMAIN list) = Len(list)
    <3>1. \A k \in Nat : IsFiniteSet(1..k) /\ Cardinality(1..k) = k
      BY FS_Interval
    <3> QED BY <1>4, <3>1
  <2> HIDE DEF names
  <2> QED BY <2>1, <2>2, <2>3, AtSize
<1>7. <<"strict_received_time">> \notin NamesOf(list)
  BY <1>3, Zenon DEF NamesOf
<1> QED BY <1>4, <1>6, <1>7 DEF DuplicateName

LEMMA LineStays ==
  ASSUME args' = args
  PROVE  /\ Distinct' <=> Distinct
         /\ parsed' = parsed => (Reading' <=> Reading)
         /\ policies' = policies => (IsUsable(policies)' <=> IsUsable(policies))
         /\ \A list : policies' = list => (IsUsable(policies)' <=> IsUsable(list))
<1>1. Distinct' <=> Distinct
  BY DEF Distinct
<1>2. parsed' = parsed => (Reading' <=> Reading)
  BY <1>1 DEF Reading
<1>3. \A stem : EndOf(stem)' = EndOf(stem)
  BY DEF EndOf
<1>4. \A list : policies' = list => (IsUsable(policies)' <=> IsUsable(list))
  <2> TAKE list
  <2> HAVE policies' = list
  <2>1. IsUsable(policies)' <=> /\ AreMade(policies') /\ LeakyLast(policies')
                                /\ Distinct' => BasesOnce(policies')
                                /\ \A stem \in Stems : Grows(policies', stem, EndOf(stem)')
    BY DEF IsUsable
  <2> QED BY <1>1, <1>3, <2>1, Zenon DEF IsUsable
<1> QED BY <1>1, <1>2, <1>4

\* An error of another kind leaves the policies as they are.
LEMMA FailingKeepsLine ==
  ASSUME LineInv, NEW with, Fail(with), Distinct /\ args # Absent => with \notin LineErrors
  PROVE  LineInv'
<1>1. phase' = "failed" /\ error' = with /\ args' = args /\ policies' = policies
  BY DEF Fail
<1>2. (Distinct' <=> Distinct) /\ (IsUsable(policies)' <=> IsUsable(policies))
  BY <1>1, LineStays
<1> QED BY <1>1, <1>2 DEF LineInv

LEMMA LineStarts == Init => LineInv
<1> SUFFICES ASSUME Init, args # Absent PROVE LineInv
  BY DEF LineInv
<1>1. policies = <<>> /\ phase = "parse" /\ error = "none" /\ parsed = Unparsed
  BY DEF Init
<1>2. args \in Seq(ToSet(args))
  BY SweepStarts, <1>1 DEF SInv, TypesOfSweep
<1>3. Reading
  <2>1. /\ parsed.error = "none" /\ parsed.read = 0 /\ parsed.policies = <<>>
        /\ parsed.range = Absent
    BY <1>1 DEF Unparsed
  <2>2. Len(args) \in Nat /\ 1..0 = {} /\ DOMAIN <<>> = {}
    BY <1>2, LenProperties
  <2>3. BasesOnce(<<>>)
    BY <2>2 DEF BasesOnce
  <2> QED BY <2>1, <2>2, <2>3 DEF Reading
<1> QED BY <1>1, <1>3 DEF LineInv, LineErrors

LEMMA LineIsKept == SInv /\ LineInv /\ [Next]_vars => LineInv'
<1> SUFFICES ASSUME SInv, LineInv, [Next]_vars PROVE LineInv'
  OBVIOUS
<1>0. \A with : Fail(with) /\ with \notin LineErrors => LineInv'
  BY FailingKeepsLine
<1>1. CASE ParseArgument
  <2>1. args' = args /\ policies' = policies /\ phase' = phase /\ error' = error /\ phase = "parse"
    BY <1>1 DEF ParseArgument
  <2>2. (Distinct' <=> Distinct) /\ (IsUsable(policies)' <=> IsUsable(policies))
    BY <2>1, LineStays
  <2>3. args # Absent => Reading'
    BY <1>1, <2>1, ReadingIsKept DEF LineInv
  <2> QED BY <2>1, <2>2, <2>3 DEF LineInv
<1>2. CASE CompleteArguments
  <2> SUFFICES ASSUME args' # Absent PROVE LineInv'
    BY DEF LineInv
  <2> DEFINE ready == WithLateArrivals(ParsedArgs(args, parsed), events)
  <2>1. /\ phase = "parse" /\ args' = args
        /\ \/ parsed.error # "none" /\ Fail(parsed.error)
           \/ parsed.error = "none" /\ parsed.read = Len(args) /\ ready.error # "none" /\ Fail(ready.error)
           \/ /\ parsed.error = "none" /\ parsed.read = Len(args) /\ ready.error = "none"
              /\ policies' = ready.policies /\ phase' = "validate" /\ error' = error
    BY <1>2, Zenon DEF CompleteArguments, Fail
  <2>2. Reading
    BY <2>1 DEF LineInv
  <2>3. CASE parsed.error # "none" /\ Fail(parsed.error)
    <3>1. parsed.error \notin LineErrors
      BY <2>2 DEF Reading, LineErrors
    <3> QED BY <1>0, <2>3, <3>1
  <2>4. CASE parsed.error = "none" /\ parsed.read = Len(args) /\ ready.error # "none" /\ Fail(ready.error)
    <3>1. ready.error \notin LineErrors
      BY <2>1, <2>4, CompletionErrors DEF LineErrors
    <3> HIDE DEF ready
    <3> QED BY <1>0, <2>4, <3>1
  <2>5. CASE /\ parsed.error = "none" /\ parsed.read = Len(args) /\ ready.error = "none"
             /\ policies' = ready.policies /\ phase' = "validate" /\ error' = error
    <3>1. IsUsable(ready.policies) /\ ready.policies # <<>>
      BY <2>1, <2>2, <2>5, LineMakesUsable
    <3> HIDE DEF ready
    <3>2. (Distinct' <=> Distinct) /\ IsUsable(policies)'
      BY <2>1, <2>5, <3>1, LineStays
    <3> QED BY <2>1, <2>5, <3>1, <3>2 DEF LineInv
  <2> QED BY <2>1, <2>3, <2>4, <2>5
<1>3. CASE Validate
  <2>1. CASE policies = <<>> /\ Fail("NoComparisonPolicies")
    <3>1. args = Absent
      BY <1>3, <2>1 DEF LineInv, Validate
    <3> QED BY <2>1, <3>1, FailingKeepsLine
  <2>2. CASE policies # <<>> /\ DuplicateName(policies) /\ Fail("DuplicatePolicyName")
    <3>1. args # Absent => ~Distinct
      BY <2>2, UsableNamesDiffer DEF LineInv
    <3> QED BY <2>2, <3>1, FailingKeepsLine
  <2>3. CASE phase' = "baseline" /\ UNCHANGED <<events, args, parsed, policies, error, baseline, results>>
    BY <2>3, LineStays DEF LineInv
  <2> QED BY <1>3, <2>1, <2>2, <2>3 DEF Validate
<1>4. CASE RunBaseline
  <2>1. CASE Fail("Replay")
    BY <1>0, <2>1 DEF LineErrors
  <2>2. CASE phase' = "compare" /\ UNCHANGED <<events, args, parsed, policies, error, results>>
    BY <2>2, LineStays DEF LineInv
  <2> QED BY <1>4, <2>1, <2>2 DEF RunBaseline
<1>5. CASE RejectPolicy
  BY <1>0, <1>5 DEF RejectPolicy, LineErrors
<1>6. CASE ComparePolicy
  <2>1. CASE Fail("PredictionKeyMismatch")
    BY <1>0, <2>1 DEF LineErrors
  <2>2. CASE UNCHANGED <<args, parsed, policies, phase, error>>
    BY <2>2, LineStays DEF LineInv
  <2>3. Fail("PredictionKeyMismatch") \/ UNCHANGED <<args, parsed, policies, phase, error>>
    BY <1>6, Zenon DEF ComparePolicy
  <2> QED BY <2>1, <2>2, <2>3
<1>7. CASE Finish
  <2>1. phase' = "done" /\ UNCHANGED <<args, parsed, policies, error>>
    BY <1>7 DEF Finish
  <2> QED BY <2>1, LineStays DEF LineInv
<1>8. CASE UNCHANGED vars
  <2>1. UNCHANGED <<args, parsed, policies, phase, error>>
    BY <1>8 DEF vars
  <2> QED BY <2>1, LineStays DEF LineInv
<1> QED BY <1>1, <1>2, <1>3, <1>4, <1>5, <1>6, <1>7, <1>8 DEF Next, Returned

LEMMA UsableIsPromised == SInv /\ LineInv => CommandLineIsUsable
<1> SUFFICES ASSUME SInv, LineInv, args # Absent
             PROVE  /\ Distinct => error \notin LineErrors
                    /\ \A stem \in Stems : LET shares == SharesOf(stem) IN
                         /\ \A m, n \in DOMAIN shares : m < n => shares[m] < shares[n]
                         /\ shares # <<>> => shares[Len(shares)] = EndOf(stem)
                    /\ LeakyLast(policies)
  BY DEF CommandLineIsUsable, Distinct, LineErrors, Stems, LeakyLast
<1>1. Distinct => error \notin LineErrors
  BY DEF LineInv
<1>2. LeakyLast(policies) /\ \A stem \in Stems : Grows(policies, stem, EndOf(stem))
  <2>1. CASE policies # <<>>
    BY <2>1 DEF LineInv, IsUsable
  <2>2. CASE policies = <<>>
    BY <2>2 DEF LeakyLast, Grows
  <2> QED BY <2>1, <2>2
<1>3. Len(policies) \in Nat /\ DOMAIN policies = 1..Len(policies)
  BY LenProperties DEF SInv, TypesOfSweep, ArePolicies
<1>4. /\ \A n \in DOMAIN policies : IsPolicy(policies[n])
      /\ phase # "parse" \/ policies = <<>>
      /\ policies # <<>> => AreMade(policies)
  BY DEF SInv, TypesOfSweep, ArePolicies, LineInv, IsUsable
<1>5. ASSUME NEW stem \in Stems
      PROVE  /\ \A m, n \in DOMAIN SharesOf(stem) : m < n => SharesOf(stem)[m] < SharesOf(stem)[n]
             /\ SharesOf(stem) # <<>> => SharesOf(stem)[Len(SharesOf(stem))] = EndOf(stem)
  <2> DEFINE P == { n \in DOMAIN policies : policies[n].name[1] = stem }
             those == Listed(policies, P)
             shares == SharesOf(stem)
  <2>1. /\ \A p \in P : p \in DOMAIN policies /\ p \in 1..Len(policies) /\ policies[p].name[1] = stem
        /\ \A p \in DOMAIN policies : policies[p].name[1] = stem => p \in P
    BY <1>3
  <2>2. DOMAIN shares = DOMAIN those /\ \A n \in DOMAIN those : shares[n] = those[n].pct
    BY DEF SharesOf
  <2>3. shares = [n \in DOMAIN those |-> those[n].pct]
    BY DEF SharesOf
  <2> HIDE DEF P, shares
  <2>4. /\ Cardinality(P) \in Nat /\ DOMAIN those = 1..Cardinality(P)
    BY <1>3, <2>1, ListedElements
  <2>5. \A n \in DOMAIN those : \E p \in P : Rank(P, p) = n /\ those[n] = policies[p]
    BY <1>3, <2>1, ListedPlaces
  <2>6. \A p \in P : Rank(P, p) \in DOMAIN those /\ those[Rank(P, p)] = policies[p]
    BY <1>3, <2>1, ListedAtRank
  <2>7. \A p, q \in P : p < q => Rank(P, p) < Rank(P, q)
    BY <1>3, <2>1, RankOrder
  <2> HIDE DEF those
  <2>8. \A p \in P : policies[p].pct \in Nat
    <3> TAKE p \in P
    <3>1. policies # <<>> /\ p \in DOMAIN policies /\ policies[p].name[1] = stem
      BY <2>1
    <3>2. IsBase(policies[p]) \/ \E other \in Stems : IsShareOf(other, policies[p])
      BY <1>4, <3>1 DEF AreMade
    <3>3. \E other \in Stems : IsShareOf(other, policies[p])
      BY <3>1, <3>2, BaseIsNamed DEF Stems
    <3>4. policies[p].pct \in 1..FullBps
      BY <3>3, ShareIsNamed
    <3> QED BY <3>4
  <2>9. ASSUME NEW m \in DOMAIN shares, NEW n \in DOMAIN shares, m < n
        PROVE  shares[m] < shares[n]
    <3>1. PICK p \in P : Rank(P, p) = m /\ those[m] = policies[p]
      BY <2>2, <2>5
    <3>2. PICK q \in P : Rank(P, q) = n /\ those[n] = policies[q]
      BY <2>2, <2>5
    <3>3. p < q
      <4>1. ~(q < p) /\ p # q
        BY <2>2, <2>4, <2>7, <2>9, <3>1, <3>2
      <4> QED BY <2>1, <4>1
    <3>4. policies[p].pct < policies[q].pct
      BY <1>2, <2>1, <3>3, Zenon DEF Grows
    <3> QED BY <2>2, <3>1, <3>2, <3>4
  <2>10. ASSUME shares # <<>>
         PROVE  shares[Len(shares)] = EndOf(stem)
    <3> DEFINE last == Cardinality(P)
    <3>1. last \in DOMAIN shares /\ Len(shares) = last /\ \A n \in DOMAIN shares : n \in 1..last
      <4>1. DOMAIN shares = 1..last
        BY <2>2, <2>4
      <4>2. last # 0
        <5> SUFFICES ASSUME last = 0 PROVE FALSE
          OBVIOUS
        <5>1. DOMAIN those = {}
          BY <2>4
        <5> HIDE DEF last
        <5>2. shares = <<>>
          BY <2>3, <5>1
        <5> QED BY <2>10, <5>2
      <4>3. Len(shares) = last
        <5>1. shares = [n \in 1..last |-> those[n].pct]
          BY <2>3, <2>4
        <5> QED BY <2>4, <5>1
      <4> QED BY <2>4, <4>1, <4>2, <4>3
    <3>2. PICK p \in P : Rank(P, p) = last /\ those[last] = policies[p]
      BY <2>2, <2>5, <3>1
    <3>3. /\ policies[p].pct <= EndOf(stem)
          /\ \E k \in DOMAIN policies : policies[k].name[1] = stem /\ policies[k].pct = EndOf(stem)
      BY <1>2, <2>1, Zenon DEF Grows
    <3>4. PICK k \in DOMAIN policies : policies[k].name[1] = stem /\ policies[k].pct = EndOf(stem)
      BY <3>3
    <3>5. k \in P
      BY <2>1, <3>4
    <3>6. Rank(P, k) \in DOMAIN shares /\ shares[Rank(P, k)] = EndOf(stem)
      BY <2>2, <2>6, <3>4, <3>5
    <3>7. shares[last] = policies[p].pct /\ shares[last] \in Nat /\ EndOf(stem) \in Nat
      BY <2>2, <2>8, <3>1, <3>2, <3>4, <3>5
    <3>8. Rank(P, k) = last \/ shares[Rank(P, k)] < shares[last]
      <4>1. Rank(P, k) = last \/ Rank(P, k) < last
        BY <2>4, <3>1, <3>6
      <4> QED BY <2>9, <3>1, <3>6, <4>1
    <3> QED BY <3>1, <3>3, <3>6, <3>7, <3>8
  <2> QED BY <2>9, <2>10 DEF shares
<1> QED BY <1>1, <1>2, <1>5

\* An accepted command line makes a usable sweep: the shares of each generated
\* list rise strictly and end at their bound, generated policies precede the
\* leaky one, and distinct arguments never make a list the sweep refuses
\* (main.rs:424-473, 559-653).
THEOREM CommandLinesAreUsable == Spec => []CommandLineIsUsable
<1>1. Init => SInv /\ LineInv
  BY SweepStarts, LineStarts
<1>2. SInv /\ LineInv /\ [Next]_vars => LineInv'
  BY LineIsKept
<1>3. Spec => []SInv
  BY SweepInvariant
<1>4. SInv /\ LineInv => CommandLineIsUsable
  BY UsableIsPromised
<1> QED BY <1>1, <1>2, <1>3, <1>4, PTL DEF Spec

-----------------------------------------------------------------------------
(***************************************************************************)
(* Sorting by keys: a rearrangement in which the keys do not fall, and     *)
(* nothing at all where the keys rise already.                             *)
(***************************************************************************)
\* Where the n-th element of the sorted sequence comes from.
PlaceOf(keys, N, n) == CHOOSE i \in 1..N : Cardinality(KeysBefore(keys, i)) = n - 1

LEMMA SortedByIs ==
  ASSUME NEW N, NEW keys, NEW s, DOMAIN s = 1..N
  PROVE  SortedBy(keys, s) = [n \in 1..N |-> s[PlaceOf(keys, N, n)]]
BY DEF SortedBy, PlaceOf

LEMMA SizeUpTo == \A k \in Nat : IsFiniteSet(1..k) /\ Cardinality(1..k) = k
BY FS_Interval

LEMMA BeforeSizes ==
  ASSUME NEW N \in Nat, NEW keys, DOMAIN keys = 1..N, \A i \in 1..N : keys[i] \in Int
  PROVE  /\ \A i \in 1..N : /\ IsFiniteSet(KeysBefore(keys, i))
                            /\ Cardinality(KeysBefore(keys, i)) \in 0..(N - 1)
         /\ \A i, j \in 1..N : keys[i] < keys[j] \/ (keys[i] = keys[j] /\ i < j) =>
              Cardinality(KeysBefore(keys, i)) < Cardinality(KeysBefore(keys, j))
<1> DEFINE B(i) == KeysBefore(keys, i)
           Before(i, j) == keys[i] < keys[j] \/ (keys[i] = keys[j] /\ i < j)
<1>1. \A i : \A j : j \in B(i) <=> j \in 1..N /\ Before(j, i)
  BY Zenon DEF KeysBefore
<1>irr. \A i \in 1..N : ~Before(i, i)
  OBVIOUS
<1>trans. \A i, j, k \in 1..N : Before(i, j) /\ Before(j, k) => Before(i, k)
  OBVIOUS
<1> HIDE DEF B, Before
<1>2. IsFiniteSet(1..N) /\ Cardinality(1..N) = N
  BY FS_Interval
<1>3. ASSUME NEW i \in 1..N
      PROVE  IsFiniteSet(B(i)) /\ Cardinality(B(i)) \in 0..(N - 1)
  <2>1. B(i) \in SUBSET (1..N) /\ i \notin B(i)
    BY <1>irr, <1>1, Zenon
  <2>2. IsFiniteSet(B(i)) /\ Cardinality(B(i)) <= N /\ Cardinality(B(i)) \in Nat
    BY <2>1, <1>2, FS_Subset, FS_CardinalityType
  <2>3. Cardinality(B(i)) # N
    BY <2>1, <1>2, FS_Subset
  <2> QED BY <2>2, <2>3
<1>4. ASSUME NEW i \in 1..N, NEW j \in 1..N, Before(i, j)
      PROVE  Cardinality(B(i)) < Cardinality(B(j))
  <2>1. B(i) \in SUBSET B(j) /\ i \in B(j) /\ i \notin B(i)
    BY <1>irr, <1>trans, <1>1, <1>4, Zenon
  <2>2. Cardinality(B(i)) <= Cardinality(B(j)) /\ Cardinality(B(i)) # Cardinality(B(j))
    BY <2>1, <1>3, FS_Subset
  <2> QED BY <2>2, <1>3
<1> QED BY <1>3, <1>4 DEF B, Before

\* at[n] is where the n-th element of the sorted sequence comes from.
IsArrangement(at, N) ==
  /\ at \in [1..N -> 1..N]
  /\ \A m, n \in 1..N : at[m] = at[n] => m = n
  /\ \A i \in 1..N : \E n \in 1..N : at[n] = i

LEMMA SortedByKeys ==
  ASSUME NEW N \in Nat, NEW keys, DOMAIN keys = 1..N, \A i \in 1..N : keys[i] \in Int,
         NEW s, DOMAIN s = 1..N
  PROVE  \E at : /\ IsArrangement(at, N)
                 /\ SortedBy(keys, s) = [n \in 1..N |-> s[at[n]]]
                 /\ \A m, n \in 1..N : m <= n => keys[at[m]] <= keys[at[n]]
<1> DEFINE B(i) == KeysBefore(keys, i)
           Before(i, j) == keys[i] < keys[j] \/ (keys[i] = keys[j] /\ i < j)
           c == [i \in 1..N |-> Cardinality(B(i))]
           at == [n \in 1..N |-> PlaceOf(keys, N, n)]
<1>1. /\ \A i \in 1..N : Cardinality(B(i)) \in 0..(N - 1)
      /\ \A i, j \in 1..N : Before(i, j) => Cardinality(B(i)) < Cardinality(B(j))
  BY BeforeSizes
<1>2. \A i, j \in 1..N : i # j => Before(i, j) \/ Before(j, i)
  OBVIOUS
<1>3. SortedBy(keys, s) = [n \in 1..N |-> s[PlaceOf(keys, N, n)]]
  BY SortedByIs
<1> HIDE DEF B, Before
<1>4. \A i \in 1..N : Cardinality(B(i)) \in Nat
  BY <1>1
<1>apart. ASSUME NEW i \in 1..N, NEW j \in 1..N, Cardinality(B(i)) = Cardinality(B(j))
          PROVE  i = j
  <2>1. ~(Cardinality(B(i)) < Cardinality(B(j))) /\ ~(Cardinality(B(j)) < Cardinality(B(i)))
    BY <1>4, <1>apart
  <2> QED BY <1>1, <1>2, <2>1
<1>5. c \in Injection(1..N, 0..(N - 1))
  <2>1. c \in [1..N -> 0..(N - 1)]
    BY <1>1, Zenon
  <2> QED BY <1>apart, <2>1 DEF Injection, IsInjective
<1>6. \A n \in 1..N : \E i \in 1..N : Cardinality(B(i)) = n - 1
  <2>1. /\ IsFiniteSet(1..N) /\ Cardinality(1..N) = N
        /\ IsFiniteSet(0..(N - 1)) /\ Cardinality(0..(N - 1)) = N
    BY FS_Interval
  <2>2. c \in Surjection(1..N, 0..(N - 1))
    BY <2>1, <1>5, FS_Injection
  <2>3. \A k \in 0..(N - 1) : \E i \in 1..N : c[i] = k
    BY <2>2, Zenon DEF Surjection
  <2>4. \A n \in 1..N : n - 1 \in 0..(N - 1)
    OBVIOUS
  <2> QED BY <2>3, <2>4, Zenon
<1>7. \A n \in 1..N : at[n] \in 1..N /\ Cardinality(B(at[n])) = n - 1
  <2> TAKE n \in 1..N
  <2>1. PlaceOf(keys, N, n) \in 1..N /\ Cardinality(B(PlaceOf(keys, N, n))) = n - 1
    BY <1>6, Zenon DEF PlaceOf, B
  <2> QED BY <2>1
<1>8. SortedBy(keys, s) = [n \in 1..N |-> s[at[n]]]
  <2>1. \A n \in 1..N : at[n] = PlaceOf(keys, N, n)
    BY Zenon
  <2> HIDE DEF at
  <2> QED BY <1>3, <2>1
<1>9. at \in [1..N -> 1..N]
  BY <1>7
<1> HIDE DEF at, c
<1>10. \A m, n \in 1..N : at[m] = at[n] => m = n
  BY <1>7
<1>11. \A i \in 1..N : \E n \in 1..N : at[n] = i
  <2> TAKE i \in 1..N
  <2>1. Cardinality(B(i)) + 1 \in 1..N /\ (Cardinality(B(i)) + 1) - 1 = Cardinality(B(i))
    BY <1>1
  <2>2. PICK n \in 1..N : n = Cardinality(B(i)) + 1
    BY <2>1
  <2>3. at[n] \in 1..N /\ Cardinality(B(at[n])) = Cardinality(B(i))
    BY <1>7, <2>1, <2>2
  <2>4. at[n] = i
    BY <1>apart, <2>3
  <2> QED BY <2>4
<1>12. ASSUME NEW m \in 1..N, NEW n \in 1..N, m <= n
       PROVE  keys[at[m]] <= keys[at[n]]
  <2>1. at[m] \in 1..N /\ at[n] \in 1..N
    BY <1>7
  <2>2. PICK i \in 1..N : i = at[m]
    BY <2>1
  <2>3. PICK j \in 1..N : j = at[n]
    BY <2>1
  <2>4. ~(Cardinality(B(j)) < Cardinality(B(i)))
    BY <1>7, <1>12, <2>2, <2>3
  <2>5. ~Before(j, i)
    BY <1>1, <2>4
  <2>6. keys[i] <= keys[j]
    BY <2>5 DEF Before
  <2> QED BY <2>2, <2>3, <2>6
<1>13. IsArrangement(at, N)
  BY <1>9, <1>10, <1>11, Zenon DEF IsArrangement
<1> QED BY <1>8, <1>12, <1>13

LEMMA SortedAlready ==
  ASSUME NEW N \in Nat, NEW keys, DOMAIN keys = 1..N, \A i \in 1..N : keys[i] \in Int,
         \A i, j \in 1..N : i < j => keys[i] < keys[j],
         NEW s, DOMAIN s = 1..N
  PROVE  SortedBy(keys, s) = [n \in 1..N |-> s[n]]
<1> DEFINE B(i) == KeysBefore(keys, i)
<1>1. ASSUME NEW i \in 1..N PROVE Cardinality(B(i)) = i - 1
  <2>1. \A j : j \in B(i) <=> j \in 1..N /\ (keys[j] < keys[i] \/ (keys[j] = keys[i] /\ j < i))
    BY Zenon DEF KeysBefore
  <2>2. \A j \in 1..N : (keys[j] < keys[i] \/ (keys[j] = keys[i] /\ j < i)) <=> j < i
    <3> TAKE j \in 1..N
    <3>1. j < i \/ j = i \/ i < j
      OBVIOUS
    <3>2. keys[i] \in Int /\ keys[j] \in Int
      OBVIOUS
    <3>3. (j < i => keys[j] < keys[i]) /\ (i < j => keys[i] < keys[j])
      OBVIOUS
    <3> QED BY <3>1, <3>2, <3>3
  <2>3. \A j : j \in 1..N /\ j < i <=> j \in 1..(i - 1)
    OBVIOUS
  <2> HIDE DEF B
  <2>4. B(i) = 1..(i - 1)
    BY <2>1, <2>2, <2>3, Zenon
  <2>5. i - 1 \in Nat
    OBVIOUS
  <2> QED BY <2>4, <2>5, SizeUpTo
<1> HIDE DEF B
<1>2. \A n \in 1..N : PlaceOf(keys, N, n) = n
  <2> TAKE n \in 1..N
  <2>1. \A i \in 1..N : Cardinality(B(i)) = n - 1 <=> i = n
    BY <1>1
  <2> QED BY <2>1, Zenon DEF PlaceOf, B
<1>3. SortedBy(keys, s) = [n \in 1..N |-> s[PlaceOf(keys, N, n)]]
  BY SortedByIs
<1> QED BY <1>2, <1>3

-----------------------------------------------------------------------------
(***************************************************************************)
(* What the curve is drawn from: the file of a command, a result per       *)
(* policy once the sweep is done, each of them the whole comparison of its *)
(* policy, and shares of the lags only where there are lags.               *)
(***************************************************************************)
LateStem == "late_arrivals_cumulative"

ChangedDetails(details) == { d \in DOMAIN details : details[d].signal_changed }

IsWholeComparison(n) ==
  LET log == LogOf(Transformed(policies[n]), OrderOf(policies[n])) IN
  /\ results[n].log = log
  /\ results[n].details = DetailsOf(log)
  /\ results[n].summary.signal_change = Cardinality(ChangedDetails(DetailsOf(log)))

CurveInv ==
  /\ args # Absent =>
       /\ \E call \in Commands : events = call.events
       /\ HasNone(policies, LateStem) \/ HasLateArrivals(events)
  /\ phase = "done" => Len(results) = Len(policies)
  /\ \A n \in DOMAIN results : IsWholeComparison(n)

LEMMA ChangesAreCounted ==
  ASSUME NEW details
  PROVE  SummaryOf(details).signal_change = Cardinality(ChangedDetails(details))
BY DEF SummaryOf, ChangedDetails

LEMMA PartsOfResult ==
  ASSUME NEW policy, NEW log
  PROVE  /\ ResultOf(policy, log).log = log
         /\ ResultOf(policy, log).details = DetailsOf(log)
         /\ ResultOf(policy, log).summary = SummaryOf(DetailsOf(log))
BY DEF ResultOf

\* A comparison depends on the file, the policy and the baseline only.
LEMMA SameComparison ==
  ASSUME events' = events, policies' = policies, baseline' = baseline, NEW n
  PROVE  LET log == LogOf(Transformed(policies[n]), OrderOf(policies[n])) IN
         log' = log /\ DetailsOf(log)' = DetailsOf(log)
<1>1. Transformed(policies[n])' = Transformed(policies[n])
  BY DEF Transformed
<1> DEFINE log == LogOf(Transformed(policies[n]), OrderOf(policies[n]))
<1>2. log' = log
  BY <1>1
<1>3. DetailsOf(log)' = DetailsOf(log)
  BY <1>2 DEF DetailsOf
<1> QED BY <1>2, <1>3

LEMMA ComparisonsStay ==
  ASSUME events' = events, policies' = policies, baseline' = baseline
  PROVE  \A n : results'[n] = results[n] => (IsWholeComparison(n)' <=> IsWholeComparison(n))
<1> TAKE n
<1> DEFINE log == LogOf(Transformed(policies[n]), OrderOf(policies[n]))
<1>1. log' = log /\ DetailsOf(log)' = DetailsOf(log)
  BY SameComparison
<1> QED BY <1>1 DEF IsWholeComparison, ChangedDetails

LEMMA ComparisonMade ==
  ASSUME events' = events, policies' = policies, baseline' = baseline, NEW n,
         results'[n] = ResultOf(policies[n], LogOf(Transformed(policies[n]), OrderOf(policies[n])))
  PROVE  IsWholeComparison(n)'
<1> DEFINE log == LogOf(Transformed(policies[n]), OrderOf(policies[n]))
<1>1. log' = log /\ DetailsOf(log)' = DetailsOf(log)
  BY SameComparison
<1>r. PICK policy : results'[n] = ResultOf(policy, log)
  OBVIOUS
<1> HIDE DEF log
<1>2. /\ results'[n].log = log /\ results'[n].details = DetailsOf(log)
      /\ results'[n].summary = SummaryOf(DetailsOf(log))
  BY <1>r, PartsOfResult
<1>3. results'[n].summary.signal_change = Cardinality(ChangedDetails(DetailsOf(log)))
  BY <1>2, ChangesAreCounted
<1> QED BY <1>1, <1>2, <1>3 DEF IsWholeComparison, ChangedDetails, log

LEMMA CurveStays ==
  ASSUME CurveInv, UNCHANGED <<events, args, policies, baseline, results>>,
         phase' = "done" => phase = "done" \/ Len(results) = Len(policies)
  PROVE  CurveInv'
<1>1. \A n : IsWholeComparison(n)' <=> IsWholeComparison(n)
  BY ComparisonsStay
<1>2. HasNone(policies, LateStem)' <=> HasNone(policies, LateStem)
  BY DEF HasNone
<1> QED BY <1>1, <1>2 DEF CurveInv

LEMMA CurveStarts == Init => CurveInv
<1> SUFFICES ASSUME Init PROVE CurveInv
  OBVIOUS
<1>1. results = <<>> /\ phase # "done" /\ DOMAIN results = {}
  BY DEF Init
<1>2. args # Absent => policies = <<>> /\ \E call \in Commands : events = call.events
  BY DEF Init
<1>3. HasNone(<<>>, LateStem)
  BY DEF HasNone
<1> QED BY <1>1, <1>2, <1>3 DEF CurveInv

\* Shares of the lags are generated for a file with late rows only.
LEMMA LineHasLateRows ==
  ASSUME SInv, phase = "parse", Reading, parsed.error = "none", parsed.read = Len(args),
         NEW ready, ready = WithLateArrivals(ParsedArgs(args, parsed), events),
         ready.error = "none"
  PROVE  HasNone(ready.policies, LateStem) \/ HasLateArrivals(events)
<1> DEFINE taken == ParsedArgs(args, parsed)
<1>1. IsParsed(parsed)
  BY DEF SInv, TypesOfSweep
<1>2. IsParsed(taken)
  BY <1>1, ParsedIsParsed
<1> HIDE DEF taken
<1>3. ready = WithLateArrivals(taken, events)
  BY DEF taken
<1>4. taken.error = "none"
  <2>1. taken.error # "none" => ready = taken
    BY <1>3, Zenon DEF WithLateArrivals
  <2> QED BY <2>1
<1>5. HasNone(taken.policies, LateStem)
  BY <1>4, LineIsCompleted DEF taken, LateStem
<1>6. CASE ~taken.buckets
  <2>1. ready = taken
    BY <1>3, <1>6, Zenon DEF WithLateArrivals
  <2> QED BY <1>5, <2>1
<1>7. CASE taken.buckets
  <2>1. ~HasLateArrivals(events) => ready = [taken EXCEPT !.error = "NoLateArrivals"]
    BY <1>3, <1>4, <1>7, Zenon DEF WithLateArrivals
  <2>2. [taken EXCEPT !.error = "NoLateArrivals"].error # "none"
    BY <1>2 DEF IsParsed, ParsedFields
  <2> QED BY <2>1, <2>2, Zenon
<1> QED BY <1>6, <1>7

LEMMA CurveIsKept == SInv /\ LineInv /\ CurveInv /\ [Next]_vars => CurveInv'
<1> SUFFICES ASSUME SInv, LineInv, CurveInv, [Next]_vars PROVE CurveInv'
  OBVIOUS
<1>0. \A with : Fail(with) => CurveInv'
  <2> SUFFICES ASSUME NEW with, Fail(with) PROVE CurveInv'
    OBVIOUS
  <2>1. UNCHANGED <<events, args, policies, baseline, results>> /\ phase' = "failed"
    BY DEF Fail
  <2> QED BY <2>1, CurveStays
<1>1. CASE ParseArgument
  BY <1>1, CurveStays DEF ParseArgument
<1>2. CASE CompleteArguments
  <2> DEFINE ready == WithLateArrivals(ParsedArgs(args, parsed), events)
  <2>1. \/ \E with : Fail(with)
        \/ /\ parsed.error = "none" /\ parsed.read = Len(args) /\ ready.error = "none"
           /\ policies' = ready.policies /\ phase' = "validate" /\ phase = "parse"
           /\ events' = events /\ args' = args /\ results' = results
    BY <1>2, Zenon DEF CompleteArguments
  <2>2. CASE /\ parsed.error = "none" /\ parsed.read = Len(args) /\ ready.error = "none"
             /\ policies' = ready.policies /\ phase' = "validate" /\ phase = "parse"
             /\ events' = events /\ args' = args /\ results' = results
    <3>1. results = <<>> /\ DOMAIN results' = {}
      BY <2>2 DEF SInv, TypesOfSweep
    <3>2. args # Absent => HasNone(ready.policies, LateStem) \/ HasLateArrivals(events)
      BY <2>2, LineHasLateRows DEF LineInv
    <3> HIDE DEF ready
    <3>3. HasNone(policies, LateStem)' <=> HasNone(ready.policies, LateStem)
      BY <2>2 DEF HasNone
    <3> QED BY <2>2, <3>1, <3>2, <3>3 DEF CurveInv
  <2> QED BY <1>0, <2>1, <2>2
<1>3. CASE Validate
  <2>1. (\E with : Fail(with))
          \/ (phase' = "baseline" /\ UNCHANGED <<events, args, policies, baseline, results>>)
    BY <1>3, Zenon DEF Validate
  <2> QED BY <1>0, <2>1, CurveStays
<1>4. CASE RunBaseline
  <2>1. \/ \E with : Fail(with)
        \/ phase = "baseline" /\ phase' = "compare" /\ UNCHANGED <<events, args, policies, results>>
    BY <1>4, Zenon DEF RunBaseline
  <2>2. CASE phase = "baseline" /\ phase' = "compare" /\ UNCHANGED <<events, args, policies, results>>
    <3>1. results = <<>> /\ DOMAIN results' = {}
      BY <2>2 DEF SInv, TypesOfSweep
    <3>2. HasNone(policies, LateStem)' <=> HasNone(policies, LateStem)
      BY <2>2 DEF HasNone
    <3> QED BY <2>2, <3>1, <3>2 DEF CurveInv
  <2> QED BY <1>0, <2>1, <2>2
<1>5. CASE RejectPolicy
  BY <1>0, <1>5, Zenon DEF RejectPolicy
<1>6. CASE ComparePolicy
  <2> DEFINE log == LogOf(Transformed(Current), OrderOf(Current))
  <2>1. \/ \E with : Fail(with)
        \/ /\ results' = Append(results, ResultOf(Current, log)) /\ phase = "compare"
           /\ UNCHANGED <<events, args, policies, phase, baseline>>
    BY <1>6, Zenon DEF ComparePolicy, Comparing
  <2>2. CASE /\ results' = Append(results, ResultOf(Current, log)) /\ phase = "compare"
             /\ UNCHANGED <<events, args, policies, phase, baseline>>
    <3>1. Len(results) \in Nat /\ DOMAIN results = 1..Len(results) /\ results \in Seq(ToSet(results))
      BY LenProperties DEF SInv, TypesOfSweep
    <3>a. PICK N \in Nat : N = Len(results)
      BY <3>1
    <3> DEFINE r == ResultOf(Current, log)
    <3>2. Current = policies[N + 1]
      BY <3>a DEF Current
    <3> HIDE DEF r, log
    <3>3. /\ DOMAIN results' = 1..(N + 1) /\ results'[N + 1] = r
          /\ \A n \in 1..N : results'[n] = results[n]
      <4>1. results' = Append(results, r)
        BY <2>2 DEF r
      <4> QED BY <3>1, <3>a, <4>1, AppendProperties
    <3>4. \A n \in 1..N : IsWholeComparison(n)'
      BY <2>2, <3>1, <3>a, <3>3, ComparisonsStay DEF CurveInv
    <3>5. IsWholeComparison(N + 1)'
      <4>1. PICK k : k = N + 1
        OBVIOUS
      <4>2. results'[k] = r /\ r = ResultOf(policies[k], LogOf(Transformed(policies[k]), OrderOf(policies[k])))
        BY <3>2, <3>3, <4>1, Zenon DEF r, log
      <4> HIDE DEF r
      <4>3. IsWholeComparison(k)'
        BY <2>2, <4>2, ComparisonMade, Zenon
      <4>4. N + 1 = k
        BY <4>1
      <4> QED BY <4>3, <4>4, Zenon
    <3>6. HasNone(policies, LateStem)' <=> HasNone(policies, LateStem)
      BY <2>2 DEF HasNone
    <3>7. \A n \in DOMAIN results' : n \in 1..N \/ n = N + 1
      BY <3>1, <3>3
    <3> QED BY <2>2, <3>4, <3>5, <3>6, <3>7 DEF CurveInv
  <2> QED BY <1>0, <2>1, <2>2
<1>7. CASE Finish
  BY <1>7, CurveStays DEF Finish
<1>8. CASE UNCHANGED vars
  BY <1>8, CurveStays DEF vars
<1> QED BY <1>1, <1>2, <1>3, <1>4, <1>5, <1>6, <1>7, <1>8 DEF Next, Returned

-----------------------------------------------------------------------------
(***************************************************************************)
(* One comparison, prediction by prediction: the log and the list of       *)
(* changes hold one record per key, and the list misses no change.         *)
(***************************************************************************)
LEMMA OneRecordPerKey ==
  ASSUME NEW feed \in Seq(Event), Clean(feed), NEW by
  PROVE  \A m, n \in DOMAIN LogOf(feed, by) :
           LogOf(feed, by)[m].key = LogOf(feed, by)[n].key => m = n
<1> DEFINE S == PredictionsOf(RowsOf(feed))
           s == RowsInOrder(by, S)
           L == LogOf(feed, by)
           N == Cardinality(S)
<1>1. \A e \in S : e \in RowsOf(feed)
  BY Zenon DEF PredictionsOf
<1>2. Apart(S)
  <2>1. Apart(RowsOf(feed))
    BY CleanRows
  <2> QED BY <2>1, <1>1, ApartSubset
<1>3. L = [n \in DOMAIN s |-> RecordBy(by, RowsOf(feed), s[n])]
  BY LogIs, Zenon DEF PredictionsBy
<1> HIDE DEF S, L
<1>4. /\ N \in Nat /\ DOMAIN s = 1..N
      /\ \A n \in 1..N : s[n] \in S /\ Cardinality(EarlierRows(by, S, s[n])) = n - 1
  BY <1>2, PlacesAreTaken
<1> HIDE DEF s, N
<1>5. \A rows, p : RecordBy(by, rows, p).key = EventKey(p)
  BY DEF RecordBy, RecordFrom
<1>6. DOMAIN L = 1..N /\ \A n \in 1..N : L[n].key = EventKey(s[n])
  BY <1>3, <1>4, <1>5
<1>7. \A e, f \in S : EventKey(e) = EventKey(f) => e = f
  BY <1>1, CleanRows
<1>8. ASSUME NEW m \in 1..N, NEW n \in 1..N, L[m].key = L[n].key
      PROVE  m = n
  <2>1. s[m] = s[n]
    BY <1>4, <1>6, <1>7, <1>8, Zenon
  <2>2. m - 1 = n - 1
    BY <1>4, <2>1
  <2> QED BY <2>2, <1>4
<1> QED BY <1>6, <1>8 DEF L

RecordsOf(policy) == LogOf(Transformed(policy), OrderOf(policy))

LEMMA ComparedRecords ==
  ASSUME NEW policy, Comparable(policy)
  PROVE  LET log == RecordsOf(policy) IN
         /\ \A n \in DOMAIN log : \E i \in DOMAIN events :
              IsPrediction(events[i]) /\ log[n] = New(policy, i)
         /\ \A i \in DOMAIN events : IsPrediction(events[i]) =>
              \E n \in DOMAIN log : log[n] = New(policy, i)
         /\ \A m, n \in DOMAIN log : log[m].key = log[n].key => m = n
         /\ \E N \in Nat : DOMAIN log = 1..N
         /\ \A i \in DOMAIN events : IsPrediction(events[i]) =>
              RecordFor(log, EventKey(events[i])) = New(policy, i)
<1> DEFINE moved == Transformed(policy)
           by == OrderOf(policy)
           log == RecordsOf(policy)
<1>1. /\ moved \in Seq(Event) /\ DOMAIN moved = DOMAIN events /\ Clean(moved)
      /\ \A i \in DOMAIN events : moved[i].role = events[i].role
      /\ \A i \in DOMAIN events : moved[i] = events[i] \/ UpdatesSignalState(events[i])
  BY MovedRows DEF Comparable
<1>2. \A e : UpdatesSignalState(e) => ~IsPrediction(e)
  BY DEF UpdatesSignalState, IsPrediction, FeatureRoles
<1> HIDE DEF moved
<1>3. \A i \in DOMAIN events : /\ IsPrediction(moved[i]) <=> IsPrediction(events[i])
                               /\ IsPrediction(events[i]) => moved[i] = events[i]
  BY <1>1, <1>2, Zenon DEF IsPrediction
<1>4. log = LogOf(moved, by)
  BY DEF RecordsOf, moved
<1>5. \A i \in DOMAIN events : IsPrediction(events[i]) =>
        New(policy, i) = RecordBy(by, RowsOf(moved), moved[i])
  BY <1>3, Zenon DEF New, moved
<1> HIDE DEF log, by
<1>6. /\ \A n \in DOMAIN log : \E i \in DOMAIN moved :
           IsPrediction(moved[i]) /\ log[n] = RecordBy(by, RowsOf(moved), moved[i])
      /\ \A i \in DOMAIN moved : IsPrediction(moved[i]) =>
           \E n \in DOMAIN log : log[n] = RecordBy(by, RowsOf(moved), moved[i])
      /\ \E N \in Nat : DOMAIN log = 1..N
  BY <1>1, <1>4, LogRecords
<1>7. \A m, n \in DOMAIN log : log[m].key = log[n].key => m = n
  BY <1>1, <1>4, OneRecordPerKey
<1>8. \A i \in DOMAIN events : IsPrediction(events[i]) =>
        RecordFor(log, EventKey(events[i])) = New(policy, i)
  <2> SUFFICES ASSUME NEW i \in DOMAIN events, IsPrediction(events[i])
               PROVE  RecordFor(log, EventKey(events[i])) = New(policy, i)
    OBVIOUS
  <2>1. RecordFor(LogOf(moved, by), EventKey(moved[i])) = RecordBy(by, RowsOf(moved), moved[i])
    BY <1>1, <1>3, RecordOfKey
  <2> QED BY <1>3, <1>4, <1>5, <2>1, Zenon
<1>9. \A n \in DOMAIN log : \E i \in DOMAIN events :
        IsPrediction(events[i]) /\ log[n] = New(policy, i)
  <2> TAKE n \in DOMAIN log
  <2>1. PICK i \in DOMAIN moved : IsPrediction(moved[i]) /\ log[n] = RecordBy(by, RowsOf(moved), moved[i])
    BY <1>6
  <2> QED BY <1>1, <1>3, <1>5, <2>1, Zenon
<1>10. \A i \in DOMAIN events : IsPrediction(events[i]) =>
         \E n \in DOMAIN log : log[n] = New(policy, i)
  BY <1>1, <1>3, <1>5, <1>6, Zenon
<1> QED BY <1>6, <1>7, <1>8, <1>9, <1>10, Zenon DEF log

LEMMA BaselineRecords ==
  ASSUME NEW policy, Comparable(policy)
  PROVE  /\ \A n \in DOMAIN baseline : \E i \in DOMAIN events :
              IsPrediction(events[i]) /\ baseline[n] = Old(i)
         /\ \A i \in DOMAIN events : IsPrediction(events[i]) =>
              \E n \in DOMAIN baseline : baseline[n] = Old(i)
         /\ \A m, n \in DOMAIN baseline : baseline[m].key = baseline[n].key => m = n
         /\ \E N \in Nat : DOMAIN baseline = 1..N
         /\ \A i \in DOMAIN events : IsPrediction(events[i]) =>
              RecordFor(baseline, EventKey(events[i])) = Old(i)
<1>1. events \in Seq(Event) /\ Clean(events) /\ baseline = LogOf(events, "ReceivedTime")
  BY DEF Comparable
<1>2. /\ \A n \in DOMAIN baseline : \E i \in DOMAIN events :
           IsPrediction(events[i]) /\ baseline[n] = Old(i)
      /\ \A i \in DOMAIN events : IsPrediction(events[i]) =>
           \E n \in DOMAIN baseline : baseline[n] = Old(i)
      /\ \E N \in Nat : DOMAIN baseline = 1..N
  BY <1>1, LogRecords, Zenon DEF Old
<1>3. \A m, n \in DOMAIN baseline : baseline[m].key = baseline[n].key => m = n
  BY <1>1, OneRecordPerKey
<1>4. \A i \in DOMAIN events : IsPrediction(events[i]) =>
        RecordFor(baseline, EventKey(events[i])) = Old(i)
  BY <1>1, RecordOfKey DEF Old
<1> QED BY <1>2, <1>3, <1>4

LEMMA KeysOfRecords ==
  ASSUME NEW policy, NEW i
  PROVE  Old(i).key = EventKey(events[i]) /\ New(policy, i).key = EventKey(events[i])
BY DEF Old, New, RecordBy, RecordFrom

LEMMA PartsOfDetail ==
  ASSUME NEW old, NEW new
  PROVE  /\ DetailOf(old, new).key = old.key
         /\ DetailOf(old, new).new_inputs = InputsOf(new) \ InputsOf(old)
         /\ DetailOf(old, new).signal_changed <=> (old.signal_value # new.signal_value)
BY DEF DetailOf

LEMMA DetailsAreAll ==
  ASSUME NEW policy, Comparable(policy)
  PROVE  LET details == DetailsOf(RecordsOf(policy)) IN
         /\ \A d \in DOMAIN details : \E i \in DOMAIN events :
              IsPrediction(events[i]) /\ details[d] = DetailOf(Old(i), New(policy, i))
         /\ \A i \in DOMAIN events :
              IsPrediction(events[i]) /\ IsChange(DetailOf(Old(i), New(policy, i))) =>
                \E d \in DOMAIN details : details[d] = DetailOf(Old(i), New(policy, i))
         /\ \A c, d \in DOMAIN details : details[c].key = details[d].key => c = d
         /\ \E N \in Nat : DOMAIN details = 1..N
<1> DEFINE log == RecordsOf(policy)
           details == DetailsOf(log)
           all == [ n \in DOMAIN baseline |-> DetailOf(baseline[n], RecordFor(log, baseline[n].key)) ]
           P == { n \in DOMAIN all : IsChange(all[n]) }
<1>1. PICK N \in Nat : DOMAIN baseline = 1..N
  BY BaselineRecords
<1>2. details = Listed(all, P)
  BY Zenon DEF DetailsOf
<1>3. DOMAIN all = 1..N /\ \A n \in 1..N : all[n] = DetailOf(baseline[n], RecordFor(log, baseline[n].key))
  BY <1>1
<1> HIDE DEF log
<1>4. \A n \in 1..N : \E i \in DOMAIN events :
        /\ IsPrediction(events[i]) /\ baseline[n] = Old(i)
        /\ all[n] = DetailOf(Old(i), New(policy, i))
  <2> TAKE n \in 1..N
  <2>1. PICK i \in DOMAIN events : IsPrediction(events[i]) /\ baseline[n] = Old(i)
    BY <1>1, BaselineRecords
  <2>2. RecordFor(log, EventKey(events[i])) = New(policy, i)
    BY <2>1, ComparedRecords DEF log
  <2>3. baseline[n].key = EventKey(events[i])
    BY <2>1, KeysOfRecords
  <2>4. all[n] = DetailOf(Old(i), New(policy, i))
    BY <1>3, <2>1, <2>2, <2>3, Zenon
  <2> QED BY <2>1, <2>4
<1> HIDE DEF all, details
<1>5. \A p : p \in P <=> p \in 1..N /\ IsChange(all[p])
  BY <1>3, Zenon
<1> HIDE DEF P
<1>6. /\ Cardinality(P) \in Nat /\ DOMAIN details = 1..Cardinality(P)
      /\ \A d \in DOMAIN details : \E p \in P : Rank(P, p) = d /\ details[d] = all[p]
      /\ \A p \in P : Rank(P, p) \in DOMAIN details /\ details[Rank(P, p)] = all[p]
  <2>1. \A p \in P : p \in 1..N
    BY <1>5
  <2>2. Cardinality(P) \in Nat /\ DOMAIN details = 1..Cardinality(P)
    BY <1>2, <2>1, ListedElements
  <2>3. \A d \in DOMAIN details : \E p \in P : Rank(P, p) = d /\ details[d] = all[p]
    BY <1>2, <2>1, ListedPlaces
  <2>4. \A p \in P : Rank(P, p) \in DOMAIN details /\ details[Rank(P, p)] = all[p]
    BY <1>2, <2>1, ListedAtRank
  <2> QED BY <2>2, <2>3, <2>4
<1>7. \A d \in DOMAIN details : \E i \in DOMAIN events :
        IsPrediction(events[i]) /\ details[d] = DetailOf(Old(i), New(policy, i))
  BY <1>4, <1>5, <1>6, Zenon
<1>8. ASSUME NEW i \in DOMAIN events, IsPrediction(events[i]), IsChange(DetailOf(Old(i), New(policy, i)))
      PROVE  \E d \in DOMAIN details : details[d] = DetailOf(Old(i), New(policy, i))
  <2>1. PICK n \in 1..N : baseline[n] = Old(i)
    BY <1>1, <1>8, BaselineRecords
  <2>2. PICK j \in DOMAIN events : /\ IsPrediction(events[j]) /\ baseline[n] = Old(j)
                                   /\ all[n] = DetailOf(Old(j), New(policy, j))
    BY <1>4
  <2>3. EventKey(events[j]) = EventKey(events[i])
    BY <2>1, <2>2, KeysOfRecords
  <2>4. j = i
    BY <2>3, CleanRows DEF Comparable
  <2>5. all[n] = DetailOf(Old(i), New(policy, i)) /\ n \in P
    BY <1>5, <1>8, <2>2, <2>4, Zenon
  <2> QED BY <1>6, <2>5, Zenon
<1>9. ASSUME NEW c \in DOMAIN details, NEW d \in DOMAIN details, details[c].key = details[d].key
      PROVE  c = d
  <2>1. PICK p \in P : Rank(P, p) = c /\ details[c] = all[p]
    BY <1>6
  <2>2. PICK q \in P : Rank(P, q) = d /\ details[d] = all[q]
    BY <1>6
  <2>3. all[p].key = baseline[p].key /\ all[q].key = baseline[q].key
    <3>1. \A n \in P : all[n].key = baseline[n].key
      <4> TAKE n \in P
      <4>1. PICK i \in DOMAIN events : baseline[n] = Old(i) /\ all[n] = DetailOf(Old(i), New(policy, i))
        BY <1>4, <1>5
      <4> QED BY <4>1, PartsOfDetail
    <3> QED BY <3>1
  <2>4. baseline[p].key = baseline[q].key /\ p \in DOMAIN baseline /\ q \in DOMAIN baseline
    BY <1>1, <1>5, <1>9, <2>1, <2>2, <2>3, Zenon
  <2>5. p = q
    BY <2>4, BaselineRecords
  <2> QED BY <2>1, <2>2, <2>5
<1> QED BY <1>6, <1>7, <1>8, <1>9, Zenon DEF details, log

-----------------------------------------------------------------------------
(***************************************************************************)
(* What a comparison adds to the curve: the new uses the details list are  *)
(* those of the log, and the changes it counts are those of the log.       *)
(***************************************************************************)
FileKeys == { EventKey(events[i]) : i \in DOMAIN events }

LEMMA InputsAreKeys ==
  ASSUME NEW policy, Comparable(policy), NEW i
  PROVE  \A key \in InputsOf(New(policy, i)) : key \in FileKeys
<1> DEFINE moved == Transformed(policy)
           by == OrderOf(policy)
           p == events[i]
           c == CitedFrom(by, VisibleBy(by, RowsOf(moved), p))
<1>1. moved \in Seq(Event) /\ Clean(moved) /\ DOMAIN moved = DOMAIN events
      /\ \A j \in DOMAIN events : moved[j].id = events[j].id
  BY MovedRows DEF Comparable
<1>2. New(policy, i).inputs = [k \in DOMAIN c |-> EventKey(c[k])]
  BY DEF New, RecordBy, RecordFrom
<1> HIDE DEF moved, by, p
<1>3. \A k \in DOMAIN c : \E j \in DOMAIN moved : c[k] = moved[j]
  BY <1>1, CitedRows
<1> HIDE DEF c
<1>4. \A key \in InputsOf(New(policy, i)) : \E k \in DOMAIN c : key = EventKey(c[k])
  <2>1. \A key \in InputsOf(New(policy, i)) : \E k \in DOMAIN New(policy, i).inputs : key = New(policy, i).inputs[k]
    BY Zenon DEF InputsOf
  <2> QED BY <1>2, <2>1
<1>5. \A k \in DOMAIN c : EventKey(c[k]) \in FileKeys
  BY <1>1, <1>3 DEF FileKeys, EventKey
<1> QED BY <1>4, <1>5

LEMMA FileKeysAreFinite ==
  ASSUME events \in Seq(Event)
  PROVE  IsFiniteSet(FileKeys \X FileKeys)
<1> DEFINE keys == [i \in DOMAIN events |-> EventKey(events[i])]
<1>1. FileKeys = At(keys, DOMAIN events)
  BY DEF FileKeys, At
<1>2. DOMAIN events = 1..Len(events) /\ Len(events) \in Nat
  OBVIOUS
<1>3. IsFiniteSet(DOMAIN events)
  BY <1>2, SizeUpTo
<1> HIDE DEF keys
<1>4. IsFiniteSet(FileKeys)
  BY <1>1, <1>3, AtFinite
<1> QED BY <1>4, FS_Product

IsUse(policy, u) ==
  \E i \in DOMAIN events :
    /\ IsPrediction(events[i])
    /\ u \in {EventKey(events[i])} \X (InputsOf(New(policy, i)) \ InputsOf(Old(i)))

LEMMA UsesAreNew ==
  ASSUME NEW policy, Comparable(policy),
         NEW result, result.details = DetailsOf(RecordsOf(policy))
  PROVE  /\ AdmittedIn(result) = NewUses(RecordsOf(policy))
         /\ AdmittedIn(result) \subseteq FileKeys \X FileKeys
<1> DEFINE log == RecordsOf(policy)
           details == DetailsOf(log)
<1>1. ASSUME NEW u PROVE u \in AdmittedIn(result) <=> IsUse(policy, u)
  <2>1. u \in AdmittedIn(result) <=>
          \E d \in DOMAIN details : u \in {details[d].key} \X details[d].new_inputs
    BY Zenon DEF AdmittedIn, ToSet
  <2> HIDE DEF details
  <2>2. ASSUME NEW d \in DOMAIN details, u \in {details[d].key} \X details[d].new_inputs
        PROVE  IsUse(policy, u)
    <3>1. PICK i \in DOMAIN events :
            IsPrediction(events[i]) /\ details[d] = DetailOf(Old(i), New(policy, i))
      BY DetailsAreAll, Zenon DEF details
    <3>2. /\ details[d].key = EventKey(events[i])
          /\ details[d].new_inputs = InputsOf(New(policy, i)) \ InputsOf(Old(i))
      BY <3>1, PartsOfDetail, KeysOfRecords
    <3> QED BY <2>2, <3>1, <3>2, Zenon DEF IsUse
  <2>3. ASSUME NEW i \in DOMAIN events, IsPrediction(events[i]),
               u \in {EventKey(events[i])} \X (InputsOf(New(policy, i)) \ InputsOf(Old(i)))
        PROVE  \E d \in DOMAIN details : u \in {details[d].key} \X details[d].new_inputs
    <3> DEFINE detail == DetailOf(Old(i), New(policy, i))
    <3>1. /\ detail.key = EventKey(events[i])
          /\ detail.new_inputs = InputsOf(New(policy, i)) \ InputsOf(Old(i))
      BY PartsOfDetail, KeysOfRecords
    <3> HIDE DEF detail
    <3>2. detail.new_inputs # {}
      BY <2>3, <3>1
    <3>3. IsChange(detail)
      BY <3>2 DEF IsChange
    <3>4. PICK d \in DOMAIN details : details[d] = detail
      BY <2>3, <3>3, DetailsAreAll, Zenon DEF details, detail
    <3> QED BY <2>3, <3>1, <3>4, Zenon
  <2> QED BY <2>1, <2>2, <2>3, Zenon DEF IsUse
<1>2. ASSUME NEW u PROVE u \in NewUses(log) <=> IsUse(policy, u)
  <2> DEFINE Uses(n) == {log[n].key} \X (InputsOf(log[n]) \ InputsOf(RecordFor(baseline, log[n].key)))
  <2>1. u \in NewUses(log) <=> \E n \in DOMAIN log : u \in Uses(n)
    BY Zenon DEF NewUses
  <2> HIDE DEF log
  <2>2. \A n \in DOMAIN log : \A i \in DOMAIN events :
          IsPrediction(events[i]) /\ log[n] = New(policy, i) =>
            Uses(n) = {EventKey(events[i])} \X (InputsOf(New(policy, i)) \ InputsOf(Old(i)))
    <3> SUFFICES ASSUME NEW n \in DOMAIN log, NEW i \in DOMAIN events,
                        IsPrediction(events[i]), log[n] = New(policy, i)
                 PROVE  Uses(n) = {EventKey(events[i])} \X (InputsOf(New(policy, i)) \ InputsOf(Old(i)))
      BY Zenon
    <3>1. log[n].key = EventKey(events[i])
      BY KeysOfRecords
    <3>2. RecordFor(baseline, log[n].key) = Old(i)
      BY <3>1, BaselineRecords
    <3> QED BY <3>1, <3>2
  <2> HIDE DEF Uses
  <2>3. \A n \in DOMAIN log : \E i \in DOMAIN events : IsPrediction(events[i]) /\ log[n] = New(policy, i)
    BY ComparedRecords DEF log
  <2>4. \A i \in DOMAIN events : IsPrediction(events[i]) => \E n \in DOMAIN log : log[n] = New(policy, i)
    BY ComparedRecords DEF log
  <2> QED BY <2>1, <2>2, <2>3, <2>4, Zenon DEF IsUse
<1>3. ASSUME NEW u, IsUse(policy, u) PROVE u \in FileKeys \X FileKeys
  <2>1. PICK i \in DOMAIN events :
          u \in {EventKey(events[i])} \X (InputsOf(New(policy, i)) \ InputsOf(Old(i)))
    BY <1>3 DEF IsUse
  <2>2. EventKey(events[i]) \in FileKeys
    BY DEF FileKeys
  <2>3. \A key \in InputsOf(New(policy, i)) : key \in FileKeys
    BY InputsAreKeys
  <2> QED BY <2>1, <2>2, <2>3
<1>4. \A u : u \in AdmittedIn(result) <=> u \in NewUses(log)
  BY <1>1, <1>2, Zenon
<1>5. AdmittedIn(result) = NewUses(log)
  <2> HIDE DEF log
  <2> QED BY <1>4
<1>6. \A u \in AdmittedIn(result) : u \in FileKeys \X FileKeys
  BY <1>1, <1>3, Zenon
<1> QED BY <1>5, <1>6

Flips(policy) ==
  { EventKey(events[i]) : i \in { j \in DOMAIN events :
      IsPrediction(events[j]) /\ Old(j).signal_value # New(policy, j).signal_value } }

LEMMA FlipsAreCounted ==
  ASSUME NEW policy, Comparable(policy)
  PROVE  Cardinality(ChangedDetails(DetailsOf(RecordsOf(policy)))) = Cardinality(ChangedIn(RecordsOf(policy)))
<1> DEFINE log == RecordsOf(policy)
           details == DetailsOf(log)
           F == { j \in DOMAIN events :
                    IsPrediction(events[j]) /\ Old(j).signal_value # New(policy, j).signal_value }
           keysOfLog == [n \in DOMAIN log |-> log[n].key]
           keysOfDetails == [d \in DOMAIN details |-> details[d].key]
           C == ChangedIn(log)
           D == ChangedDetails(details)
<1>0. \A key : key \in Flips(policy) <=> \E i \in F : key = EventKey(events[i])
  BY Zenon DEF Flips
<1>f. \A i : i \in F <=> /\ i \in DOMAIN events /\ IsPrediction(events[i])
                         /\ Old(i).signal_value # New(policy, i).signal_value
  BY Zenon
<1>c. \A n : n \in C <=> n \in DOMAIN log /\ log[n].signal_value # RecordFor(baseline, log[n].key).signal_value
  BY Zenon DEF ChangedIn
<1>d. \A d : d \in D <=> d \in DOMAIN details /\ details[d].signal_changed
  BY Zenon DEF ChangedDetails
<1> HIDE DEF F, C, D, log, details
<1>1. /\ \A n \in DOMAIN log : \E i \in DOMAIN events :
           IsPrediction(events[i]) /\ log[n] = New(policy, i)
      /\ \A i \in DOMAIN events : IsPrediction(events[i]) => \E n \in DOMAIN log : log[n] = New(policy, i)
      /\ \A m, n \in DOMAIN log : log[m].key = log[n].key => m = n
      /\ \E N \in Nat : DOMAIN log = 1..N
  BY ComparedRecords DEF log
<1>2. /\ \A d \in DOMAIN details : \E i \in DOMAIN events :
           IsPrediction(events[i]) /\ details[d] = DetailOf(Old(i), New(policy, i))
      /\ \A i \in DOMAIN events :
           IsPrediction(events[i]) /\ IsChange(DetailOf(Old(i), New(policy, i))) =>
             \E d \in DOMAIN details : details[d] = DetailOf(Old(i), New(policy, i))
      /\ \A c, d \in DOMAIN details : details[c].key = details[d].key => c = d
      /\ \E N \in Nat : DOMAIN details = 1..N
  BY DetailsAreAll, Zenon DEF log, details
<1>3. \A i \in DOMAIN events : IsPrediction(events[i]) => RecordFor(baseline, EventKey(events[i])) = Old(i)
  BY BaselineRecords
<1>4. \A n \in DOMAIN log : \A i \in DOMAIN events :
        IsPrediction(events[i]) /\ log[n] = New(policy, i) =>
          log[n].key = EventKey(events[i]) /\ (n \in C <=> i \in F)
  <2> SUFFICES ASSUME NEW n \in DOMAIN log, NEW i \in DOMAIN events,
                      IsPrediction(events[i]), log[n] = New(policy, i)
               PROVE  log[n].key = EventKey(events[i]) /\ (n \in C <=> i \in F)
    BY Zenon
  <2>1. log[n].key = EventKey(events[i])
    BY KeysOfRecords
  <2>2. RecordFor(baseline, log[n].key) = Old(i)
    BY <1>3, <2>1
  <2> QED BY <1>c, <1>f, <2>1, <2>2
<1>5. \A d \in DOMAIN details : \A i \in DOMAIN events :
        IsPrediction(events[i]) /\ details[d] = DetailOf(Old(i), New(policy, i)) =>
          details[d].key = EventKey(events[i]) /\ (d \in D <=> i \in F)
  <2> SUFFICES ASSUME NEW d \in DOMAIN details, NEW i \in DOMAIN events,
                      IsPrediction(events[i]), details[d] = DetailOf(Old(i), New(policy, i))
               PROVE  details[d].key = EventKey(events[i]) /\ (d \in D <=> i \in F)
    BY Zenon
  <2>1. details[d].key = EventKey(events[i])
    BY KeysOfRecords, PartsOfDetail
  <2>2. details[d].signal_changed <=> Old(i).signal_value # New(policy, i).signal_value
    BY PartsOfDetail
  <2> QED BY <1>d, <1>f, <2>1, <2>2
<1>6. \A i \in F : IsChange(DetailOf(Old(i), New(policy, i)))
  BY <1>f, PartsOfDetail DEF IsChange
<1>7. At(keysOfLog, C) = Flips(policy)
  <2>1. \A key : key \in At(keysOfLog, C) <=> \E n \in C : key = log[n].key
    <3>1. \A n \in C : keysOfLog[n] = log[n].key
      BY <1>c
    <3> HIDE DEF keysOfLog
    <3> QED BY <3>1, Zenon DEF At
  <2> HIDE DEF keysOfLog
  <2>2. \A n \in C : \E i \in F : log[n].key = EventKey(events[i])
    BY <1>1, <1>4, <1>c, Zenon
  <2>3. \A i \in F : \E n \in C : log[n].key = EventKey(events[i])
    BY <1>1, <1>4, <1>f, Zenon
  <2>4. ASSUME NEW key \in At(keysOfLog, C) PROVE key \in Flips(policy)
    <3>1. PICK n \in C : key = log[n].key
      BY <2>1
    <3>2. PICK i \in F : log[n].key = EventKey(events[i])
      BY <2>2
    <3> QED BY <1>0, <3>1, <3>2, Zenon
  <2>5. ASSUME NEW key \in Flips(policy) PROVE key \in At(keysOfLog, C)
    <3>1. PICK i \in F : key = EventKey(events[i])
      BY <1>0, Zenon
    <3>2. PICK n \in C : log[n].key = EventKey(events[i])
      BY <2>3
    <3> QED BY <2>1, <3>1, <3>2, Zenon
  <2> QED BY <2>4, <2>5
<1>8. At(keysOfDetails, D) = Flips(policy)
  <2>1. \A key : key \in At(keysOfDetails, D) <=> \E d \in D : key = details[d].key
    <3>1. \A d \in D : keysOfDetails[d] = details[d].key
      BY <1>d
    <3> HIDE DEF keysOfDetails
    <3> QED BY <3>1, Zenon DEF At
  <2> HIDE DEF keysOfDetails
  <2>2. \A d \in D : \E i \in F : details[d].key = EventKey(events[i])
    BY <1>2, <1>5, <1>d, Zenon
  <2>3. \A i \in F : \E d \in D : details[d].key = EventKey(events[i])
    BY <1>2, <1>5, <1>6, <1>f, Zenon
  <2>4. ASSUME NEW key \in At(keysOfDetails, D) PROVE key \in Flips(policy)
    <3>1. PICK d \in D : key = details[d].key
      BY <2>1
    <3>2. PICK i \in F : details[d].key = EventKey(events[i])
      BY <2>2
    <3> QED BY <1>0, <3>1, <3>2, Zenon
  <2>5. ASSUME NEW key \in Flips(policy) PROVE key \in At(keysOfDetails, D)
    <3>1. PICK i \in F : key = EventKey(events[i])
      BY <1>0, Zenon
    <3>2. PICK d \in D : details[d].key = EventKey(events[i])
      BY <2>3
    <3> QED BY <2>1, <3>1, <3>2, Zenon
  <2> QED BY <2>4, <2>5
<1>9. IsFiniteSet(C) /\ IsFiniteSet(D)
  <2>1. \A N \in Nat : \A T : (\A x \in T : x \in 1..N) => IsFiniteSet(T)
    <3> SUFFICES ASSUME NEW N \in Nat, NEW T, \A x \in T : x \in 1..N PROVE IsFiniteSet(T)
      BY Zenon
    <3>1. IsFiniteSet(1..N) /\ T \in SUBSET (1..N)
      BY SizeUpTo
    <3> QED BY <3>1, FS_Subset
  <2> QED BY <1>1, <1>2, <1>c, <1>d, <2>1, Zenon
<1>10. /\ \A m, n \in C : keysOfLog[m] = keysOfLog[n] => m = n
       /\ \A c, d \in D : keysOfDetails[c] = keysOfDetails[d] => c = d
  BY <1>1, <1>2, <1>c, <1>d
<1> HIDE DEF keysOfLog, keysOfDetails
<1>11. Cardinality(C) = Cardinality(Flips(policy)) /\ Cardinality(D) = Cardinality(Flips(policy))
  BY <1>7, <1>8, <1>9, <1>10, AtSize
<1> QED BY <1>11 DEF C, D, log, details

-----------------------------------------------------------------------------
(***************************************************************************)
(* What a drawn curve is made of: the shares of one generated list, rising *)
(* to the whole lag, each with the whole comparison of its policy.         *)
(***************************************************************************)
CurvePlaces == { n \in DOMAIN results : IsCumulative(policies[n]) }

IsShare(policy) ==
  /\ Comparable(policy)
  /\ policy.kind = "fraction" /\ policy.roles = FeatureRoles
  /\ policy.pct \in 1..FullBps

IsReady ==
  /\ \E N \in Nat : DOMAIN results = 1..N
  /\ \A n \in CurvePlaces : n \in DOMAIN results /\ IsShare(policies[n]) /\ IsWholeComparison(n)
  /\ \A m, n \in CurvePlaces : m < n => policies[m].pct < policies[n].pct
  /\ \E n \in CurvePlaces : policies[n].pct = FullBps
  /\ events \in Seq(Event) /\ HasLateArrivals(events)
  /\ \E call \in Commands : events = call.events

LEMMA SomeIsCumulative ==
  ASSUME NEW N \in Nat, DOMAIN results = 1..N, CumulativeResults # <<>>
  PROVE  \E n \in DOMAIN results : IsCumulative(policies[n])
<1> SUFFICES ASSUME \A n \in DOMAIN results : ~IsCumulative(policies[n]) PROVE FALSE
  OBVIOUS
<1> DEFINE P == { n \in DOMAIN results : IsCumulative(policies[n]) }
           s == [ n \in DOMAIN results |-> n ]
<1>1. P = {}
  BY Zenon
<1>2. CumulativeResults = Listed(s, P)
  BY DEF CumulativeResults
<1> HIDE DEF s, P
<1>3. Cardinality(P) = 0
  BY <1>1, FS_EmptySet
<1>4. DOMAIN Listed(s, P) = {} /\ Listed(s, P) = [n \in 1..0 |-> s[CHOOSE p \in P : Rank(P, p) = n]]
  BY <1>3 DEF Listed
<1>5. Listed(s, P) = <<>>
  BY <1>4
<1> QED BY <1>2, <1>5

LEMMA DrawnIsReady ==
  ASSUME SInv, LineInv, CurveInv, IsDrawn
  PROVE  IsReady
<1>1. /\ results \in Seq(ToSet(results)) /\ ArePolicies(policies) /\ events \in Seq(Event)
      /\ Len(results) = Len(policies) /\ args # Absent
  BY DEF SInv, TypesOfSweep, CurveInv, IsDrawn
<1>2. DOMAIN results = 1..Len(results) /\ Len(results) \in Nat
  BY <1>1, LenProperties
<1>3. DOMAIN policies = 1..Len(policies) /\ Len(policies) \in Nat
  BY <1>1, LenProperties DEF ArePolicies
<1>4. DOMAIN policies = DOMAIN results
  BY <1>1, <1>2, <1>3
<1>5. \A n : n \in CurvePlaces <=> n \in DOMAIN results /\ IsCumulative(policies[n])
  BY Zenon DEF CurvePlaces
<1>6. PICK some \in DOMAIN results : IsCumulative(policies[some])
  BY <1>2, SomeIsCumulative DEF IsDrawn
<1>7. policies # <<>> /\ results # <<>>
  <2>1. DOMAIN policies # {} /\ DOMAIN results # {}
    BY <1>4, <1>6
  <2> QED BY <2>1
<1>8. IsUsable(policies)
  BY <1>1, <1>7 DEF LineInv
<1>9. LateStem \in Stems /\ EndOf(LateStem) = FullBps
  BY DEF Stems, LateStem, EndOf
<1>10. Grows(policies, LateStem, FullBps)
  <2>1. Grows(policies, LateStem, EndOf(LateStem))
    BY <1>8, <1>9, Zenon DEF IsUsable
  <2> QED BY <1>9, <2>1
<1>11. ASSUME NEW n \in DOMAIN results, policies[n].name[1] = LateStem
       PROVE  policies[n].kind = "fraction" /\ policies[n].pct \in 1..FullBps
  <2>1. IsBase(policies[n]) \/ \E stem \in Stems : IsShareOf(stem, policies[n])
    BY <1>4, <1>8 DEF IsUsable, AreMade
  <2>2. ~IsBase(policies[n])
    BY <1>11, BaseIsNamed DEF LateStem
  <2> QED BY <2>1, <2>2, ShareIsNamed
<1>12. \A n \in DOMAIN results : n \in CurvePlaces <=> policies[n].name[1] = LateStem
  BY <1>5, <1>11 DEF IsCumulative, LateStem
<1>13. ASSUME NEW n \in DOMAIN results PROVE Comparable(policies[n])
  <2>1. ~Refused(events) /\ baseline = LogOf(events, "ReceivedTime") /\ ResultIs(n)
    BY <1>7 DEF SInv, ResultsAreComparisons
  <2> QED BY <1>1, <1>4, <2>1, RefusedUnlessClean DEF Comparable, ArePolicies, ResultIs
<1>14. ASSUME NEW n \in CurvePlaces
       PROVE  n \in DOMAIN results /\ IsShare(policies[n]) /\ IsWholeComparison(n)
  <2>1. n \in DOMAIN results /\ policies[n].name[1] = LateStem
    BY <1>5, <1>12
  <2>2. policies[n].kind = "fraction" /\ policies[n].pct \in 1..FullBps
    BY <1>11, <2>1
  <2>3. Comparable(policies[n])
    BY <1>13, <2>1
  <2>4. policies[n].roles = FeatureRoles
    BY <2>2, <2>3 DEF Comparable, IsPolicy
  <2> QED BY <2>1, <2>2, <2>3, <2>4 DEF IsShare, CurveInv
<1>15. \A m, n \in CurvePlaces : m < n => policies[m].pct < policies[n].pct
  BY <1>4, <1>5, <1>10, <1>12, Zenon DEF Grows
<1>16. \E n \in CurvePlaces : policies[n].pct = FullBps
  <2>1. policies[some].name[1] = LateStem
    BY <1>6 DEF IsCumulative, LateStem
  <2> QED BY <1>4, <1>10, <1>12, <2>1, Zenon DEF Grows
<1>17. HasLateArrivals(events) /\ \E call \in Commands : events = call.events
  <2>1. ~HasNone(policies, LateStem)
    BY <1>4, <1>6 DEF HasNone, IsCumulative, LateStem
  <2> QED BY <1>1, <2>1 DEF CurveInv
<1> QED BY <1>1, <1>2, <1>14, <1>15, <1>16, <1>17 DEF IsReady

\* The places the points come from, in the order of the list.
IsRising(R, K) ==
  /\ K \in Nat \ {0} /\ DOMAIN R = 1..K
  /\ \A k \in 1..K : R[k] \in CurvePlaces
  /\ \A n \in CurvePlaces : \E k \in 1..K : R[k] = n
  /\ \A j, k \in 1..K : j < k => R[j] < R[k]

LEMMA PlacesRise ==
  ASSUME IsReady
  PROVE  \E K : IsRising(CumulativeResults, K)
<1> DEFINE s == [ n \in DOMAIN results |-> n ]
           R == Listed(s, CurvePlaces)
           K == Cardinality(CurvePlaces)
<1>1. PICK N \in Nat : DOMAIN results = 1..N
  BY DEF IsReady
<1>2. \A n \in CurvePlaces : n \in 1..N /\ s[n] = n
  BY <1>1 DEF CurvePlaces
<1>3. CumulativeResults = R
  BY DEF CumulativeResults, CurvePlaces
<1> HIDE DEF s
<1>4. K \in Nat /\ DOMAIN R = 1..K
  BY <1>2, ListedElements
<1>5. \A n \in DOMAIN R : \E p \in CurvePlaces : Rank(CurvePlaces, p) = n /\ R[n] = s[p]
  BY <1>2, ListedPlaces
<1>6. \A p \in CurvePlaces : Rank(CurvePlaces, p) \in DOMAIN R /\ R[Rank(CurvePlaces, p)] = s[p]
  BY <1>2, ListedAtRank
<1>7. /\ \A p, q \in CurvePlaces : p < q => Rank(CurvePlaces, p) < Rank(CurvePlaces, q)
      /\ \A p \in CurvePlaces : Rank(CurvePlaces, p) \in 1..K
  BY <1>2, RankOrder
<1> HIDE DEF R, K
<1>8. \A k \in 1..K : R[k] \in CurvePlaces /\ Rank(CurvePlaces, R[k]) = k
  <2> TAKE k \in 1..K
  <2>1. PICK p \in CurvePlaces : Rank(CurvePlaces, p) = k /\ R[k] = s[p]
    BY <1>4, <1>5
  <2>2. R[k] = p
    BY <1>2, <2>1
  <2> QED BY <2>1, <2>2
<1>9. \A n \in CurvePlaces : \E k \in 1..K : R[k] = n
  BY <1>2, <1>4, <1>6
<1>10. ASSUME NEW j \in 1..K, NEW k \in 1..K, j < k PROVE R[j] < R[k]
  <2>1. PICK p \in CurvePlaces : R[j] = p /\ Rank(CurvePlaces, p) = j
    BY <1>8
  <2>2. PICK q \in CurvePlaces : R[k] = q /\ Rank(CurvePlaces, q) = k
    BY <1>8
  <2>3. p \in 1..N /\ q \in 1..N
    BY <1>2
  <2>4. p < q \/ p = q \/ q < p
    BY <2>3
  <2>5. ~(q < p)
    <3> SUFFICES ASSUME q < p PROVE FALSE
      OBVIOUS
    <3>1. k < j
      BY <1>7, <2>1, <2>2
    <3> QED BY <1>4, <1>10, <3>1
  <2>6. p # q
    BY <1>4, <1>10, <2>1, <2>2
  <2> QED BY <2>1, <2>2, <2>4, <2>5, <2>6
<1>11. K # 0
  <2>1. \E n \in CurvePlaces : TRUE
    BY DEF IsReady
  <2>2. \E k \in 1..K : TRUE
    BY <1>9, <2>1
  <2> QED BY <1>4, <2>2
<1> QED BY <1>3, <1>4, <1>8, <1>9, <1>10, <1>11, Zenon DEF IsRising

-----------------------------------------------------------------------------
(***************************************************************************)
(* The points of the curve are in order as they are made, so the sort      *)
(* moves none of them.                                                     *)
(***************************************************************************)
ArePoints(points, R, K) ==
  /\ DOMAIN points = 1..(K + 1)
  /\ points = [k \in 1..(K + 1) |-> points[k]]
  /\ points[1] = BaselinePoint
  /\ \A k \in 1..K : points[k + 1] = PointOf(R[k])

LEMMA PointsInOrder ==
  ASSUME IsReady, NEW K, IsRising(CumulativeResults, K)
  PROVE  ArePoints(Points, CumulativeResults, K)
<1>r. PICK R : R = CumulativeResults
  OBVIOUS
<1> DEFINE tail == [ k \in DOMAIN R |-> PointOf(R[k]) ]
           all == <<BaselinePoint>> \o tail
           keys == [ k \in DOMAIN all |-> all[k].x ]
<1>1. /\ K \in Nat \ {0} /\ DOMAIN R = 1..K
      /\ \A k \in 1..K : R[k] \in CurvePlaces
      /\ \A j, k \in 1..K : j < k => R[j] < R[k]
  BY <1>r DEF IsRising
<1>2. Points = SortedBy(keys, all)
  BY <1>r DEF Points
<1>3. PICK first : first = BaselinePoint
  OBVIOUS
<1>4. DOMAIN all = 1..(K + 1) /\ all[1] = BaselinePoint /\ \A k \in 1..K : all[k + 1] = tail[k]
  <2> DEFINE S == {tail[k] : k \in 1..K} \cup {first}
  <2>1. tail = [k \in 1..K |-> tail[k]] /\ K \in Nat
    BY <1>1
  <2> HIDE DEF tail
  <2>2. tail \in [1..K -> S]
    BY <2>1
  <2>3. tail \in Seq(S)
    BY <2>1, <2>2, SeqDef
  <2>4. Len(tail) = K
    BY <2>1
  <2>5. <<first>> \in Seq(S) /\ Len(<<first>>) = 1 /\ <<first>>[1] = first
    OBVIOUS
  <2> HIDE DEF S
  <2>6. PICK one : one = <<first>>
    OBVIOUS
  <2>7. PICK whole : whole = one \o tail
    OBVIOUS
  <2>8. DOMAIN whole = 1..(K + 1) /\ whole[1] = first /\ \A k \in 1..K : whole[k + 1] = tail[k]
    <3>1. one \in Seq(S) /\ Len(one) = 1 /\ one[1] = first
      BY <2>5, <2>6
    <3>2. Len(whole) = 1 + K /\ whole \in Seq(S)
      BY <2>3, <2>4, <2>7, <3>1, ConcatProperties
    <3>3. \A i \in 1..(1 + K) : whole[i] = IF i <= 1 THEN one[i] ELSE tail[i - 1]
      <4>1. Len(one) + Len(tail) = 1 + K
        BY <2>4, <3>1
      <4>2. \A i \in 1..(Len(one) + Len(tail)) : whole[i] = IF i <= Len(one) THEN one[i] ELSE tail[i - Len(one)]
        BY <2>3, <2>7, <3>1, ConcatProperties
      <4> QED BY <3>1, <4>1, <4>2
    <3>4. DOMAIN whole = 1..(1 + K)
      BY <3>2, LenProperties
    <3>5. 1 + K = K + 1 /\ 1 \in 1..(1 + K) /\ \A k \in 1..K : k + 1 \in 1..(1 + K) /\ (k + 1) - 1 = k /\ ~(k + 1 <= 1)
      BY <1>1
    <3>6. \A k \in 1..K : whole[k + 1] = tail[k]
      BY <3>3, <3>5
    <3>7. whole[1] = first
      BY <3>1, <3>3, <3>5
    <3> QED BY <3>4, <3>5, <3>6, <3>7
  <2> QED BY <1>3, <2>6, <2>7, <2>8
<1>5. \A k \in 1..K : tail[k] = PointOf(R[k])
  BY <1>1
<1> HIDE DEF tail
<1>6. all[1].x = 0
  BY <1>4 DEF BaselinePoint
<1>x. \A n : PointOf(n).x = policies[n].pct
  BY DEF PointOf
<1>7. \A k \in 1..K : all[k + 1].x = policies[R[k]].pct
  BY <1>4, <1>5, <1>x, Zenon
<1>8. \A k \in 1..K : policies[R[k]].pct \in 1..FullBps
  BY <1>1 DEF IsReady, IsShare
<1>9. \A j, k \in 1..K : j < k => policies[R[j]].pct < policies[R[k]].pct
  BY <1>1 DEF IsReady
<1> HIDE DEF all
<1>10. DOMAIN keys = 1..(K + 1) /\ \A k \in 1..(K + 1) : keys[k] = all[k].x
  BY <1>4
<1> HIDE DEF keys
<1>11. \A k \in 1..(K + 1) : k = 1 \/ (k - 1 \in 1..K /\ (k - 1) + 1 = k)
  BY <1>1
<1>12. ASSUME NEW k \in 1..(K + 1) PROVE k = 1 \/ (k - 1 \in 1..K /\ keys[k] = policies[R[k - 1]].pct)
  <2>1. CASE k = 1
    BY <2>1
  <2>2. ASSUME NEW m \in 1..K, m = k - 1, m + 1 = k PROVE keys[k] = policies[R[k - 1]].pct
    BY <1>7, <1>10, <2>2
  <2> QED BY <1>11, <2>1, <2>2
<1>13. keys[1] = 0
  BY <1>1, <1>6, <1>10
<1>14. \A k \in 1..(K + 1) : keys[k] \in Int
  BY <1>8, <1>12, <1>13
<1>15. ASSUME NEW i \in 1..(K + 1), NEW j \in 1..(K + 1), i < j PROVE keys[i] < keys[j]
  <2>1. j # 1 /\ j - 1 \in 1..K
    BY <1>1, <1>15
  <2>2. keys[j] = policies[R[j - 1]].pct
    BY <1>12, <2>1
  <2>3. CASE i = 1
    <3>1. keys[j] \in 1..FullBps
      BY <1>8, <2>1, <2>2
    <3>2. keys[i] = 0
      BY <1>13, <2>3, Zenon
    <3>3. \A x \in 1..FullBps : 0 < x
      BY DEF FullBps
    <3> QED BY <3>1, <3>2, <3>3, Zenon
  <2>4. CASE i # 1
    <3>1. i - 1 \in 1..K /\ keys[i] = policies[R[i - 1]].pct /\ i - 1 < j - 1
      BY <1>1, <1>12, <1>15, <2>4
    <3>2. PICK a \in 1..K : a = i - 1
      BY <3>1
    <3>3. PICK b \in 1..K : b = j - 1
      BY <2>1
    <3>4. keys[i] = policies[R[a]].pct /\ keys[j] = policies[R[b]].pct /\ a < b
      BY <2>2, <3>1, <3>2, <3>3
    <3>5. policies[R[a]].pct < policies[R[b]].pct
      BY <1>9, <3>4, Zenon
    <3> QED BY <3>4, <3>5, Zenon
  <2> QED BY <2>3, <2>4
<1>16. K + 1 \in Nat
  BY <1>1
<1>17. Points = [n \in 1..(K + 1) |-> all[n]]
  BY <1>2, <1>4, <1>10, <1>14, <1>15, <1>16, SortedAlready
<1>18. DOMAIN Points = 1..(K + 1) /\ \A n \in 1..(K + 1) : Points[n] = all[n]
  BY <1>17
<1>19. \A k \in 1..K : k + 1 \in 1..(K + 1)
  BY <1>1
<1>20. Points[1] = BaselinePoint
  BY <1>1, <1>4, <1>18
<1>21. \A k \in 1..K : Points[k + 1] = PointOf(R[k])
  BY <1>4, <1>5, <1>18, <1>19
<1>22. Points = [n \in 1..(K + 1) |-> Points[n]]
  BY <1>17, <1>18
<1> QED BY <1>r, <1>18, <1>20, <1>21, <1>22 DEF ArePoints

\* What a comparison adds: the new uses of its log, all of them of the file.
LEMMA PointsAdmit ==
  ASSUME IsReady, NEW n \in CurvePlaces
  PROVE  /\ PointOf(n).x = policies[n].pct
         /\ PointOf(n).admitted = NewUses(results[n].log)
         /\ PointOf(n).admitted \subseteq FileKeys \X FileKeys
         /\ PointOf(n).changed = Cardinality(ChangedIn(results[n].log))
<1>1. IsShare(policies[n]) /\ IsWholeComparison(n)
  BY DEF IsReady
<1>2. PICK policy : policy = policies[n]
  OBVIOUS
<1>3. PICK result : result = results[n]
  OBVIOUS
<1>4. /\ result.log = RecordsOf(policy) /\ result.details = DetailsOf(RecordsOf(policy))
      /\ result.summary.signal_change = Cardinality(ChangedDetails(DetailsOf(RecordsOf(policy))))
  BY <1>1, <1>2, <1>3 DEF IsWholeComparison, RecordsOf
<1>5. Comparable(policy)
  BY <1>1, <1>2 DEF IsShare
<1>6. AdmittedIn(result) = NewUses(RecordsOf(policy)) /\ AdmittedIn(result) \subseteq FileKeys \X FileKeys
  BY <1>4, <1>5, UsesAreNew
<1>7. result.summary.signal_change = Cardinality(ChangedIn(RecordsOf(policy)))
  BY <1>4, <1>5, FlipsAreCounted
<1>8. /\ PointOf(n).x = policy.pct /\ PointOf(n).admitted = AdmittedIn(result)
      /\ PointOf(n).changed = result.summary.signal_change
  BY <1>2, <1>3 DEF PointOf
<1> QED BY <1>2, <1>3, <1>4, <1>6, <1>7, <1>8

\* A share of the whole lag leaves no row late.
LEMMA WholeLagLeavesNone ==
  ASSUME NEW policy, IsShare(policy), policy.pct = FullBps, NEW e \in ToSet(Transformed(policy))
  PROVE  ~(UpdatesSignalState(e) /\ IsLate(e))
<1>1. events \in Seq(Event) /\ IsPolicy(policy) /\ policy.kind = "fraction" /\ policy.roles = FeatureRoles
  BY DEF IsShare, Comparable
<1>2. PICK i \in DOMAIN Transformed(policy) : e = Transformed(policy)[i]
  BY DEF ToSet
<1>3. i \in DOMAIN events
  BY <1>2 DEF Transformed
<1>4. PICK f : f = events[i]
  OBVIOUS
<1>5. f \in Event /\ f.observed_time \in Nat /\ f.received_time \in Nat
  <2>1. f \in Event
    BY <1>1, <1>3, <1>4
  <2> QED BY <2>1 DEF Event
<1>6. Moves(policy, f) <=> UpdatesSignalState(f)
  BY <1>1 DEF Moves, InCohort, UpdatesSignalState
<1>7. e = IF Moves(policy, f) THEN [f EXCEPT !.received_time = MovedTime(policy, f)] ELSE f
  BY <1>2, <1>3, <1>4, Zenon DEF Transformed
<1>8. CASE ~Moves(policy, f)
  BY <1>6, <1>7, <1>8
<1>9. CASE Moves(policy, f)
  <2> DEFINE time == MovedTime(policy, f)
  <2>0. FullBps \in 0..FullBps
    BY DEF FullBps
  <2>1. time = Leaked(f.observed_time, f.received_time, FullBps)
    BY <1>1 DEF MovedTime
  <2>2. time <= f.observed_time
    <3>1. CASE f.received_time <= f.observed_time
      BY <1>5, <2>1, <3>1 DEF Leaked
    <3>2. CASE f.received_time > f.observed_time
      <4>1. Leaked(f.observed_time, f.received_time, FullBps) = f.observed_time
        BY <1>5, <2>0, <3>2, LeakStaysBetween
      <4> QED BY <1>5, <2>1, <4>1
    <3> QED BY <1>5, <3>1, <3>2
  <2>3. time \in Int
    BY <1>5, <2>0, <2>1, LeakedIsNumber
  <2> HIDE DEF time
  <2>4. e.received_time = time /\ e.observed_time = f.observed_time
    <3>1. e = [f EXCEPT !.received_time = time]
      BY <1>7, <1>9 DEF time
    <3> QED BY <1>5, <3>1 DEF Event
  <2> QED BY <1>5, <2>2, <2>3, <2>4 DEF IsLate
<1> QED BY <1>8, <1>9

-----------------------------------------------------------------------------
(***************************************************************************)
(* What the points admit together grows with the share.                    *)
(***************************************************************************)
SharesUpTo(share) == { n \in ToSet(CumulativeResults) : policies[n].pct <= share }

UsesUpToShare(share) == UNION { NewUses(results[n].log) : n \in SharesUpTo(share) }

Together(points, k) == UNION { points[j].admitted : j \in 1..k }

LEMMA TogetherGrows ==
  ASSUME IsReady, NEW R, R = CumulativeResults, NEW K, IsRising(R, K), NEW points, ArePoints(points, R, K)
  PROVE  /\ Together(points, 1) = {}
         /\ \A k \in 1..(K + 1) : IsFiniteSet(Together(points, k))
         /\ \A j, k \in 1..(K + 1) : j <= k => Together(points, j) \subseteq Together(points, k)
         /\ \A k \in 1..K : Together(points, k + 1) = UsesUpToShare(policies[R[k]].pct)
<1>1. /\ K \in Nat \ {0} /\ DOMAIN R = 1..K
      /\ \A k \in 1..K : R[k] \in CurvePlaces
      /\ \A j, k \in 1..K : j < k => R[j] < R[k]
  BY DEF IsRising
<1>2. points[1].admitted = {}
  <2>1. points[1] = BaselinePoint
    BY Zenon DEF ArePoints
  <2>2. BaselinePoint.admitted = {}
    BY DEF BaselinePoint
  <2> QED BY <2>1, <2>2, Zenon
<1>3. \A k \in 1..K : points[k + 1] = PointOf(R[k])
  BY DEF ArePoints
<1>4. \A k \in 1..K : /\ points[k + 1].admitted = NewUses(results[R[k]].log)
                      /\ points[k + 1].admitted \subseteq FileKeys \X FileKeys
  BY <1>1, <1>3, PointsAdmit
<1>5. IsFiniteSet(FileKeys \X FileKeys)
  BY FileKeysAreFinite DEF IsReady
<1>6. \A k : \A u : u \in Together(points, k) <=> \E j \in 1..k : u \in points[j].admitted
  BY Zenon DEF Together
<1>7. \A k \in 1..(K + 1) : k = 1 \/ \E m \in 1..K : k = m + 1
  <2> TAKE k \in 1..(K + 1)
  <2>1. k = 1 \/ (k - 1 \in 1..K /\ k = (k - 1) + 1)
    BY <1>1
  <2> QED BY <2>1
<1>8. \A j \in 1..(K + 1) : points[j].admitted \subseteq FileKeys \X FileKeys
  <2> TAKE j \in 1..(K + 1)
  <2>1. CASE j = 1
    BY <1>2, <2>1
  <2>2. ASSUME NEW m \in 1..K, j = m + 1 PROVE points[j].admitted \subseteq FileKeys \X FileKeys
    BY <1>4, <2>2
  <2> QED BY <1>7, <2>1, <2>2
<1>9. Together(points, 1) = {}
  <2>1. \A j \in 1..1 : j = 1
    OBVIOUS
  <2>2. \A u : u \notin Together(points, 1)
    BY <1>2, <1>6, <2>1
  <2> QED BY <2>2
<1>10. \A k \in 1..(K + 1) : IsFiniteSet(Together(points, k))
  <2> TAKE k \in 1..(K + 1)
  <2>1. \A j \in 1..k : j \in 1..(K + 1)
    BY <1>1
  <2>2. Together(points, k) \in SUBSET (FileKeys \X FileKeys)
    <3>1. \A u \in Together(points, k) : u \in FileKeys \X FileKeys
      BY <1>6, <1>8, <2>1
    <3> QED BY <3>1
  <2> QED BY <1>5, <2>2, FS_Subset
<1>11. ASSUME NEW j \in 1..(K + 1), NEW k \in 1..(K + 1), j <= k
       PROVE  Together(points, j) \subseteq Together(points, k)
  <2>1. \A i \in 1..j : i \in 1..k
    BY <1>1, <1>11
  <2> QED BY <1>6, <2>1
<1>12. ASSUME NEW k \in 1..K
       PROVE  Together(points, k + 1) = UsesUpToShare(policies[R[k]].pct)
  <2>1. \A m \in 1..K : policies[R[m]].pct <= policies[R[k]].pct <=> m <= k
    <3> TAKE m \in 1..K
    <3>1. policies[R[m]].pct \in 1..FullBps /\ policies[R[k]].pct \in 1..FullBps
      BY <1>1 DEF IsReady, IsShare
    <3>2. policies[R[m]].pct \in Int /\ policies[R[k]].pct \in Int
      BY <3>1
    <3>3. CASE m < k
      <4>1. policies[R[m]].pct < policies[R[k]].pct
        BY <1>1, <3>3 DEF IsReady
      <4> QED BY <3>2, <3>3, <4>1
    <3>4. CASE m = k
      BY <3>2, <3>4
    <3>5. CASE k < m
      <4>1. policies[R[k]].pct < policies[R[m]].pct
        BY <1>1, <3>5 DEF IsReady
      <4> QED BY <3>2, <3>5, <4>1
    <3> QED BY <1>1, <3>3, <3>4, <3>5
  <2>2. \A n : n \in SharesUpTo(policies[R[k]].pct) <=> \E m \in 1..K : n = R[m] /\ m <= k
    <3>1. \A n : n \in SharesUpTo(policies[R[k]].pct) <=>
                   \E m \in 1..K : n = R[m] /\ policies[n].pct <= policies[R[k]].pct
      BY <1>1, Zenon DEF SharesUpTo, ToSet
    <3> QED BY <2>1, <3>1, Zenon
  <2>3. \A u : u \in UsesUpToShare(policies[R[k]].pct) <=>
                 \E m \in 1..K : m <= k /\ u \in NewUses(results[R[m]].log)
    <3>1. \A u : u \in UsesUpToShare(policies[R[k]].pct) <=>
                   \E n \in SharesUpTo(policies[R[k]].pct) : u \in NewUses(results[n].log)
      BY Zenon DEF UsesUpToShare
    <3> TAKE u
    <3>2. ASSUME NEW m \in 1..K, m <= k, u \in NewUses(results[R[m]].log)
          PROVE  u \in UsesUpToShare(policies[R[k]].pct)
      <4>1. R[m] \in SharesUpTo(policies[R[k]].pct)
        BY <2>2, <3>2, Zenon
      <4> QED BY <3>1, <3>2, <4>1, Zenon
    <3>3. ASSUME u \in UsesUpToShare(policies[R[k]].pct)
          PROVE  \E m \in 1..K : m <= k /\ u \in NewUses(results[R[m]].log)
      <4>1. PICK n \in SharesUpTo(policies[R[k]].pct) : u \in NewUses(results[n].log)
        BY <3>1, <3>3, Zenon
      <4>2. PICK m \in 1..K : n = R[m] /\ m <= k
        BY <2>2, <4>1, Zenon
      <4> QED BY <4>1, <4>2, Zenon
    <3> QED BY <3>2, <3>3, Zenon
  <2>4. \A u : u \in Together(points, k + 1) <=>
                 \E m \in 1..K : m <= k /\ u \in points[m + 1].admitted
    <3> TAKE u
    <3>1. \A j \in 1..(k + 1) : j = 1 \/ (j - 1 \in 1..K /\ j - 1 <= k /\ j = (j - 1) + 1)
      BY <1>1
    <3>2. \A m \in 1..K : m <= k => m + 1 \in 1..(k + 1)
      BY <1>1
    <3>3. \A j \in 1..(k + 1) : u \in points[j].admitted =>
            \E m \in 1..K : m <= k /\ u \in points[m + 1].admitted
      <4> SUFFICES ASSUME NEW j \in 1..(k + 1), u \in points[j].admitted
                   PROVE  \E m \in 1..K : m <= k /\ u \in points[m + 1].admitted
        OBVIOUS
      <4>1. j # 1
        BY <1>2
      <4>2. PICK m \in 1..K : m = j - 1 /\ m <= k /\ j = m + 1
        BY <3>1, <4>1
      <4> QED BY <4>2
    <3> QED BY <1>6, <3>2, <3>3, Zenon
  <2>5. \A u : u \in Together(points, k + 1) <=> u \in UsesUpToShare(policies[R[k]].pct)
    <3> TAKE u
    <3>1. \A m \in 1..K : u \in points[m + 1].admitted <=> u \in NewUses(results[R[m]].log)
      BY <1>4, Zenon
    <3> QED BY <2>3, <2>4, <3>1, Zenon
  <2> QED BY <2>5
<1> QED BY <1>9, <1>10, <1>11, <1>12

LEMMA ReadyCurveCounts ==
  ASSUME IsReady, IsDrawn
  PROVE  CurveCountsAdmissions
<1>r. PICK R : R = CumulativeResults
  OBVIOUS
<1>1. PICK K : IsRising(R, K)
  BY <1>r, PlacesRise
<1>p. PICK points : points = Points
  OBVIOUS
<1>2. ArePoints(points, R, K)
  BY <1>1, <1>p, <1>r, PointsInOrder
<1>c. PICK curve : curve = Curve
  OBVIOUS
<1>3. /\ K \in Nat \ {0} /\ DOMAIN R = 1..K
      /\ \A k \in 1..K : R[k] \in CurvePlaces
      /\ \A n \in CurvePlaces : \E k \in 1..K : R[k] = n
      /\ \A j, k \in 1..K : j < k => R[j] < R[k]
  BY <1>1 DEF IsRising
<1>4. /\ DOMAIN points = 1..(K + 1) /\ points[1] = BaselinePoint
      /\ \A k \in 1..K : points[k + 1] = PointOf(R[k])
  BY <1>2 DEF ArePoints
<1> DEFINE C(k) == Cardinality(Together(points, k))
<1>5. /\ curve = [k \in 1..(K + 1) |->
                    [x |-> points[k].x, admissions |-> C(k),
                     changed |-> points[k].changed, shifts |-> points[k].shifts]]
  BY <1>c, <1>p, <1>4 DEF Curve, Exposure, Together
<1>6. Len(curve) = K + 1
  BY <1>3, <1>5
<1>7. \A k \in 1..(K + 1) : /\ curve[k].x = points[k].x /\ curve[k].admissions = C(k)
                            /\ curve[k].changed = points[k].changed
  BY <1>5
<1>8. /\ Together(points, 1) = {}
      /\ \A k \in 1..(K + 1) : IsFiniteSet(Together(points, k))
      /\ \A j, k \in 1..(K + 1) : j <= k => Together(points, j) \subseteq Together(points, k)
      /\ \A k \in 1..K : Together(points, k + 1) = UsesUpToShare(policies[R[k]].pct)
  BY <1>1, <1>2, <1>r, TogetherGrows
<1>9. \A k \in 1..(K + 1) : C(k) \in Nat
  BY <1>8, FS_CardinalityType
<1>10. C(1) = 0
  BY <1>8, FS_EmptySet
<1>11. \A j, k \in 1..(K + 1) : j <= k => C(j) <= C(k)
  <2> SUFFICES ASSUME NEW j \in 1..(K + 1), NEW k \in 1..(K + 1), j <= k PROVE C(j) <= C(k)
    BY Zenon
  <2>1. IsFiniteSet(Together(points, k)) /\ Together(points, j) \in SUBSET Together(points, k)
    BY <1>8
  <2> QED BY <2>1, FS_Subset
<1>12. \A k \in 1..K : points[k + 1].x = policies[R[k]].pct /\ points[k + 1].x \in 1..FullBps
  <2> TAKE k \in 1..K
  <2>1. R[k] \in CurvePlaces /\ points[k + 1] = PointOf(R[k])
    BY <1>3, <1>4
  <2>2. PointOf(R[k]).x = policies[R[k]].pct
    BY <2>1, PointsAdmit
  <2>3. policies[R[k]].pct \in 1..FullBps
    BY <2>1 DEF IsReady, IsShare
  <2> QED BY <2>1, <2>2, <2>3
<1>13. points[1].x = 0
  BY <1>4 DEF BaselinePoint
<1>14. \A j, k \in 1..K : j < k => policies[R[j]].pct < policies[R[k]].pct
  BY <1>3 DEF IsReady
<1> HIDE DEF C
<1>15. ASSUME NEW k \in 1..K
       PROVE  /\ curve[k].x < curve[k + 1].x
              /\ curve[k].admissions <= curve[k + 1].admissions
              /\ curve[k + 1].admissions = Cardinality(UsesUpToShare(curve[k + 1].x))
  <2>1. k \in 1..(K + 1) /\ k + 1 \in 1..(K + 1) /\ k <= k + 1
    BY <1>3
  <2>2. curve[k].admissions <= curve[k + 1].admissions
    BY <1>7, <1>11, <2>1
  <2>3. curve[k + 1].x = policies[R[k]].pct
    BY <1>7, <1>12, <2>1
  <2>4. curve[k + 1].admissions = Cardinality(UsesUpToShare(curve[k + 1].x))
    <3>1. curve[k + 1].admissions = Cardinality(Together(points, k + 1))
      BY <1>7, <2>1 DEF C
    <3>2. Together(points, k + 1) = UsesUpToShare(policies[R[k]].pct)
      BY <1>8
    <3> QED BY <2>3, <3>1, <3>2
  <2>5. curve[k].x < curve[k + 1].x
    <3>1. CASE k = 1
      <4>1. curve[1].x = 0
        BY <1>7, <1>13, <2>1, <3>1
      <4>2. policies[R[k]].pct \in 1..FullBps
        BY <1>12
      <4>3. \A x \in 1..FullBps : 0 < x
        OBVIOUS
      <4> QED BY <2>3, <3>1, <4>1, <4>2, <4>3, Zenon
    <3>2. CASE k # 1
      <4>1. PICK j \in 1..K : j + 1 = k /\ j < k
        <5>1. k - 1 \in 1..K /\ (k - 1) + 1 = k /\ k - 1 < k
          BY <1>3, <3>2
        <5> QED BY <5>1
      <4>2. curve[k].x = policies[R[j]].pct
        BY <1>7, <1>12, <2>1, <4>1
      <4>3. policies[R[j]].pct < policies[R[k]].pct
        BY <1>14, <4>1
      <4> QED BY <2>3, <4>2, <4>3
    <3> QED BY <3>1, <3>2
  <2> QED BY <2>2, <2>4, <2>5
<1>16. \A k \in 2..Len(curve) :
         /\ curve[k - 1].x < curve[k].x
         /\ curve[k - 1].admissions <= curve[k].admissions
         /\ curve[k].admissions = Cardinality(UsesUpToShare(curve[k].x))
  <2> TAKE k \in 2..Len(curve)
  <2>1. PICK j \in 1..K : j = k - 1 /\ j + 1 = k
    <3>1. k - 1 \in 1..K /\ (k - 1) + 1 = k
      BY <1>3, <1>6
    <3> QED BY <3>1
  <2> QED BY <1>15, <2>1
<1>17. curve[1].x = 0 /\ curve[1].admissions = 0
  <2>1. 1 \in 1..(K + 1)
    BY <1>3
  <2> QED BY <1>7, <1>10, <1>13, <2>1
<1>18. K \in 1..K /\ K + 1 \in 1..(K + 1)
  BY <1>3
<1>19. PICK n : n = R[K]
  OBVIOUS
<1>20. n \in ToSet(CumulativeResults) /\ n \in CurvePlaces
  BY <1>3, <1>18, <1>19, <1>r DEF ToSet
<1>21. policies[n].pct = FullBps
  <2>1. PICK whole \in CurvePlaces : policies[whole].pct = FullBps
    BY DEF IsReady
  <2>2. PICK k \in 1..K : R[k] = whole
    BY <1>3, <2>1
  <2>3. policies[n].pct \in 1..FullBps
    BY <1>20 DEF IsReady, IsShare
  <2>4. CASE k = K
    BY <1>19, <2>1, <2>2, <2>4, Zenon
  <2>5. CASE k # K
    <3>1. k < K
      BY <1>3, <2>5
    <3>2. FullBps < policies[n].pct
      BY <1>14, <1>18, <1>19, <2>1, <2>2, <3>1
    <3>3. \A x \in 1..FullBps : ~(FullBps < x)
      BY DEF FullBps
    <3> QED BY <2>3, <3>2, <3>3, Zenon
  <2> QED BY <2>4, <2>5
<1>22. \A e \in ToSet(Transformed(policies[n])) : ~(UpdatesSignalState(e) /\ IsLate(e))
  <2>1. IsShare(policies[n])
    BY <1>20 DEF IsReady
  <2> QED BY <1>21, <2>1, WholeLagLeavesNone
<1>23. PICK last : last = Curve[Len(Curve)]
  OBVIOUS
<1>24. last = curve[K + 1]
  BY <1>6, <1>23, <1>c
<1>25. EndpointNote.changed = last.changed
       /\ EndpointNote.exposure = (IF last.admissions = 0 THEN 1 ELSE last.admissions)
  BY <1>23 DEF EndpointNote
<1>26. EndpointNote.changed = Cardinality(ChangedIn(results[n].log))
  <2>1. last.changed = PointOf(n).changed
    BY <1>4, <1>7, <1>18, <1>19, <1>24
  <2> QED BY <1>20, <1>25, <2>1, PointsAdmit
<1>27. curve[Len(curve)].admissions > 0 => EndpointNote.exposure = curve[Len(curve)].admissions
  <2>1. curve[Len(curve)] = last
    BY <1>6, <1>24
  <2>2. last.admissions > 0 => last.admissions # 0
    OBVIOUS
  <2> QED BY <1>25, <2>1, <2>2
<1>28. \A share : UsesUpToShare(share) =
         UNION { NewUses(results[m].log) : m \in { j \in ToSet(CumulativeResults) : policies[j].pct <= share } }
  BY Zenon DEF UsesUpToShare, SharesUpTo
<1> QED BY <1>16, <1>17, <1>20, <1>22, <1>26, <1>27, <1>28, <1>c, Zenon DEF CurveCountsAdmissions

-----------------------------------------------------------------------------
(***************************************************************************)
(* The lags a point shows: one amount per late row, in rising order.       *)
(***************************************************************************)
\* g arranges the late rows.
IsOrdering(g, C) ==
  /\ C \in Nat \ {0} /\ C = Cardinality(LateIndexes) /\ IsFiniteSet(LateIndexes)
  /\ g \in [1..C -> LateIndexes]
  /\ \A m, n \in 1..C : g[m] = g[n] => m = n
  /\ \A i \in LateIndexes : \E m \in 1..C : g[m] = i

AreShifts(shifts, C) ==
  /\ shifts = [m \in 1..C |-> shifts[m]]
  /\ \A m \in 1..C : shifts[m] \in Int
  /\ \A m, n \in 1..C : m <= n => shifts[m] <= shifts[n]

ShownAre(policy, shifts, C) ==
  LET shown == ShiftStats(policy) IN
  /\ shown.unit = (IF IsCalendar(LateRows(policy)) THEN "minutes" ELSE "raw")
  /\ shown.count = C
  /\ shown.min = shifts[1] /\ shown.max = shifts[C]
  /\ shown.median = shifts[1 + ((C - 1) * 50 + 50) \div 100]
  /\ shown.p90 = shifts[1 + ((C - 1) * 90 + 50) \div 100]

LEMMA LateIndexesAreSome ==
  ASSUME IsReady
  PROVE  /\ IsFiniteSet(LateIndexes) /\ Cardinality(LateIndexes) \in Nat \ {0}
         /\ \A i \in LateIndexes : i \in DOMAIN events /\ i \in 1..Len(events)
<1>1. events \in Seq(Event) /\ HasLateArrivals(events)
  BY DEF IsReady
<1>2. DOMAIN events = 1..Len(events) /\ Len(events) \in Nat
  BY <1>1
<1>3. \A i \in LateIndexes : i \in DOMAIN events /\ i \in 1..Len(events)
  BY <1>2 DEF LateIndexes
<1>4. LateIndexes # {}
  BY <1>1 DEF HasLateArrivals, LateIndexes
<1>5. LateIndexes \in SUBSET (1..Len(events)) /\ IsFiniteSet(1..Len(events))
  BY <1>2, <1>3, SizeUpTo
<1>6. IsFiniteSet(LateIndexes)
  BY <1>5, FS_Subset
<1>7. Cardinality(LateIndexes) \in Nat /\ Cardinality(LateIndexes) # 0
  BY <1>4, <1>6, FS_CardinalityType, FS_EmptySet
<1> QED BY <1>3, <1>6, <1>7

\* A share of an amount is a whole number.
LEMMA FractionIsNumber ==
  ASSUME NEW lag \in Int, NEW pct \in 0..FullBps
  PROVE  LagFraction(lag, pct) \in Int /\ LagFraction(lag, pct) = ShareOf(lag, pct)
<1>1. Capped(pct) = pct /\ pct \in Int
  BY DEF Capped, FullBps
<1> DEFINE product == lag * pct
<1>2. product \in Int
  BY <1>1
<1>3. LagFraction(lag, pct) = (product + 5000) \div FullBps /\ ShareOf(lag, pct) = (product + 5000) \div FullBps
  BY <1>1 DEF LagFraction, ShareOf
<1> HIDE DEF product
<1>4. (product + 5000) \div FullBps \in Int
  BY <1>2 DEF FullBps
<1> QED BY <1>3, <1>4

LEMMA LagsShownAreNumbers ==
  ASSUME IsReady, NEW rows, NEW k \in DOMAIN rows, NEW i \in DOMAIN events, rows[k] = events[i]
  PROVE  LagShown(rows, k) \in Int
<1>1. events \in Seq(Event)
  BY DEF IsReady
<1>2. events[i] \in Event
  BY <1>1
<1>3. events[i].observed_time \in Nat /\ events[i].received_time \in Nat
  BY <1>2 DEF Event
<1>4. CASE ~IsCalendar(rows)
  BY <1>3, <1>4 DEF LagShown, Lag
<1>5. CASE IsCalendar(rows)
  <2>1. PICK call \in Commands : events = call.events
    BY DEF IsReady
  <2>2. {MinutesOf[events[i].observed_time], MinutesOf[events[i].received_time]} \subseteq Int \cup {Absent}
    BY <2>1, CurveAssumption
  <2>3. MinutesOf[events[i].observed_time] # Absent /\ MinutesOf[events[i].received_time] # Absent
    BY <1>5 DEF IsCalendar
  <2>4. MinutesOf[events[i].observed_time] \in Int /\ MinutesOf[events[i].received_time] \in Int
    BY <2>2, <2>3
  <2>5. LagShown(rows, k) = MinutesOf[events[i].received_time] - MinutesOf[events[i].observed_time]
    BY <1>5, Zenon DEF LagShown
  <2> QED BY <2>4, <2>5
<1> QED BY <1>4, <1>5

LEMMA ShiftsAreRanked ==
  ASSUME IsReady, NEW policy, IsShare(policy)
  PROVE  \E C, g, shifts :
           /\ IsOrdering(g, C) /\ AreShifts(shifts, C) /\ ShownAre(policy, shifts, C)
           /\ ~IsCalendar(LateRows(policy)) =>
                \A m \in 1..C : shifts[m] = LagFraction(Lag(events[g[m]]), policy.pct)
<1>c. PICK C : C = Cardinality(LateIndexes)
  OBVIOUS
<1>rows. PICK rows : rows = LateRows(policy)
  OBVIOUS
<1>1. /\ IsFiniteSet(LateIndexes) /\ C \in Nat \ {0}
      /\ \A i \in LateIndexes : i \in DOMAIN events /\ i \in 1..Len(events)
  BY <1>c, LateIndexesAreSome
<1>2. Len(events) \in Nat
  BY DEF IsReady
<1>3. policy.roles = FeatureRoles /\ policy.pct \in 1..FullBps
  BY DEF IsShare
<1>4. rows = Listed(events, LateIndexes)
  BY <1>rows, <1>3, Zenon DEF LateRows, LateIndexes, UpdatesSignalState
<1>5. DOMAIN rows = 1..C
  BY <1>1, <1>2, <1>4, <1>c, ListedElements
<1>6. \A k \in 1..C : \E i \in LateIndexes : Rank(LateIndexes, i) = k /\ rows[k] = events[i]
  <2>1. \A k \in DOMAIN Listed(events, LateIndexes) : \E i \in LateIndexes :
          Rank(LateIndexes, i) = k /\ Listed(events, LateIndexes)[k] = events[i]
    BY <1>1, <1>2, ListedPlaces
  <2> QED BY <1>4, <1>5, <2>1
<1>7. \A i \in LateIndexes : Rank(LateIndexes, i) \in 1..C
  BY <1>1, <1>2, <1>c, RankOrder
<1> DEFINE From(k) == CHOOSE i \in LateIndexes : Rank(LateIndexes, i) = k /\ rows[k] = events[i]
<1>8. \A k \in 1..C : /\ From(k) \in LateIndexes /\ Rank(LateIndexes, From(k)) = k
                      /\ rows[k] = events[From(k)]
  BY <1>6, Zenon
<1>9. \A i, j \in LateIndexes : Rank(LateIndexes, i) = Rank(LateIndexes, j) => i = j
  BY <1>1, <1>2, RankOrder
<1> HIDE DEF From
<1> DEFINE amounts == [ k \in DOMAIN rows |-> LagFraction(LagShown(rows, k), policy.pct) ]
<1>10. DOMAIN amounts = 1..C /\ \A k \in 1..C : amounts[k] = LagFraction(LagShown(rows, k), policy.pct)
  BY <1>5
<1>11. \A k \in 1..C : amounts[k] \in Int
  <2> TAKE k \in 1..C
  <2>1. From(k) \in DOMAIN events /\ rows[k] = events[From(k)]
    BY <1>1, <1>8
  <2>2. PICK lag : lag = LagShown(rows, k)
    OBVIOUS
  <2>3. lag \in Int
    BY <1>5, <2>1, <2>2, LagsShownAreNumbers
  <2>4. policy.pct \in 0..FullBps
    BY <1>3 DEF FullBps
  <2>5. LagFraction(lag, policy.pct) \in Int
    BY <2>3, <2>4, FractionIsNumber
  <2> QED BY <1>10, <2>2, <2>5
<1>s. PICK sorted : sorted = SortedBy(amounts, amounts)
  OBVIOUS
<1>12. ShiftStats(policy) =
         [ unit   |-> IF IsCalendar(rows) THEN "minutes" ELSE "raw",
           count  |-> Len(sorted),
           min    |-> sorted[1],
           median |-> NearestRank(sorted, 50),
           p90    |-> NearestRank(sorted, 90),
           max    |-> sorted[Len(sorted)] ]
  <2>1. rows # <<>>
    <3>1. 1 \in DOMAIN rows
      BY <1>1, <1>5
    <3> QED BY <3>1
  <2> QED BY <1>rows, <1>s, <2>1, Zenon DEF ShiftStats
<1> HIDE DEF amounts
<1>13. PICK at : /\ IsArrangement(at, C)
                 /\ SortedBy(amounts, amounts) = [m \in 1..C |-> amounts[at[m]]]
                 /\ \A m, n \in 1..C : m <= n => amounts[at[m]] <= amounts[at[n]]
  <2>1. C \in Nat
    BY <1>1
  <2>2. DOMAIN amounts = 1..C
    BY <1>10
  <2> QED BY <1>11, <2>1, <2>2, SortedByKeys, Zenon
<1>14. /\ \A m \in 1..C : at[m] \in 1..C
       /\ \A m, n \in 1..C : at[m] = at[n] => m = n
       /\ \A k \in 1..C : \E m \in 1..C : at[m] = k
  BY <1>13 DEF IsArrangement
<1>15. sorted = [m \in 1..C |-> amounts[at[m]]]
  BY <1>13, <1>s
<1>16. Len(sorted) = C
  BY <1>1, <1>15
<1>17. \A m \in 1..C : sorted[m] = amounts[at[m]]
  BY <1>15
<1> DEFINE g == [m \in 1..C |-> From(at[m])]
<1>18. g \in [1..C -> LateIndexes] /\ \A m \in 1..C : g[m] = From(at[m])
  BY <1>8, <1>14
<1> HIDE DEF g
<1>19. ASSUME NEW m \in 1..C, NEW n \in 1..C, g[m] = g[n] PROVE m = n
  <2>1. From(at[m]) = From(at[n])
    BY <1>18, <1>19
  <2>2. at[m] = at[n]
    BY <1>8, <1>14, <2>1
  <2> QED BY <1>14, <2>2
<1>20. ASSUME NEW i \in LateIndexes PROVE \E m \in 1..C : g[m] = i
  <2>1. PICK k \in 1..C : k = Rank(LateIndexes, i)
    BY <1>7
  <2>2. From(k) = i
    BY <1>8, <1>9, <2>1
  <2>3. PICK m \in 1..C : at[m] = k
    BY <1>14
  <2> QED BY <1>18, <2>2, <2>3
<1>21. IsOrdering(g, C)
  BY <1>1, <1>18, <1>19, <1>20, <1>c DEF IsOrdering
<1>22. AreShifts(sorted, C)
  <2>1. sorted = [m \in 1..C |-> sorted[m]]
    BY <1>15, <1>17
  <2>2. \A m \in 1..C : sorted[m] \in Int
    BY <1>11, <1>14, <1>17
  <2>3. \A m, n \in 1..C : m <= n => sorted[m] <= sorted[n]
    BY <1>13, <1>17
  <2> QED BY <2>1, <2>2, <2>3, Zenon DEF AreShifts
<1>23. ShownAre(policy, sorted, C)
  <2>1. /\ NearestRank(sorted, 50) = sorted[1 + ((C - 1) * 50 + 50) \div 100]
        /\ NearestRank(sorted, 90) = sorted[1 + ((C - 1) * 90 + 50) \div 100]
    BY <1>16, Zenon DEF NearestRank
  <2>2. PICK shown : shown = ShiftStats(policy)
    OBVIOUS
  <2>3. /\ shown.unit = (IF IsCalendar(rows) THEN "minutes" ELSE "raw")
        /\ shown.count = Len(sorted) /\ shown.min = sorted[1] /\ shown.max = sorted[Len(sorted)]
        /\ shown.median = NearestRank(sorted, 50) /\ shown.p90 = NearestRank(sorted, 90)
    BY <1>12, <2>2
  <2> QED BY <1>16, <1>rows, <2>1, <2>2, <2>3, Zenon DEF ShownAre
<1>24. ASSUME ~IsCalendar(rows), NEW m \in 1..C
       PROVE  sorted[m] = LagFraction(Lag(events[g[m]]), policy.pct)
  <2>1. sorted[m] = amounts[at[m]] /\ at[m] \in 1..C /\ g[m] = From(at[m])
    BY <1>14, <1>17, <1>18
  <2>2. PICK k \in 1..C : k = at[m]
    BY <2>1
  <2>3. amounts[k] = LagFraction(LagShown(rows, k), policy.pct)
    BY <1>10
  <2>4. LagShown(rows, k) = Lag(rows[k])
    BY <1>24 DEF LagShown
  <2>5. rows[k] = events[g[m]]
    BY <1>8, <2>1, <2>2
  <2> QED BY <2>1, <2>2, <2>3, <2>4, <2>5
<1> QED BY <1>21, <1>22, <1>23, <1>24, <1>rows

-----------------------------------------------------------------------------
(***************************************************************************)
(* The ranks a point shows, and how many rows lie at or beyond each.       *)
(***************************************************************************)
LEMMA RanksAreInside ==
  \A C \in Nat \ {0} : \A r, q :
    r = 1 + ((C - 1) * 50 + 50) \div 100 /\ q = 1 + ((C - 1) * 90 + 50) \div 100 =>
      r \in 1..C /\ q \in 1..C /\ r <= q /\ 2 * r >= C /\ 2 * ((C - r) + 1) >= C
<1> SUFFICES ASSUME NEW C \in Nat \ {0}, NEW r, NEW q,
                    r = 1 + ((C - 1) * 50 + 50) \div 100, q = 1 + ((C - 1) * 90 + 50) \div 100
             PROVE  r \in 1..C /\ q \in 1..C /\ r <= q /\ 2 * r >= C /\ 2 * ((C - r) + 1) >= C
  OBVIOUS
<1>1. (C - 1) * 50 + 50 = 50 * C /\ (C - 1) * 90 + 50 = 90 * C - 40
  OBVIOUS
<1>2. r = 1 + (50 * C) \div 100 /\ q = 1 + (90 * C - 40) \div 100
  BY <1>1
<1> QED BY <1>2

LEMMA ManyRowsThere ==
  ASSUME NEW C, NEW g, IsOrdering(g, C), NEW lo \in 1..C, NEW hi \in 1..C, lo <= hi,
         NEW S, \A i \in S : i \in LateIndexes, \A m \in lo..hi : g[m] \in S
  PROVE  Cardinality(S) \in Nat /\ Cardinality(S) >= (hi - lo) + 1
<1>1. /\ C \in Nat /\ IsFiniteSet(LateIndexes)
      /\ \A m, n \in 1..C : g[m] = g[n] => m = n
  BY DEF IsOrdering
<1>2. lo \in Int /\ hi \in Int
  BY <1>1
<1>3. IsFiniteSet(lo..hi) /\ Cardinality(lo..hi) = (hi - lo) + 1
  <2>1. IsFiniteSet(lo..hi) /\ Cardinality(lo..hi) = IF lo > hi THEN 0 ELSE hi - lo + 1
    BY <1>2, FS_Interval
  <2> QED BY <1>2, <2>1
<1>4. \A m, n \in lo..hi : g[m] = g[n] => m = n
  BY <1>1
<1>5. IsFiniteSet(At(g, lo..hi)) /\ Cardinality(At(g, lo..hi)) = Cardinality(lo..hi)
  BY <1>3, <1>4, AtSize
<1>6. S \in SUBSET LateIndexes
  OBVIOUS
<1>7. IsFiniteSet(S) /\ Cardinality(S) \in Nat
  BY <1>1, <1>6, FS_Subset, FS_CardinalityType
<1>8. At(g, lo..hi) \in SUBSET S
  BY DEF At
<1>9. Cardinality(At(g, lo..hi)) <= Cardinality(S)
  BY <1>7, <1>8, FS_Subset
<1> QED BY <1>3, <1>5, <1>7, <1>9

\* Both copies of the rounding rule give the same lag.
LEMMA LagIsRemoved ==
  ASSUME NEW policy, IsShare(policy), NEW i \in LateIndexes
  PROVE  /\ events[i].received_time - Transformed(policy)[i].received_time
              = LagFraction(Lag(events[i]), policy.pct)
         /\ LagFraction(Lag(events[i]), policy.pct) \in Int
<1>1. events \in Seq(Event) /\ policy.kind = "fraction" /\ policy.roles = FeatureRoles
      /\ policy.pct \in 1..FullBps
  BY DEF IsShare, Comparable
<1>2. i \in DOMAIN events /\ UpdatesSignalState(events[i]) /\ IsLate(events[i])
  BY DEF LateIndexes
<1>3. PICK e : e = events[i]
  OBVIOUS
<1>4. e \in Event /\ e.observed_time \in Nat /\ e.received_time \in Nat
  <2>1. e \in Event
    BY <1>1, <1>2, <1>3
  <2> QED BY <2>1 DEF Event
<1>5. Moves(policy, e)
  BY <1>1, <1>2, <1>3 DEF Moves, InCohort, UpdatesSignalState
<1>6. Transformed(policy)[i] = [e EXCEPT !.received_time = MovedTime(policy, e)]
  BY <1>2, <1>3, <1>5, Zenon DEF Transformed
<1>7. Transformed(policy)[i].received_time = MovedTime(policy, e)
  BY <1>4, <1>6 DEF Event
<1>8. e.received_time > e.observed_time /\ Lag(e) = e.received_time - e.observed_time
  BY <1>2, <1>3 DEF IsLate, Lag
<1>9. MovedTime(policy, e) = Leaked(e.observed_time, e.received_time, policy.pct)
  BY <1>1 DEF MovedTime
<1>10. PICK pct \in 0..FullBps : pct = policy.pct /\ pct # 0
  <2>1. \A x \in 1..FullBps : x \in 0..FullBps /\ x # 0
    BY DEF FullBps
  <2> QED BY <1>1, <2>1, Zenon
<1>11. PICK lag \in Nat : lag = Lag(e)
  BY <1>4, <1>8
<1>12. LagFraction(lag, pct) \in Int /\ LagFraction(lag, pct) = ShareOf(lag, pct)
  BY FractionIsNumber
<1>13. MovedTime(policy, e) = e.received_time - ShareOf(lag, pct)
  <2>1. ~(e.received_time <= e.observed_time)
    BY <1>4, <1>8
  <2>2. Leaked(e.observed_time, e.received_time, pct)
          = e.received_time - ShareOf(e.received_time - e.observed_time, pct)
    BY <1>10, <2>1, Zenon DEF Leaked, ShareOf
  <2>3. lag = e.received_time - e.observed_time
    BY <1>8, <1>11
  <2>4. MovedTime(policy, e) = Leaked(e.observed_time, e.received_time, pct)
    BY <1>9, <1>10, Zenon
  <2> QED BY <2>2, <2>3, <2>4, Zenon
<1>14. PICK share \in Int : share = ShareOf(lag, pct)
  BY <1>12
<1>15. e.received_time - (e.received_time - share) = share
  BY <1>4
<1> QED BY <1>3, <1>7, <1>10, <1>11, <1>12, <1>13, <1>14, <1>15

LEMMA ReadyShiftsAreReal ==
  ASSUME IsReady
  PROVE  ShiftsShownAreReal
<1> SUFFICES ASSUME NEW n \in ToSet(CumulativeResults)
             PROVE  LET shown == ShiftStats(policies[n])
                        moved == Transformed(policies[n])
                        removed == [ i \in LateIndexes |-> events[i].received_time - moved[i].received_time ]
                        amounts == { removed[i] : i \in LateIndexes }
                    IN  /\ shown.count = Cardinality(LateIndexes)
                        /\ shown.min <= shown.median /\ shown.median <= shown.p90 /\ shown.p90 <= shown.max
                        /\ shown.unit = "raw" =>
                             /\ {shown.min, shown.median, shown.p90, shown.max} \subseteq amounts
                             /\ \A i \in LateIndexes : shown.min <= removed[i] /\ removed[i] <= shown.max
                             /\ 2 * Cardinality({ i \in LateIndexes : removed[i] <= shown.median }) >= shown.count
                             /\ 2 * Cardinality({ i \in LateIndexes : removed[i] >= shown.median }) >= shown.count
  BY Zenon DEF ShiftsShownAreReal
<1> DEFINE moved == Transformed(policies[n])
           removed == [ i \in LateIndexes |-> events[i].received_time - moved[i].received_time ]
           amounts == { removed[i] : i \in LateIndexes }
<1>p. PICK policy : policy = policies[n]
  OBVIOUS
<1>1. IsShare(policy)
  <2>1. PICK K : IsRising(CumulativeResults, K)
    BY PlacesRise
  <2>2. n \in CurvePlaces
    BY <2>1 DEF ToSet, IsRising
  <2> QED BY <2>2, <1>p DEF IsReady
<1>2. PICK C, g, shifts :
        /\ IsOrdering(g, C) /\ AreShifts(shifts, C) /\ ShownAre(policy, shifts, C)
        /\ ~IsCalendar(LateRows(policy)) =>
             \A m \in 1..C : shifts[m] = LagFraction(Lag(events[g[m]]), policy.pct)
  BY <1>1, ShiftsAreRanked
<1>s. PICK shown : shown = ShiftStats(policies[n])
  OBVIOUS
<1>r. PICK r : r = 1 + ((C - 1) * 50 + 50) \div 100
  OBVIOUS
<1>q. PICK q : q = 1 + ((C - 1) * 90 + 50) \div 100
  OBVIOUS
<1>3. /\ C \in Nat \ {0} /\ C = Cardinality(LateIndexes)
      /\ \A m \in 1..C : g[m] \in LateIndexes
      /\ \A i \in LateIndexes : \E m \in 1..C : g[m] = i
  BY <1>2 DEF IsOrdering
<1>4. /\ \A m \in 1..C : shifts[m] \in Int
      /\ \A m, k \in 1..C : m <= k => shifts[m] <= shifts[k]
  BY <1>2 DEF AreShifts
<1>5. r \in 1..C /\ q \in 1..C /\ r <= q /\ 2 * r >= C /\ 2 * ((C - r) + 1) >= C
  <2>1. C \in Nat \ {0}
    BY <1>3
  <2> QED BY <1>q, <1>r, <2>1, RanksAreInside, Zenon
<1>6. /\ shown.unit = (IF IsCalendar(LateRows(policy)) THEN "minutes" ELSE "raw")
      /\ shown.count = C
      /\ shown.min = shifts[1] /\ shown.max = shifts[C]
      /\ shown.median = shifts[r] /\ shown.p90 = shifts[q]
  BY <1>2, <1>p, <1>q, <1>r, <1>s, Zenon DEF ShownAre
<1>7. 1 \in 1..C /\ C \in 1..C /\ \A m \in 1..C : 1 <= m /\ m <= C
  BY <1>3
<1>8. shown.min <= shown.median /\ shown.median <= shown.p90 /\ shown.p90 <= shown.max
  BY <1>4, <1>5, <1>6, <1>7, Zenon
<1>9. ASSUME shown.unit = "raw"
      PROVE  /\ {shown.min, shown.median, shown.p90, shown.max} \subseteq amounts
             /\ \A i \in LateIndexes : shown.min <= removed[i] /\ removed[i] <= shown.max
             /\ 2 * Cardinality({ i \in LateIndexes : removed[i] <= shown.median }) >= shown.count
             /\ 2 * Cardinality({ i \in LateIndexes : removed[i] >= shown.median }) >= shown.count
  <2>1. ~IsCalendar(LateRows(policy))
    BY <1>6, <1>9
  <2>2. \A i \in LateIndexes : removed[i] = LagFraction(Lag(events[i]), policy.pct) /\ removed[i] \in Int
    BY <1>1, <1>p, LagIsRemoved
  <2>3. \A m \in 1..C : removed[g[m]] = shifts[m]
    BY <1>2, <1>3, <2>1, <2>2, Zenon
  <2>4. \A x : x \in amounts <=> \E i \in LateIndexes : x = removed[i]
    BY Zenon
  <2> HIDE DEF removed, amounts
  <2>5. \A m \in 1..C : shifts[m] \in amounts
    BY <1>3, <2>3, <2>4, Zenon
  <2>6. {shown.min, shown.median, shown.p90, shown.max} \subseteq amounts
    BY <1>5, <1>6, <1>7, <2>5
  <2>7. ASSUME NEW i \in LateIndexes
        PROVE  shown.min <= removed[i] /\ removed[i] <= shown.max
    <3>1. PICK m \in 1..C : g[m] = i
      BY <1>3
    <3>2. removed[i] = shifts[m]
      BY <2>3, <3>1, Zenon
    <3> QED BY <1>4, <1>6, <1>7, <3>1, <3>2, Zenon
  <2>8. 2 * Cardinality({ i \in LateIndexes : removed[i] <= shown.median }) >= C
    <3> DEFINE S == { i \in LateIndexes : removed[i] <= shown.median }
    <3>1. \A i : i \in S <=> i \in LateIndexes /\ removed[i] <= shown.median
      OBVIOUS
    <3> HIDE DEF S
    <3>2. \A m \in 1..r : m \in 1..C /\ m <= r
      BY <1>3, <1>5
    <3>3. \A m \in 1..r : g[m] \in S
      BY <1>3, <1>4, <1>5, <1>6, <2>3, <3>1, <3>2, Zenon
    <3>4. Cardinality(S) \in Nat /\ Cardinality(S) >= (r - 1) + 1
      BY <1>2, <1>5, <1>7, <3>1, <3>3, ManyRowsThere
    <3>5. 2 * Cardinality(S) >= C
      BY <1>3, <1>5, <3>4
    <3> QED BY <3>5 DEF S
  <2>9. 2 * Cardinality({ i \in LateIndexes : removed[i] >= shown.median }) >= C
    <3> DEFINE S == { i \in LateIndexes : removed[i] >= shown.median }
    <3>1. \A i : i \in S <=> i \in LateIndexes /\ removed[i] >= shown.median
      OBVIOUS
    <3> HIDE DEF S
    <3>2. \A m \in r..C : m \in 1..C /\ r <= m
      BY <1>3, <1>5
    <3>3. \A m \in r..C : g[m] \in S
      <4> TAKE m \in r..C
      <4>1. shifts[r] <= shifts[m] /\ shifts[r] \in Int /\ shifts[m] \in Int
        BY <1>4, <1>5, <3>2
      <4>2. removed[g[m]] = shifts[m] /\ g[m] \in LateIndexes
        BY <1>3, <2>3, <3>2
      <4>3. removed[g[m]] >= shown.median
        BY <1>6, <4>1, <4>2
      <4> QED BY <3>1, <4>2, <4>3
    <3>4. Cardinality(S) \in Nat /\ Cardinality(S) >= (C - r) + 1
      BY <1>2, <1>5, <1>7, <3>1, <3>3, ManyRowsThere
    <3>5. 2 * Cardinality(S) >= C
      BY <1>3, <1>5, <3>4
    <3> QED BY <3>5 DEF S
  <2> QED BY <1>6, <2>6, <2>7, <2>8, <2>9
<1> HIDE DEF removed, amounts
<1>10. shown.count = Cardinality(LateIndexes)
  BY <1>3, <1>6
<1> QED BY <1>8, <1>9, <1>10, <1>s DEF removed, amounts

-----------------------------------------------------------------------------
LEMMA CurveInvariant == Spec => [](SInv /\ LineInv /\ CurveInv)
<1>1. Init => SInv /\ LineInv /\ CurveInv
  BY SweepStarts, LineStarts, CurveStarts
<1>2. SInv /\ LineInv /\ [Next]_vars => LineInv'
  BY LineIsKept
<1>3. SInv /\ LineInv /\ CurveInv /\ [Next]_vars => CurveInv'
  BY CurveIsKept
<1>4. Spec => []SInv
  BY SweepInvariant
<1> QED BY <1>1, <1>2, <1>3, <1>4, PTL DEF Spec

\* Every point of the curve counts each new use up to its share once, the curve
\* never falls, and its end is the replay that left no lag, with the changes
\* the note names (main.rs:1626-1770).
THEOREM CurveIsCounted == Spec => []CurveCountsAdmissions
<1>1. SInv /\ LineInv /\ CurveInv => CurveCountsAdmissions
  <2> SUFFICES ASSUME SInv, LineInv, CurveInv PROVE CurveCountsAdmissions
    OBVIOUS
  <2>1. CASE ~IsDrawn
    BY <2>1 DEF CurveCountsAdmissions
  <2>2. CASE IsDrawn
    BY <2>2, DrawnIsReady, ReadyCurveCounts
  <2> QED BY <2>1, <2>2
<1> QED BY <1>1, CurveInvariant, PTL

\* The lags a point shows as removed are those its replay removed, and their
\* ranks are in order (main.rs:1929-2033; sensitivity.rs:390-403).
THEOREM ShiftsAreReal == Spec => []ShiftsShownAreReal
<1>1. SInv /\ LineInv /\ CurveInv => ShiftsShownAreReal
  <2> SUFFICES ASSUME SInv, LineInv, CurveInv PROVE ShiftsShownAreReal
    OBVIOUS
  <2>1. CASE ~IsDrawn
    BY <2>1 DEF ShiftsShownAreReal
  <2>2. CASE IsDrawn
    BY <2>2, DrawnIsReady, ReadyShiftsAreReal
  <2> QED BY <2>1, <2>2
<1> QED BY <1>1, CurveInvariant, PTL
=============================================================================
