--------------------------- MODULE DialogueProofs ---------------------------
(***************************************************************************)
(* Theorems about Dialogue, for any number of accounts, texts, parts and   *)
(* flows, and for every limit, window and time to live.                    *)
(***************************************************************************)
EXTENDS Dialogue, SequenceTheorems, NaturalsInduction, WellFoundedInduction, TLAPS

-----------------------------------------------------------------------------
(* The attempts of a window *)

Ordered(q) == \A i, j \in 1..Len(q) : i <= j => q[i] <= q[j]

\* The elements of q after the first k.
From(q, k) == SubSeq(q, k + 1, Len(q))

LEMMA FromProperties ==
    ASSUME NEW q \in Seq(Nat), NEW k \in 0..Len(q)
    PROVE  /\ From(q, k) \in Seq(Nat)
           /\ Len(From(q, k)) = Len(q) - k
           /\ \A i \in 1..Len(q) - k : From(q, k)[i] = q[k + i]
<1>1. Len(q) \in Nat /\ \A i \in 1..Len(q) : q[i] \in Nat
    BY LenProperties, ElementOfSeq
<1>2. \A i \in k + 1..Len(q) : q[i] \in Nat
    BY <1>1
<1> QED BY <1>1, <1>2, SubSeqProperties DEF From

\* A set of numbers that is not empty has a least one.
LEMMA LeastIn ==
    ASSUME NEW S \in SUBSET Nat, S # {}
    PROVE  \E m \in S : \A n \in S : m <= n
<1> DEFINE Less == OpToRel(<, Nat)
<1>1. \E m \in S : \A n \in S : ~(<<n, m>> \in Less)
    BY NatLessThanWellFounded, WFMin
<1>2. PICK m \in S : \A n \in S : ~(<<n, m>> \in Less)
    BY <1>1
<1>3. ASSUME NEW n \in S PROVE m <= n
  <2>1. <<n, m>> \in Nat \X Nat /\ <<n, m>> \notin Less
      BY <1>2
  <2> QED BY <2>1 DEF OpToRel
<1> QED BY <1>3

\* What lies in the window is what follows the first k, and nothing else.
LEMMA WithinIs ==
    ASSUME NEW q \in Seq(Nat), Ordered(q), NEW span \in Nat, NEW t \in Nat
    PROVE  \E k \in 0..Len(q) : /\ Within(q, span, t) = From(q, k)
                                /\ \A i \in 1..Len(q) : i <= k <=> q[i] + span <= t
<1> DEFINE Old(k) == \A i \in DOMAIN q : i <= k <=> q[i] + span <= t
           Young == {i \in 1..Len(q) : ~(q[i] + span <= t)}
<1>1. Len(q) \in Nat /\ DOMAIN q = 1..Len(q) /\ \A i \in 1..Len(q) : q[i] \in Nat
    BY LenProperties, ElementOfSeq
<1>2. \E k \in 0..Len(q) : Old(k)
  <2>1. CASE Young = {}
    <3>1. ASSUME NEW i \in 1..Len(q) PROVE i <= Len(q) /\ q[i] + span <= t
      <4>1. i \notin Young
          BY <2>1
      <4> QED BY <1>1, <4>1
    <3>2. Len(q) \in 0..Len(q) /\ Old(Len(q))
        BY <1>1, <3>1
    <3> QED BY <3>2
  <2>2. CASE Young # {}
    <3>0. Young \in SUBSET Nat
        OBVIOUS
    <3>1. PICK m \in Young : \A n \in Young : m <= n
        BY <3>0, <2>2, LeastIn, Zenon
    <3>2. m - 1 \in 0..Len(q)
        BY <1>1
    <3>3. ASSUME NEW i \in 1..Len(q)
          PROVE  i <= m - 1 <=> q[i] + span <= t
      <4>1. CASE i < m
          BY <1>1, <3>1, <4>1
      <4>2. CASE i >= m
          BY <1>1, <4>2 DEF Ordered
      <4> QED BY <1>1, <4>1, <4>2
    <3> QED BY <1>1, <3>2, <3>3
  <2>3. Young = {} \/ Young # {}
      OBVIOUS
  <2> QED BY <2>1, <2>2, <2>3, Zenon
<1>3. PICK k \in 0..Len(q) : /\ Old(k)
                             /\ k = CHOOSE j \in 0..Len(q) : Old(j)
    BY <1>2
<1>4. Within(q, span, t) = From(q, k)
    BY <1>3 DEF Within, From
<1> QED BY <1>1, <1>3, <1>4

\* What is left is in order and in the window, and counting again changes nothing.
LEMMA WithinProperties ==
    ASSUME NEW q \in Seq(Nat), Ordered(q), NEW span \in Nat, NEW t \in Nat
    PROVE  LET w == Within(q, span, t)
           IN  /\ w \in Seq(Nat) /\ Ordered(w) /\ Len(w) <= Len(q)
               /\ \A i \in 1..Len(w) : ~(w[i] + span <= t)
               /\ \A b \in Nat : (\A i \in 1..Len(q) : q[i] <= b) => \A i \in 1..Len(w) : w[i] <= b
<1>1. PICK k \in 0..Len(q) : /\ Within(q, span, t) = From(q, k)
                             /\ \A i \in 1..Len(q) : i <= k <=> q[i] + span <= t
    BY WithinIs
<1> DEFINE w == Within(q, span, t)
<1>2. Len(q) \in Nat /\ \A i \in 1..Len(q) : q[i] \in Nat
    BY LenProperties, ElementOfSeq
<1>3. /\ w \in Seq(Nat) /\ Len(w) = Len(q) - k
      /\ \A i \in 1..Len(q) - k : w[i] = q[k + i]
    BY <1>1, FromProperties
<1> HIDE DEF w
<1>4. \A i \in 1..Len(w) : w[i] = q[k + i] /\ k + i \in 1..Len(q) /\ ~(k + i <= k)
    BY <1>2, <1>3
<1>5. Ordered(w)
  <2> SUFFICES ASSUME NEW i \in 1..Len(w), NEW j \in 1..Len(w), i <= j
               PROVE  w[i] <= w[j]
      BY DEF Ordered
  <2>1. k + i <= k + j
      BY <1>2, <1>3
  <2> QED BY <1>4, <2>1 DEF Ordered
<1>6. Len(w) <= Len(q)
    BY <1>2, <1>3
<1>7. \A i \in 1..Len(w) : ~(w[i] + span <= t)
    BY <1>1, <1>4
<1>8. \A b \in Nat : (\A i \in 1..Len(q) : q[i] <= b) => \A i \in 1..Len(w) : w[i] <= b
    BY <1>4
<1> QED BY <1>3, <1>5, <1>6, <1>7, <1>8 DEF w

LEMMA WithinAll ==
    ASSUME NEW q \in Seq(Nat), Ordered(q), NEW span \in Nat, NEW t \in Nat,
           \A i \in 1..Len(q) : ~(q[i] + span <= t)
    PROVE  Within(q, span, t) = q
<1>1. PICK k \in 0..Len(q) : /\ Within(q, span, t) = From(q, k)
                             /\ \A i \in 1..Len(q) : i <= k <=> q[i] + span <= t
    BY WithinIs
<1>2. Len(q) \in Nat
    BY LenProperties
<1>3. k = 0
    BY <1>1, <1>2
<1> QED BY <1>1, <1>3, SubSeqFull DEF From

\* To count at one time and again at a later one is to count at the later one.
LEMMA WithinLater ==
    ASSUME NEW q \in Seq(Nat), Ordered(q), NEW span \in Nat, NEW t \in Nat, NEW u \in Nat, t <= u
    PROVE  Within(Within(q, span, t), span, u) = Within(q, span, u)
<1> DEFINE w == Within(q, span, t)
<1>1. PICK k \in 0..Len(q) : /\ w = From(q, k)
                             /\ \A i \in 1..Len(q) : i <= k <=> q[i] + span <= t
    BY WithinIs
<1>2. Len(q) \in Nat /\ \A i \in 1..Len(q) : q[i] \in Nat
    BY LenProperties, ElementOfSeq
<1>3. /\ w \in Seq(Nat) /\ Len(w) = Len(q) - k
      /\ \A i \in 1..Len(q) - k : w[i] = q[k + i]
    BY <1>1, FromProperties
<1>4. Ordered(w)
    BY WithinProperties
<1> HIDE DEF w
<1>5. PICK j \in 0..Len(w) : /\ Within(w, span, u) = From(w, j)
                             /\ \A i \in 1..Len(w) : i <= j <=> w[i] + span <= u
    BY <1>3, <1>4, WithinIs
<1>6. PICK m \in 0..Len(q) : /\ Within(q, span, u) = From(q, m)
                             /\ \A i \in 1..Len(q) : i <= m <=> q[i] + span <= u
    BY WithinIs
<1>7. m = k + j
  <2>1. ASSUME m < k PROVE FALSE
    <3>1. k \in 1..Len(q) /\ q[k] + span <= t
        BY <1>1, <1>2, <2>1
    <3>2. q[k] + span <= u
        BY <1>2, <3>1
    <3> QED BY <1>2, <1>6, <2>1, <3>1, <3>2
  <2>2. ASSUME m > k + j PROVE FALSE
    <3>1. m \in 1..Len(q) /\ q[m] + span <= u
        BY <1>2, <1>3, <1>6, <2>2
    <3>2. m - k \in 1..Len(w) /\ k + (m - k) = m
        BY <1>2, <1>3, <2>2
    <3>3. w[m - k] = q[m]
        BY <1>3, <3>2
    <3>4. w[m - k] + span <= u
        BY <3>1, <3>3
    <3>5. m - k <= j
        BY <1>5, <3>2, <3>4
    <3> QED BY <1>2, <1>3, <2>2, <3>5
  <2>3. ASSUME m >= k, m < k + j PROVE FALSE
    <3>1. j \in 1..Len(w)
        BY <1>2, <1>3, <2>3
    <3>2. w[j] + span <= u
        BY <1>2, <1>3, <1>5, <3>1
    <3>3. k + j \in 1..Len(q) /\ w[j] = q[k + j]
        BY <1>2, <1>3, <3>1
    <3> QED BY <1>2, <1>6, <2>3, <3>2, <3>3
  <2> QED BY <1>2, <1>3, <2>1, <2>2, <2>3
<1>8. /\ From(w, j) \in Seq(Nat) /\ Len(From(w, j)) = Len(w) - j
      /\ \A i \in 1..Len(w) - j : From(w, j)[i] = w[j + i]
    BY <1>3, FromProperties
<1>9. /\ From(q, m) \in Seq(Nat) /\ Len(From(q, m)) = Len(q) - m
      /\ \A i \in 1..Len(q) - m : From(q, m)[i] = q[m + i]
    BY FromProperties
<1>10. Len(From(w, j)) = Len(From(q, m))
  <2>1. (Len(q) - k) - j = Len(q) - m
      BY <1>2, <1>3, <1>7
  <2> QED BY <1>3, <1>8, <1>9, <2>1
<1>11. ASSUME NEW i \in 1..Len(From(w, j)) PROVE From(w, j)[i] = From(q, m)[i]
  <2>1. i \in 1..Len(w) - j /\ i \in 1..Len(q) - m /\ j + i \in 1..Len(q) - k
      BY <1>2, <1>3, <1>8, <1>9, <1>10
  <2>2. k + (j + i) = m + i
      BY <1>2, <1>3, <1>7, <2>1
  <2> QED BY <1>3, <1>8, <1>9, <2>1, <2>2
<1>12. From(w, j) = From(q, m)
    BY <1>8, <1>9, <1>10, <1>11, SeqEqual
<1> QED BY <1>5, <1>6, <1>12 DEF w

\* An attempt of now is added behind those that count.
LEMMA CountedAttempt ==
    ASSUME NEW w \in Seq(Nat), Ordered(w), NEW t \in Nat, NEW span \in Nat \ {0},
           \A i \in 1..Len(w) : w[i] <= t /\ ~(w[i] + span <= t)
    PROVE  LET v == Append(w, t)
           IN  /\ v \in Seq(Nat) /\ Ordered(v) /\ Len(v) = Len(w) + 1
               /\ \A i \in 1..Len(v) : v[i] <= t
               /\ Within(v, span, t) = v
<1> DEFINE v == Append(w, t)
<1>1. Len(w) \in Nat /\ \A i \in 1..Len(w) : w[i] \in Nat
    BY LenProperties, ElementOfSeq
<1>2. /\ v \in Seq(Nat) /\ Len(v) = Len(w) + 1
      /\ \A i \in 1..Len(w) : v[i] = w[i]
      /\ v[Len(w) + 1] = t
    BY AppendProperties
<1> HIDE DEF v
<1>3. \A i \in 1..Len(v) : i \in 1..Len(w) \/ i = Len(w) + 1
    BY <1>1, <1>2
<1>4. ASSUME NEW i \in 1..Len(v)
      PROVE  v[i] \in Nat /\ v[i] <= t /\ ~(v[i] + span <= t)
  <2>1. CASE i \in 1..Len(w)
    <3>1. v[i] = w[i] /\ w[i] \in Nat
        BY <1>1, <1>2, <2>1
    <3> QED BY <2>1, <3>1
  <2>2. CASE i = Len(w) + 1
    <3>1. v[i] = t
        BY <1>2, <2>2
    <3> QED BY <3>1
  <2> QED BY <1>3, <2>1, <2>2
<1>5. Ordered(v)
  <2> SUFFICES ASSUME NEW i \in 1..Len(v), NEW j \in 1..Len(v), i <= j
               PROVE  v[i] <= v[j]
      BY DEF Ordered
  <2>1. CASE j \in 1..Len(w)
    <3>1. i \in 1..Len(w)
        BY <1>1, <2>1
    <3> QED BY <1>2, <2>1, <3>1 DEF Ordered
  <2>2. CASE j = Len(w) + 1
      BY <1>2, <1>4, <2>2
  <2> QED BY <1>3, <2>1, <2>2
<1>6. Within(v, span, t) = v
    BY <1>2, <1>4, <1>5, WithinAll
<1> QED BY <1>2, <1>4, <1>5, <1>6 DEF v

-----------------------------------------------------------------------------
(* Dialogues and calls *)

Kinds == {"idle", "phone", "name", "code", "groupName", "groupCategory", "groupPhones",
          "rename", "addPhones"}
CallKinds == {"none", "start", "verify", "create", "rename", "add", "post", "split"}

LEMMA IdleIs ==
    /\ Idle \in State /\ Idle.kind = "idle" /\ Idle.add = FALSE /\ Idle.wanted = FALSE
    /\ Idle.failures = 0 /\ Idle.conv = Nobody
  BY BoundsAssumption DEF Idle, State

LEMMA KindState ==
    ASSUME NEW s \in State, NEW k \in Kinds
    PROVE  LET r == [s EXCEPT !.kind = k]
           IN  /\ r \in State /\ r.kind = k /\ r.add = s.add /\ r.wanted = s.wanted
               /\ r.failures = s.failures /\ r.conv = s.conv
  BY DEF State, Kinds

LEMMA AddState ==
    ASSUME NEW s \in State, NEW x \in BOOLEAN
    PROVE  LET r == [s EXCEPT !.add = x]
           IN  /\ r \in State /\ r.kind = s.kind /\ r.add = x /\ r.wanted = s.wanted
               /\ r.failures = s.failures /\ r.conv = s.conv
  BY DEF State

LEMMA WantedState ==
    ASSUME NEW s \in State, NEW x \in BOOLEAN
    PROVE  LET r == [s EXCEPT !.wanted = x]
           IN  /\ r \in State /\ r.kind = s.kind /\ r.add = s.add /\ r.wanted = x
               /\ r.failures = s.failures /\ r.conv = s.conv
  BY DEF State

LEMMA ConvState ==
    ASSUME NEW s \in State, NEW c \in Accounts
    PROVE  LET r == [s EXCEPT !.conv = c]
           IN  /\ r \in State /\ r.kind = s.kind /\ r.add = s.add /\ r.wanted = s.wanted
               /\ r.failures = s.failures /\ r.conv = c
  BY DEF State

LEMMA FailuresState ==
    ASSUME NEW s \in State, NEW n \in 0..MaxFailures - 1
    PROVE  LET r == [s EXCEPT !.failures = n]
           IN  /\ r \in State /\ r.kind = s.kind /\ r.add = s.add /\ r.wanted = s.wanted
               /\ r.failures = n /\ r.conv = s.conv
  BY DEF State

\* The dialogues that flows begin with.
LEMMA BegunState ==
    ASSUME NEW k \in Kinds
    PROVE  LET r == [Idle EXCEPT !.kind = k]
           IN  /\ r \in State /\ r.kind = k /\ r.add = FALSE /\ r.wanted = FALSE
               /\ r.failures = 0 /\ r.conv = Nobody
  BY IdleIs, KindState

LEMMA ButtonState ==
    ASSUME NEW x \in BOOLEAN
    PROVE  LET r == [Idle EXCEPT !.kind = "phone", !.add = x, !.wanted = x]
           IN  /\ r \in State /\ r.kind = "phone" /\ r.add = x /\ r.wanted = x
               /\ r.failures = 0 /\ r.conv = Nobody
<1> DEFINE b == [Idle EXCEPT !.kind = "phone"]
           c == [b EXCEPT !.add = x]
           d == [c EXCEPT !.wanted = x]
<1>1. [Idle EXCEPT !.kind = "phone", !.add = x, !.wanted = x] = d
    OBVIOUS
<1>2. /\ b \in State /\ b.kind = "phone" /\ b.failures = 0 /\ b.conv = Nobody
    BY BegunState DEF Kinds
<1> HIDE DEF b
<1>3. /\ c \in State /\ c.kind = "phone" /\ c.add = x /\ c.failures = 0 /\ c.conv = Nobody
    BY <1>2, AddState
<1> HIDE DEF c
<1>4. d \in State /\ d.kind = "phone" /\ d.add = x /\ d.wanted = x /\ d.failures = 0 /\ d.conv = Nobody
    BY <1>3, WantedState
<1> HIDE DEF d
<1> QED BY <1>1, <1>4

LEMMA AskState ==
    ASSUME NEW k \in Kinds, NEW c \in Accounts
    PROVE  LET r == [Idle EXCEPT !.kind = k, !.conv = c]
           IN  /\ r \in State /\ r.kind = k /\ r.add = FALSE /\ r.wanted = FALSE
               /\ r.failures = 0 /\ r.conv = c
<1> DEFINE b == [Idle EXCEPT !.kind = k]
           d == [b EXCEPT !.conv = c]
<1>1. [Idle EXCEPT !.kind = k, !.conv = c] = d
    OBVIOUS
<1>2. /\ b \in State /\ b.kind = k /\ b.add = FALSE /\ b.wanted = FALSE
      /\ b.failures = 0 /\ b.conv = Nobody
    BY BegunState
<1> HIDE DEF b
<1>3. /\ d \in State /\ d.kind = k /\ d.add = FALSE /\ d.wanted = FALSE
      /\ d.failures = 0 /\ d.conv = c
    BY <1>2, ConvState
<1> HIDE DEF d
<1> QED BY <1>1, <1>3

LEMMA NoCallIs ==
    /\ NoCall \in Call /\ NoCall.kind = "none" /\ NoCall.via = Nobody
    /\ NoCall.conv = Nobody /\ NoCall.text = 0
  BY DEF NoCall, Call

LEMMA KindCall ==
    ASSUME NEW k \in CallKinds
    PROVE  LET r == [NoCall EXCEPT !.kind = k]
           IN  r \in Call /\ r.kind = k /\ r.via = Nobody /\ r.conv = Nobody /\ r.text = 0
  BY NoCallIs DEF Call, CallKinds

LEMMA ViaCall ==
    ASSUME NEW k \in CallKinds, NEW a \in Accounts
    PROVE  LET r == [NoCall EXCEPT !.kind = k, !.via = a]
           IN  r \in Call /\ r.kind = k /\ r.via = a /\ r.conv = Nobody /\ r.text = 0
<1> DEFINE b == [NoCall EXCEPT !.kind = k]
<1>1. [NoCall EXCEPT !.kind = k, !.via = a] = [b EXCEPT !.via = a]
    OBVIOUS
<1>2. b \in Call /\ b.kind = k /\ b.conv = Nobody /\ b.text = 0
    BY KindCall
<1> HIDE DEF b
<1>3. LET d == [b EXCEPT !.via = a]
      IN  d \in Call /\ d.kind = k /\ d.via = a /\ d.conv = Nobody /\ d.text = 0
    BY <1>2 DEF Call
<1> QED BY <1>1, <1>3

LEMMA GroupCall ==
    ASSUME NEW k \in CallKinds, NEW a \in Accounts
    PROVE  LET r == [NoCall EXCEPT !.kind = k, !.via = a, !.conv = a]
           IN  r \in Call /\ r.kind = k /\ r.via = a /\ r.conv = a
<1> DEFINE b == [NoCall EXCEPT !.kind = k, !.via = a]
<1>1. [NoCall EXCEPT !.kind = k, !.via = a, !.conv = a] = [b EXCEPT !.conv = a]
    OBVIOUS
<1>2. b \in Call /\ b.kind = k /\ b.via = a
    BY ViaCall
<1> HIDE DEF b
<1>3. LET d == [b EXCEPT !.conv = a]
      IN  d \in Call /\ d.kind = k /\ d.via = a /\ d.conv = a
    BY <1>2 DEF Call
<1> QED BY <1>1, <1>3

LEMMA TextCall ==
    ASSUME NEW k \in CallKinds, NEW x \in Texts
    PROVE  LET r == [NoCall EXCEPT !.kind = k, !.text = x]
           IN  r \in Call /\ r.kind = k /\ r.via = Nobody /\ r.conv = Nobody /\ r.text = x
<1> DEFINE b == [NoCall EXCEPT !.kind = k]
<1>1. [NoCall EXCEPT !.kind = k, !.text = x] = [b EXCEPT !.text = x]
    OBVIOUS
<1>2. b \in Call /\ b.kind = k /\ b.via = Nobody /\ b.conv = Nobody
    BY KindCall
<1> HIDE DEF b
<1>3. LET d == [b EXCEPT !.text = x]
      IN  d \in Call /\ d.kind = k /\ d.via = Nobody /\ d.conv = Nobody /\ d.text = x
    BY <1>2 DEF Call
<1> QED BY <1>1, <1>3

-----------------------------------------------------------------------------
(* The inductive invariant *)

Clock == now \in 0..MaxTime /\ touched \in 0..MaxTime + 1

Standing == status \in [Accounts -> {"none", "connected", "ended"}] /\ active \in Accounts \cup {Nobody}

\* The server counts the same attempts as the bot.
Log(s) == /\ Ordered(attempts[s]) /\ Len(attempts[s]) <= Limit[s]
          /\ \A i \in 1..Len(attempts[s]) : attempts[s][i] <= now
          /\ asked[s] = Within(attempts[s], Hour, now)

Logs == /\ attempts \in [Steps -> Seq(Nat)]
        /\ DOMAIN asked = Steps
        /\ \A s \in Steps : Log(s)

\* A flow that is not over was touched, and has failures only where a code is waited for.
Flow == /\ state \in State
        /\ state.add = state.wanted
        /\ state.kind # "idle" => touched # 0
        /\ state.kind \in {"rename", "addPhones"} <=> state.conv # Nobody

Guesses == /\ guessed \in Nat /\ guessed <= MaxFailures
           /\ state.kind = "code" => guessed <= state.failures
           /\ state.kind # "code" => state.failures = 0

\* What a handler awaits fits the dialogue.
Answer == /\ call \in Call
          /\ call.kind = "start" => state.kind = "name"
          /\ call.kind = "verify" => state.kind = "code"
          /\ call.kind = "split" => call.text \in Texts
          /\ OwnGroupOnly

GroupSteps == {"groupName", "groupCategory", "groupPhones"}

\* A flow for a group that goes on, or a request for one, is not paid for yet.
Paid == /\ created \in Nat /\ groupFlows \in Nat /\ flows \in Nat
        /\ groupFlows <= flows /\ flows <= MaxFlows
        /\ created <= groupFlows
        /\ state.kind \in GroupSteps \/ call.kind = "create" => created < groupFlows
        /\ call.kind = "create" => state.kind \notin GroupSteps

\* A text that waits was not sent at all; one that is being split is not complete.
Text(x) == /\ Len(sent[x]) <= Parts /\ \A i \in 1..Len(sent[x]) : sent[x][i] = i
           /\ pending[x] # 0 => sent[x] = <<>>
           /\ call.kind = "split" /\ call.text = x => pending[x] = 0 /\ Len(sent[x]) < Parts

InOrder == /\ pending \in [Texts -> 0..MaxTime + 1]
           /\ sent \in [Texts -> Seq(Nat)]
           /\ \A x \in Texts : Text(x)

IInv == Clock /\ Standing /\ Logs /\ Flow /\ Guesses /\ Answer /\ Paid /\ InOrder

-----------------------------------------------------------------------------
(* What keeps the parts *)

LEMMA LogsKept ==
    ASSUME Logs, UNCHANGED <<now, attempts, asked>>
    PROVE  Logs'
  BY DEF Logs, Log, Ordered

\* No text is given to a handler, and none is sent.
LEMMA TextsKept ==
    ASSUME InOrder, UNCHANGED <<pending, sent>>, call' = call \/ call'.kind # "split"
    PROVE  InOrder'
  BY DEF InOrder, Text

\* The attempts that count, and one of now.
LEMMA Window ==
    ASSUME Clock, Logs, NEW s \in Steps
    PROVE  LET w == Recent(attempts[s])
           IN  /\ w \in Seq(Nat) /\ Ordered(w) /\ Len(w) <= Limit[s]
               /\ \A i \in 1..Len(w) : w[i] <= now /\ ~(w[i] + Hour <= now)
               /\ asked[s] = w
<1>1. /\ attempts[s] \in Seq(Nat) /\ Ordered(attempts[s]) /\ Len(attempts[s]) <= Limit[s]
      /\ \A i \in 1..Len(attempts[s]) : attempts[s][i] <= now
      /\ asked[s] = Recent(attempts[s])
    BY DEF Logs, Log, Recent
<1>2. Hour \in Nat /\ now \in Nat /\ Limit[s] \in Nat
    BY BoundsAssumption DEF Clock
<1> DEFINE w == Within(attempts[s], Hour, now)
<1>3. /\ w \in Seq(Nat) /\ Ordered(w) /\ Len(w) <= Len(attempts[s])
      /\ \A i \in 1..Len(w) : ~(w[i] + Hour <= now)
      /\ \A i \in 1..Len(w) : w[i] <= now
    BY <1>1, <1>2, WithinProperties
<1>4. Len(w) \in Nat /\ Len(attempts[s]) \in Nat
    BY <1>1, <1>3, LenProperties
<1> HIDE DEF w
<1>5. Len(w) <= Limit[s]
    BY <1>1, <1>2, <1>3, <1>4
<1> QED BY <1>1, <1>3, <1>5 DEF Recent, w

LEMMA LogsCounted ==
    ASSUME Clock, Logs, NEW s \in Steps, Allowed(s), Count(s), Ask(s), now' = now
    PROVE  Logs'
<1> DEFINE w == Recent(attempts[s])
           v == Append(w, now)
<1>1. /\ w \in Seq(Nat) /\ Ordered(w)
      /\ \A i \in 1..Len(w) : w[i] <= now /\ ~(w[i] + Hour <= now)
      /\ asked[s] = w
    BY Window
<1>2. now \in Nat /\ Hour \in Nat \ {0} /\ Limit[s] \in Nat /\ Len(w) < Limit[s] /\ Len(w) \in Nat
    BY <1>1, LenProperties, BoundsAssumption DEF Clock, Allowed
<1>3. attempts' = [attempts EXCEPT ![s] = v] /\ asked' = [asked EXCEPT ![s] = v]
    BY <1>1 DEF Count, Ask
<1> HIDE DEF w
<1>4. /\ v \in Seq(Nat) /\ Ordered(v) /\ Len(v) = Len(w) + 1
      /\ \A i \in 1..Len(v) : v[i] <= now
      /\ Within(v, Hour, now) = v
    BY <1>1, <1>2, CountedAttempt
<1>5. Len(v) <= Limit[s]
    BY <1>2, <1>4
<1> HIDE DEF v
<1>6. attempts' \in [Steps -> Seq(Nat)] /\ DOMAIN asked' = Steps
    BY <1>3, <1>4 DEF Logs
<1>7. ASSUME NEW r \in Steps PROVE Log(r)'
  <2>1. CASE r = s
    <3>1. attempts'[r] = v /\ asked'[r] = v
        BY <1>3, <2>1 DEF Logs
    <3> QED BY <1>4, <1>5, <2>1, <3>1 DEF Log, Ordered
  <2>2. CASE r # s
    <3>1. attempts'[r] = attempts[r] /\ asked'[r] = asked[r]
        BY <1>3, <2>2 DEF Logs
    <3> QED BY <3>1 DEF Logs, Log, Ordered
  <2> QED BY <2>1, <2>2
<1> QED BY <1>6, <1>7 DEF Logs

LEMMA LogsRefused ==
    ASSUME Clock, Logs, NEW s \in Steps, Refuse(s), UNCHANGED <<now, asked>>
    PROVE  Logs'
<1> DEFINE w == Recent(attempts[s])
<1>1. /\ w \in Seq(Nat) /\ Ordered(w) /\ Len(w) <= Limit[s]
      /\ \A i \in 1..Len(w) : w[i] <= now /\ ~(w[i] + Hour <= now)
      /\ asked[s] = w
    BY Window
<1>2. now \in Nat /\ Hour \in Nat
    BY BoundsAssumption DEF Clock
<1>3. attempts' = [attempts EXCEPT ![s] = w]
    BY DEF Refuse
<1> HIDE DEF w
<1>4. Within(w, Hour, now) = w
    BY <1>1, <1>2, WithinAll
<1>5. attempts' \in [Steps -> Seq(Nat)] /\ DOMAIN asked' = Steps
    BY <1>1, <1>3 DEF Logs
<1>6. ASSUME NEW r \in Steps PROVE Log(r)'
  <2>1. CASE r = s
    <3>1. attempts'[r] = w /\ asked'[r] = w
        BY <1>1, <1>3, <2>1 DEF Logs
    <3> QED BY <1>1, <1>4, <2>1, <3>1 DEF Log, Ordered
  <2>2. CASE r # s
    <3>1. attempts'[r] = attempts[r] /\ asked'[r] = asked[r]
        BY <1>3, <2>2 DEF Logs
    <3> QED BY <3>1 DEF Logs, Log, Ordered
  <2> QED BY <2>1, <2>2
<1> QED BY <1>5, <1>6 DEF Logs

LEMMA LogsTicked ==
    ASSUME Clock, Logs, Tick
    PROVE  Logs'
<1>1. now \in Nat /\ Hour \in Nat /\ now' = now + 1 /\ attempts' = attempts
    BY BoundsAssumption DEF Clock, Tick, memory
<1>2. asked' = [s \in Steps |-> Within(asked[s], Hour, now')]
    BY DEF Tick
<1>3. ASSUME NEW s \in Steps PROVE Log(s)'
  <2>1. /\ attempts[s] \in Seq(Nat) /\ Ordered(attempts[s]) /\ Len(attempts[s]) <= Limit[s]
        /\ \A i \in 1..Len(attempts[s]) : attempts[s][i] <= now
        /\ asked[s] = Within(attempts[s], Hour, now)
      BY DEF Logs, Log
  <2>2. asked'[s] = Within(Within(attempts[s], Hour, now), Hour, now')
      BY <1>2, <2>1
  <2>3. now <= now' /\ now' \in Nat
      BY <1>1
  <2>4. asked'[s] = Within(attempts[s], Hour, now')
      BY <1>1, <2>1, <2>2, <2>3, WithinLater
  <2>5. \A i \in 1..Len(attempts[s]) : attempts[s][i] <= now'
    <3>1. \A i \in 1..Len(attempts[s]) : attempts[s][i] \in Nat
        BY <2>1, ElementOfSeq
    <3> QED BY <1>1, <2>1, <3>1
  <2> QED BY <1>1, <2>1, <2>4, <2>5 DEF Log, Ordered
<1> QED BY <1>1, <1>2, <1>3 DEF Logs

\* No attempts at all.
LEMMA NoAttempts ==
    /\ <<>> \in Seq(Nat) /\ Len(<<>>) = 0 /\ Ordered(<<>>)
    /\ \A s \in Steps : Len(<<>>) <= Limit[s]
    /\ \A t \in Nat : Within(<<>>, Hour, t) = <<>>
<1>1. <<>> \in Seq(Nat) /\ Len(<<>>) = 0
    BY EmptySeq
<1>2. Ordered(<<>>) /\ \A i \in 1..Len(<<>>) : FALSE
    BY <1>1 DEF Ordered
<1>3. Hour \in Nat /\ \A s \in Steps : Limit[s] \in Nat
    BY BoundsAssumption
<1>4. ASSUME NEW t \in Nat PROVE Within(<<>>, Hour, t) = <<>>
    BY <1>1, <1>2, <1>3, WithinAll
<1> QED BY <1>1, <1>2, <1>3, <1>4

-----------------------------------------------------------------------------
(* Every step keeps the invariant *)

LEMMA InitHolds == Init => IInv
<1> SUFFICES ASSUME Init PROVE IInv
    OBVIOUS
<1>1. /\ MaxTime \in Nat /\ MaxFlows \in Nat /\ Parts \in Nat \ {0} /\ MaxFailures \in Nat
      /\ Nobody \notin Accounts
    BY BoundsAssumption
<1>2. Clock /\ Standing
    BY <1>1 DEF Init, Clock, Standing
<1>3. Logs
    BY NoAttempts DEF Init, Logs, Log
<1>4. Flow /\ Guesses
  <2>1. state = Idle /\ guessed = 0
      BY DEF Init
  <2>2. Flow
      BY <2>1, IdleIs DEF Flow
  <2>3. Guesses
    <3>1. guessed \in Nat /\ guessed <= MaxFailures
        BY <1>1, <2>1
    <3> QED BY <2>1, <3>1, IdleIs DEF Guesses
  <2> QED BY <2>2, <2>3
<1>5. Answer /\ Paid
    BY <1>1, IdleIs, NoCallIs DEF Init, Answer, Paid, OwnGroupOnly, GroupSteps
<1>6. InOrder
  <2>1. ASSUME NEW x \in Texts PROVE Text(x)
    <3>1. sent[x] = <<>> /\ pending[x] = 0 /\ call.kind = "none"
        BY NoCallIs DEF Init
    <3> QED BY <1>1, <3>1, NoAttempts DEF Text
  <2> QED BY <1>1, <2>1, NoAttempts DEF Init, InOrder
<1> QED BY <1>2, <1>3, <1>4, <1>5, <1>6 DEF IInv

\* A flow begins: the dialogue is of the kind, nothing else happens in it.
Starts(k) == /\ call = NoCall /\ call' = NoCall
             /\ flows < MaxFlows /\ flows' = flows + 1 /\ touched' = now + 1
             /\ state' \in State /\ state'.kind = k /\ state'.add = state'.wanted
             /\ state'.failures = 0
             /\ k \in {"rename", "addPhones"} <=> state'.conv # Nobody
             /\ UNCHANGED <<now, attempts, pending, status, active, remote>>

LEMMA StartsKeeps ==
    ASSUME IInv, NEW k \in {"phone", "groupName", "rename", "addPhones"}, Starts(k),
           groupFlows' = IF k = "groupName" THEN groupFlows + 1 ELSE groupFlows
    PROVE  IInv'
<1> USE DEF Starts
<1>1. Clock' /\ Standing'
    BY BoundsAssumption DEF IInv, Clock, Standing
<1>2. Logs'
    BY LogsKept DEF IInv, remote
<1>3. Flow'
    BY DEF IInv, Flow, Clock
<1>4. Guesses'
    BY DEF IInv, Guesses, remote
<1>5. Answer'
    BY NoCallIs DEF IInv, Answer, OwnGroupOnly
<1>6. Paid'
    BY NoCallIs, BoundsAssumption DEF IInv, Paid, GroupSteps, remote
<1>7. InOrder'
    BY NoCallIs, TextsKept DEF IInv, remote
<1> QED BY <1>1, <1>2, <1>3, <1>4, <1>5, <1>6, <1>7 DEF IInv

LEMMA EntersStep ==
    ASSUME IInv, Enters
    PROVE  IInv'
<1>1. ASSUME Begin PROVE IInv'
  <2>1. Starts("phone")
      BY <1>1, BegunState DEF Begin, Enter, Touch, Starts, Kinds
  <2> QED BY <1>1, <2>1, StartsKeeps DEF Begin
<1>2. ASSUME NewGroup PROVE IInv'
  <2>1. Starts("groupName")
      BY <1>2, BegunState DEF NewGroup, Enter, Touch, Starts, Kinds
  <2> QED BY <1>2, <2>1, StartsKeeps DEF NewGroup
<1>3. ASSUME NEW add \in BOOLEAN, BeginButton(add) PROVE IInv'
  <2>1. Starts("phone")
      BY <1>3, ButtonState DEF BeginButton, Enter, Touch, Starts
  <2> QED BY <1>3, <2>1, StartsKeeps DEF BeginButton
<1>4. ASSUME NEW kind \in {"rename", "addPhones"}, NEW conv \in Accounts, AskFor(kind, conv)
      PROVE  IInv'
  <2>1. /\ call = NoCall /\ Enter([Idle EXCEPT !.kind = kind, !.conv = conv])
        /\ UNCHANGED <<now, attempts, pending, status, active, call, remote, groupFlows>>
      BY <1>4 DEF AskFor
  <2>2. kind \in Kinds /\ kind # "groupName" /\ conv # Nobody
      BY BoundsAssumption DEF Kinds
  <2> DEFINE s == [Idle EXCEPT !.kind = kind, !.conv = conv]
  <2>3. /\ s \in State /\ s.kind = kind /\ s.add = FALSE /\ s.wanted = FALSE
        /\ s.failures = 0 /\ s.conv = conv
      BY <2>2, AskState, Zenon
  <2>4. Enter(s)
      BY <2>1
  <2> HIDE DEF s
  <2>5. Starts(kind)
      BY <2>1, <2>2, <2>3, <2>4 DEF Enter, Touch, Starts
  <2> QED BY <2>1, <2>2, <2>5, StartsKeeps
<1> QED BY <1>1, <1>2, <1>3, <1>4 DEF Enters

\* The flow is over.
LEMMA IdleKeeps ==
    ASSUME IInv, Exit, touched' \in {touched, 0, now + 1}, UNCHANGED <<now, guessed>>
    PROVE  Clock' /\ Flow' /\ Guesses'
<1>1. Clock'
    BY BoundsAssumption DEF IInv, Clock
<1>2. Flow' /\ Guesses'
    BY IdleIs DEF IInv, Flow, Guesses, Exit
<1> QED BY <1>1, <1>2

LEMMA ExitKeeps ==
    ASSUME IInv, Exit, call' = NoCall, touched' \in {touched, 0, now + 1}, guessed' = guessed,
           UNCHANGED <<now, flows, groupFlows, created>>
    PROVE  Clock' /\ Flow' /\ Guesses' /\ Answer' /\ Paid'
<1>1. Clock' /\ Flow' /\ Guesses'
    BY IdleKeeps
<1>2. Answer' /\ Paid'
    BY IdleIs, NoCallIs DEF IInv, Answer, Paid, Exit, OwnGroupOnly, GroupSteps
<1> QED BY <1>1, <1>2

LEMMA CancelStep ==
    ASSUME IInv, Cancel \/ Expired
    PROVE  IInv'
<1>1. /\ Exit /\ call' = NoCall /\ touched' = 0
      /\ UNCHANGED <<now, attempts, pending, status, active, remote, flows, groupFlows>>
    BY DEF Cancel, Expired, Clear, Unmoved
<1>2. Clock' /\ Flow' /\ Guesses' /\ Answer' /\ Paid'
    BY <1>1, ExitKeeps DEF remote
<1>3. Logs' /\ Standing' /\ InOrder'
    BY <1>1, LogsKept, TextsKept, NoCallIs DEF IInv, Standing, remote
<1> QED BY <1>2, <1>3 DEF IInv

LEMMA RestartStep ==
    ASSUME IInv, Restart
    PROVE  IInv'
<1>1. Clock' /\ Flow' /\ Guesses' /\ Answer' /\ Paid'
    BY ExitKeeps DEF Restart, Clear
<1>2. Logs'
    BY NoAttempts DEF IInv, Clock, Restart, Logs, Log
<1>3. Standing'
    BY DEF IInv, Standing, Restart
<1>4. InOrder'
  <2>1. ASSUME NEW x \in Texts PROVE Text(x)'
    <3>1. sent'[x] = sent[x] /\ pending'[x] = 0 /\ call'.kind = "none"
        BY NoCallIs DEF Restart
    <3> QED BY <3>1 DEF IInv, InOrder, Text
  <2> QED BY <2>1, BoundsAssumption DEF IInv, InOrder, Restart
<1> QED BY <1>1, <1>2, <1>3, <1>4 DEF IInv

\* The dialogue goes on to kind k, while nothing is awaited.
LEMMA BecomeKeeps ==
    ASSUME IInv, NEW k \in Kinds, Become(k), call' = NoCall, touched' \in {touched, now + 1},
           state.kind # "idle", k # "idle",
           k = "code" => state.kind # "code" /\ guessed' = 0,
           state.kind = "code" => k = "code",
           k # "code" => guessed' = guessed,
           k \in {"rename", "addPhones"} <=> state.kind \in {"rename", "addPhones"},
           k \in GroupSteps => state.kind \in GroupSteps,
           UNCHANGED <<now, flows, groupFlows, created>>
    PROVE  Clock' /\ Flow' /\ Guesses' /\ Answer' /\ Paid'
<1>1. /\ state' \in State /\ state'.kind = k /\ state'.add = state.add
      /\ state'.wanted = state.wanted /\ state'.failures = state.failures /\ state'.conv = state.conv
    BY KindState DEF IInv, Flow, Become
<1>2. Clock'
    BY BoundsAssumption DEF IInv, Clock
<1>3. Flow'
    BY <1>1 DEF IInv, Flow, Clock
<1>4. Guesses'
    BY <1>1, BoundsAssumption DEF IInv, Guesses
<1>5. Answer' /\ Paid'
    BY <1>1, NoCallIs DEF IInv, Answer, Paid, OwnGroupOnly, GroupSteps
<1> QED BY <1>2, <1>3, <1>4, <1>5

LEMMA OnwardStep ==
    ASSUME IInv, TapCategory \/ OnPhone \/ OnGroupName
    PROVE  IInv'
<1>1. Logs' /\ Standing' /\ InOrder'
    BY LogsKept, TextsKept, NoCallIs
       DEF IInv, Standing, TapCategory, OnPhone, OnGroupName, Waiting, remote, Unmoved
<1>2. Clock' /\ Flow' /\ Guesses' /\ Answer' /\ Paid'
  <2>1. CASE TapCategory
      BY <2>1, BecomeKeeps DEF TapCategory, Waiting, remote, GroupSteps, Kinds
  <2>2. CASE OnPhone
      BY <2>2, BecomeKeeps DEF OnPhone, Waiting, Touch, remote, Unmoved, GroupSteps, Kinds
  <2>3. CASE OnGroupName
      BY <2>3, BecomeKeeps DEF OnGroupName, Waiting, Touch, remote, Unmoved, GroupSteps, Kinds
  <2> QED BY <2>1, <2>2, <2>3
<1> QED BY <1>1, <1>2 DEF IInv

\* A message that changes only when the flow was last touched.
LEMMA RejectedStep ==
    ASSUME IInv, Rejected
    PROVE  IInv'
<1>1. /\ state' = state /\ call' = call /\ touched' = now + 1
      /\ UNCHANGED <<attempts, now, pending, status, active, remote, flows, groupFlows>>
    BY DEF Rejected, Touch, Unmoved
<1>2. Logs' /\ Standing' /\ InOrder'
    BY <1>1, LogsKept, TextsKept DEF IInv, Standing, remote
<1>3. Clock' /\ Flow' /\ Guesses' /\ Answer' /\ Paid'
    BY <1>1, BoundsAssumption
       DEF IInv, Clock, Flow, Guesses, Answer, Paid, OwnGroupOnly, GroupSteps, remote
<1> QED BY <1>2, <1>3 DEF IInv

\* A request for a code, and a code, that the limit lets through or not.
AskStep(kind, s) ==
    /\ Waiting(kind)
    /\ \/ /\ Allowed(s) /\ Count(s) /\ Ask(s)
          /\ Touch
          /\ call' = [NoCall EXCEPT !.kind = s]
          /\ UNCHANGED state
       \/ /\ ~Allowed(s) /\ Refuse(s)
          /\ Exit /\ Clear
          /\ UNCHANGED <<call, asked>>
    /\ UNCHANGED <<now, pending, status, active, guessed, sent, created, flows, groupFlows>>

LEMMA AskKeeps ==
    ASSUME IInv, NEW kind, NEW s, AskStep(kind, s),
           <<kind, s>> = <<"name", "start">> \/ <<kind, s>> = <<"code", "verify">>
    PROVE  IInv'
<1>1. s \in Steps /\ s \in CallKinds /\ s \notin {"split", "create", "rename", "add", "post"}
    BY DEF Steps, CallKinds
<1>2. UNCHANGED <<now, pending, status, active, guessed, sent, created, flows, groupFlows>>
    BY DEF AskStep
<1>3. Standing'
    BY <1>2 DEF IInv, Standing
<1>4. CASE Allowed(s) /\ Count(s) /\ Ask(s) /\ Touch /\ call' = [NoCall EXCEPT !.kind = s] /\ UNCHANGED state
  <2>1. call' \in Call /\ call'.kind = s /\ call' # call
      BY <1>1, <1>4, KindCall, NoCallIs DEF AskStep, Waiting, Steps
  <2>2. Logs' /\ InOrder'
      BY <1>1, <1>2, <1>4, <2>1, LogsCounted, TextsKept DEF IInv
  <2>3. Clock' /\ Flow' /\ Guesses'
      BY <1>2, <1>4, BoundsAssumption DEF IInv, Clock, Flow, Guesses, Touch
  <2>4. Answer' /\ Paid'
      BY <1>1, <1>2, <1>4, <2>1 DEF IInv, Answer, Paid, OwnGroupOnly, GroupSteps, AskStep, Waiting
  <2> QED BY <1>3, <2>2, <2>3, <2>4 DEF IInv
<1>5. CASE ~Allowed(s) /\ Refuse(s) /\ Exit /\ Clear /\ UNCHANGED <<call, asked>>
  <2>1. call' = NoCall
      BY <1>5 DEF AskStep, Waiting
  <2>2. Logs' /\ InOrder'
      BY <1>1, <1>2, <1>5, LogsRefused, TextsKept DEF IInv
  <2>3. Clock' /\ Flow' /\ Guesses' /\ Answer' /\ Paid'
      BY <1>2, <1>5, <2>1, ExitKeeps DEF Clear
  <2> QED BY <1>3, <2>2, <2>3 DEF IInv
<1> QED BY <1>4, <1>5 DEF AskStep

LEMMA OnNameStep ==
    ASSUME IInv, OnName
    PROVE  IInv'
<1>1. AskStep("name", "start")
    BY DEF OnName, AskStep
<1> QED BY <1>1, AskKeeps

LEMMA OnCodeStep ==
    ASSUME IInv, OnCode
    PROVE  IInv'
<1>1. AskStep("code", "verify")
    BY DEF OnCode, AskStep
<1> QED BY <1>1, AskKeeps

LEMMA StartedStep ==
    ASSUME IInv, Started
    PROVE  IInv'
<1>1. /\ call.kind = "start" /\ call' = NoCall
      /\ UNCHANGED <<now, touched, attempts, pending, status, active, asked, sent, created, flows, groupFlows>>
    BY DEF Started
<1>2. state.kind = "name"
    BY <1>1 DEF IInv, Answer
<1>3. Logs' /\ Standing' /\ InOrder'
    BY <1>1, LogsKept, TextsKept, NoCallIs DEF IInv, Standing
<1>4. CASE Become("code") /\ guessed' = 0
  <2>1. Clock' /\ Flow' /\ Guesses' /\ Answer' /\ Paid'
      BY <1>1, <1>2, <1>4, BecomeKeeps DEF Kinds, GroupSteps
  <2> QED BY <1>3, <2>1 DEF IInv
<1>5. CASE Exit /\ UNCHANGED guessed
  <2>1. Clock' /\ Flow' /\ Guesses' /\ Answer' /\ Paid'
      BY <1>1, <1>5, ExitKeeps
  <2> QED BY <1>3, <2>1 DEF IInv
<1> QED BY <1>4, <1>5 DEF Started

LEMMA WrongCodeStep ==
    ASSUME IInv, WrongCode
    PROVE  IInv'
<1>1. /\ call.kind = "verify" /\ call' = NoCall /\ guessed' = guessed + 1
      /\ UNCHANGED <<now, touched, attempts, pending, status, active, asked, sent, created, flows, groupFlows>>
    BY DEF WrongCode
<1>2. state.kind = "code" /\ state \in State /\ guessed \in Nat /\ guessed <= state.failures
    BY <1>1 DEF IInv, Answer, Flow, Guesses
<1>3. state.failures \in 0..MaxFailures - 1 /\ MaxFailures \in Nat
    BY <1>2, BoundsAssumption DEF State
<1>4. Clock' /\ Logs' /\ Standing' /\ InOrder'
    BY <1>1, LogsKept, TextsKept, NoCallIs DEF IInv, Clock, Standing
<1>5. CASE state.failures + 1 >= MaxFailures
  <2>1. state' = Idle
      BY <1>5 DEF WrongCode, Exit
  <2>2. Guesses'
      BY <1>1, <1>2, <1>3, <2>1, IdleIs DEF Guesses
  <2>3. Flow' /\ Answer' /\ Paid'
      BY <1>1, <2>1, IdleIs, NoCallIs DEF IInv, Flow, Answer, Paid, OwnGroupOnly, GroupSteps
  <2> QED BY <1>4, <2>2, <2>3 DEF IInv
<1>6. CASE ~(state.failures + 1 >= MaxFailures)
  <2>1. state' = [state EXCEPT !.failures = state.failures + 1]
      BY <1>6 DEF WrongCode, Retry
  <2>2. state.failures + 1 \in 0..MaxFailures - 1
      BY <1>3, <1>6
  <2>3. /\ state' \in State /\ state'.kind = "code" /\ state'.add = state.add
        /\ state'.wanted = state.wanted /\ state'.failures = state.failures + 1
        /\ state'.conv = state.conv
      BY <1>2, <2>1, <2>2, FailuresState
  <2>4. Guesses'
      BY <1>1, <1>2, <1>3, <2>2, <2>3 DEF Guesses
  <2>5. Flow' /\ Answer' /\ Paid'
      BY <1>1, <1>2, <2>3, NoCallIs DEF IInv, Flow, Answer, Paid, OwnGroupOnly, GroupSteps
  <2> QED BY <1>4, <2>4, <2>5 DEF IInv
<1> QED BY <1>5, <1>6

LEMMA ConnectStands ==
    ASSUME Standing, NEW a \in Accounts, NEW add, Connect(a, add)
    PROVE  Standing'
  BY DEF Standing, Connect

LEMMA VerifiedStep ==
    ASSUME IInv, Verified
    PROVE  IInv'
<1>1. /\ call' = NoCall /\ Exit
      /\ UNCHANGED <<now, touched, attempts, pending, remote, flows, groupFlows>>
    BY DEF Verified
<1>2. Standing'
    BY ConnectStands DEF IInv, Verified, Standing
<1>3. Logs' /\ InOrder'
    BY <1>1, LogsKept, TextsKept, NoCallIs DEF IInv, remote
<1>4. Clock' /\ Flow' /\ Guesses' /\ Answer' /\ Paid'
    BY <1>1, ExitKeeps DEF remote
<1> QED BY <1>2, <1>3, <1>4 DEF IInv

\* A handler ends, or a request of kind k begins, whose account owns the group it is about;
\* the dialogue stays.
LEMMA CallKeeps ==
    ASSUME IInv, call' \in Call, call'.kind \notin {"start", "verify", "create"},
           call'.kind = "split" => call'.text \in Texts,
           call'.kind \in {"rename", "add", "post"} => call'.via = call'.conv,
           created' \in Nat, created' = created \/ (call.kind = "create" /\ created' = created + 1),
           UNCHANGED <<now, state, touched, guessed, flows, groupFlows>>
    PROVE  Clock' /\ Flow' /\ Guesses' /\ Answer' /\ Paid'
<1>1. Clock' /\ Flow' /\ Guesses'
    BY DEF IInv, Clock, Flow, Guesses
<1>2. Answer' /\ Paid'
    BY DEF IInv, Answer, Paid, OwnGroupOnly, GroupSteps
<1> QED BY <1>1, <1>2

LEMMA AnsweredStep ==
    ASSUME IInv, GroupAnswered \/ SendFails \/ Created
    PROVE  IInv'
<1>1. /\ call' = NoCall
      /\ created' \in Nat /\ (created' = created \/ (call.kind = "create" /\ created' = created + 1))
      /\ UNCHANGED <<now, state, touched, attempts, pending, status, active, asked, guessed, sent,
                     flows, groupFlows>>
    BY DEF IInv, Paid, GroupAnswered, SendFails, Created, remote
<1>2. Clock' /\ Flow' /\ Guesses' /\ Answer' /\ Paid'
    BY <1>1, NoCallIs, CallKeeps
<1>3. Logs' /\ Standing' /\ InOrder'
    BY <1>1, LogsKept, TextsKept, NoCallIs DEF IInv, Standing
<1> QED BY <1>2, <1>3 DEF IInv

LEMMA OnGroupPhonesStep ==
    ASSUME IInv, OnGroupPhones
    PROVE  IInv'
<1>1. PICK a \in Accounts : call' = [NoCall EXCEPT !.kind = "create", !.via = a]
    BY DEF OnGroupPhones, Connected
<1>2. /\ call = NoCall /\ state.kind = "groupPhones" /\ state' = Idle /\ touched' = now + 1
      /\ UNCHANGED <<attempts, now, pending, status, active, remote, flows, groupFlows>>
    BY DEF OnGroupPhones, Waiting, Touch, Exit, Unmoved
<1>3. call' \in Call /\ call'.kind = "create"
    BY <1>1, ViaCall DEF CallKinds
<1>4. Logs' /\ Standing' /\ InOrder'
    BY <1>2, <1>3, LogsKept, TextsKept DEF IInv, Standing, remote
<1>5. Clock' /\ Flow' /\ Guesses'
    BY <1>2, IdleKeeps DEF Exit, remote
<1>6. Answer' /\ Paid'
    BY <1>2, <1>3, IdleIs DEF IInv, Answer, Paid, OwnGroupOnly, GroupSteps, remote
<1> QED BY <1>4, <1>5, <1>6 DEF IInv

LEMMA OnGroupInputStep ==
    ASSUME IInv, OnGroupInput
    PROVE  IInv'
<1>1. PICK a \in Accounts, k \in {"rename", "add"} :
           call' = [NoCall EXCEPT !.kind = k, !.via = a, !.conv = a]
  <2>1. PICK a \in Accounts :
             /\ a = state.conv
             /\ call' = [NoCall EXCEPT !.kind = IF state.kind = "rename" THEN "rename" ELSE "add",
                                       !.via = a, !.conv = state.conv]
      BY DEF OnGroupInput, ConvFor, Chosen, Connected
  <2> QED BY <2>1, Zenon
<1>2. /\ state' = Idle /\ touched' = now + 1
      /\ UNCHANGED <<attempts, now, pending, status, active, remote, flows, groupFlows>>
    BY DEF OnGroupInput, Touch, Exit, Unmoved
<1>3. k \in CallKinds
    BY <1>1 DEF CallKinds
<1>4. call' \in Call /\ call'.kind = k /\ call'.via = a /\ call'.conv = a
    BY <1>1, <1>3, GroupCall
<1>5. Logs' /\ Standing' /\ InOrder'
    BY <1>1, <1>2, <1>4, LogsKept, TextsKept DEF IInv, Standing, remote
<1>6. Clock' /\ Flow' /\ Guesses'
    BY <1>2, IdleKeeps DEF Exit, remote
<1>7. Answer' /\ Paid'
    BY <1>1, <1>2, <1>4, IdleIs DEF IInv, Answer, Paid, OwnGroupOnly, GroupSteps, remote
<1> QED BY <1>5, <1>6, <1>7 DEF IInv

LEMMA OnMessageStep ==
    ASSUME IInv, NEW conv \in Accounts, OnMessage(conv)
    PROVE  IInv'
<1>1. call' = [NoCall EXCEPT !.kind = "post", !.via = conv, !.conv = conv]
    BY DEF OnMessage
<1>2. UNCHANGED <<now, state, touched, attempts, pending, status, active, remote, flows, groupFlows>>
    BY DEF OnMessage
<1>3. call' \in Call /\ call'.kind = "post" /\ call'.via = conv /\ call'.conv = conv
    BY <1>1, GroupCall DEF CallKinds
<1>4. Clock' /\ Flow' /\ Guesses' /\ Answer' /\ Paid'
    BY <1>2, <1>3, CallKeeps DEF IInv, Paid, remote
<1>5. Logs' /\ Standing' /\ InOrder'
    BY <1>2, <1>3, LogsKept, TextsKept DEF IInv, Standing, remote
<1> QED BY <1>4, <1>5 DEF IInv

LEMMA OnLongMessageStep ==
    ASSUME IInv, NEW x \in Texts, OnLongMessage(x)
    PROVE  IInv'
<1>1. /\ call = NoCall /\ sent[x] = <<>>
      /\ UNCHANGED <<now, state, touched, attempts, call, status, active, remote, flows, groupFlows>>
    BY DEF OnLongMessage
<1>2. /\ pending' \in [Texts -> 0..MaxTime + 1]
      /\ \A y \in Texts : y = x \/ pending'[y] \in {pending[y], 0}
    BY BoundsAssumption DEF OnLongMessage, IInv, Clock, InOrder
<1>3. Clock' /\ Flow' /\ Guesses' /\ Answer' /\ Paid'
    BY <1>1 DEF IInv, Clock, Flow, Guesses, Answer, Paid, OwnGroupOnly, GroupSteps, remote
<1>4. Logs' /\ Standing'
    BY <1>1, LogsKept DEF IInv, Standing, remote
<1>5. InOrder'
    BY <1>1, <1>2, NoCallIs DEF IInv, InOrder, Text, remote
<1> QED BY <1>3, <1>4, <1>5 DEF IInv

LEMMA TapSplitStep ==
    ASSUME IInv, NEW x \in Texts, TapSplit(x)
    PROVE  IInv'
<1>1. call' = [NoCall EXCEPT !.kind = "split", !.text = x]
    BY DEF TapSplit
<1>2. /\ pending[x] # 0 /\ pending' = [pending EXCEPT ![x] = 0]
      /\ UNCHANGED <<now, state, touched, attempts, status, active, remote, flows, groupFlows>>
    BY DEF TapSplit
<1>3. call' \in Call /\ call'.kind = "split" /\ call'.text = x
    BY <1>1, TextCall DEF CallKinds
<1>4. Clock' /\ Flow' /\ Guesses' /\ Answer' /\ Paid'
    BY <1>2, <1>3, CallKeeps DEF IInv, Paid, remote
<1>5. Logs' /\ Standing'
    BY <1>2, LogsKept DEF IInv, Standing, remote
<1>6. InOrder'
  <2>1. pending' \in [Texts -> 0..MaxTime + 1] /\ sent' = sent
      BY <1>2, BoundsAssumption DEF IInv, InOrder, remote
  <2>2. sent[x] = <<>> /\ Len(sent[x]) = 0 /\ Parts \in Nat \ {0}
      BY <1>2, NoAttempts, BoundsAssumption DEF IInv, InOrder, Text
  <2>3. ASSUME NEW y \in Texts PROVE Text(y)'
    <3>1. CASE y = x
        BY <1>2, <2>1, <2>2, <3>1 DEF IInv, InOrder, Text
    <3>2. CASE y # x
        BY <1>2, <1>3, <2>1, <3>2 DEF IInv, InOrder, Text
    <3> QED BY <3>1, <3>2
  <2> QED BY <2>1, <2>3 DEF IInv, InOrder
<1> QED BY <1>4, <1>5, <1>6 DEF IInv

LEMMA Remainder ==
    ASSUME NEW p \in Nat \ {0}
    PROVE  p % p = 0 /\ \A n \in 0..p - 1 : n % p = n
  OBVIOUS

\* The next part of a text.
LEMMA SendPartStep ==
    ASSUME IInv, SendPart
    PROVE  IInv'
<1> DEFINE x == call.text
           n == Len(sent[x])
           q == Append(sent[x], (n % Parts) + 1)
<1>1. /\ call.kind = "split" /\ sent' = [sent EXCEPT ![x] = q]
      /\ call' = IF Len(sent'[x]) % Parts = 0 THEN NoCall ELSE call
      /\ UNCHANGED <<now, state, touched, attempts, pending, status, active, asked, guessed, created,
                     flows, groupFlows>>
    BY DEF SendPart
<1>2. x \in Texts /\ call \in Call
    BY <1>1 DEF IInv, Answer
<1>3. /\ sent[x] \in Seq(Nat) /\ pending[x] = 0 /\ n < Parts /\ Parts \in Nat \ {0}
      /\ \A i \in 1..n : sent[x][i] = i
    BY <1>1, <1>2, BoundsAssumption DEF IInv, InOrder, Text
<1>4. n \in Nat /\ n % Parts = n
  <2>1. n \in Nat
      BY <1>3, LenProperties
  <2> HIDE DEF n
  <2>2. n \in 0..Parts - 1
      BY <1>3, <2>1
  <2> QED BY <1>3, <2>1, <2>2, Remainder
<1>5. /\ q \in Seq(Nat) /\ Len(q) = n + 1 /\ q[n + 1] = n + 1
      /\ \A i \in 1..n : q[i] = sent[x][i]
  <2>1. q = Append(sent[x], n + 1) /\ n + 1 \in Nat
      BY <1>4
  <2>2. LET v == Append(sent[x], n + 1)
        IN  /\ v \in Seq(Nat) /\ Len(v) = n + 1 /\ v[n + 1] = n + 1
            /\ \A i \in 1..n : v[i] = sent[x][i]
      BY <1>3, <2>1, AppendProperties
  <2> QED BY <2>1, <2>2
<1> HIDE DEF q, n
<1>6. sent' \in [Texts -> Seq(Nat)] /\ sent'[x] = q
    BY <1>1, <1>2, <1>5 DEF IInv, InOrder
<1>7. call' \in {NoCall, call} /\ (call' = call => n + 1 < Parts)
  <2>1. call' = IF (n + 1) % Parts = 0 THEN NoCall ELSE call
      BY <1>1, <1>5, <1>6
  <2>2. CASE n + 1 = Parts
    <3>1. (n + 1) % Parts = 0
        BY <1>3, <2>2, Remainder
    <3> QED BY <1>1, <2>1, <3>1, NoCallIs
  <2>3. CASE n + 1 # Parts
    <3>1. n + 1 < Parts
        BY <1>3, <1>4, <2>3
    <3> QED BY <2>1, <3>1
  <2> QED BY <2>2, <2>3
<1>8. Clock' /\ Flow' /\ Guesses' /\ Answer' /\ Paid'
  <2>1. /\ call' \in Call /\ call'.kind \in {"none", "split"}
        /\ call'.kind = "split" => call'.text \in Texts
      BY <1>1, <1>2, <1>7, NoCallIs
  <2> QED BY <1>1, <2>1, CallKeeps DEF IInv, Paid
<1>9. Logs' /\ Standing'
    BY <1>1, LogsKept DEF IInv, Standing
<1>10. InOrder'
  <2>1. ASSUME NEW y \in Texts PROVE Text(y)'
    <3>1. CASE y = x
      <4>1. \A i \in 1..Len(q) : q[i] = i
        <5>1. \A i \in 1..Len(q) : i \in 1..n \/ i = n + 1
            BY <1>4, <1>5
        <5> QED BY <1>3, <1>5, <5>1
      <4>2. Len(q) <= Parts /\ (call'.kind = "split" => Len(q) < Parts)
          BY <1>3, <1>4, <1>5, <1>7, NoCallIs
      <4>3. pending'[y] = 0 /\ sent'[y] = q
          BY <1>1, <1>3, <1>6, <3>1
      <4> QED BY <4>1, <4>2, <4>3 DEF Text
    <3>2. CASE y # x
      <4>1. sent'[y] = sent[y] /\ pending'[y] = pending[y]
          BY <1>1, <3>2 DEF IInv, InOrder
      <4>2. call'.kind = "split" => call'.text # y
          BY <1>7, <3>2, NoCallIs
      <4> QED BY <4>1, <4>2 DEF IInv, InOrder, Text
    <3> QED BY <3>1, <3>2
  <2> QED BY <1>1, <1>6, <2>1 DEF IInv, InOrder
<1> QED BY <1>8, <1>9, <1>10 DEF IInv

\* The Mini App, whose requests are counted with those of the chat.
LEMMA MiniStep ==
    ASSUME IInv, MiniStart \/ MiniVerify
    PROVE  IInv'
<1>1. UNCHANGED <<now, state, touched, pending, call, guessed, sent, created, flows, groupFlows>>
    BY DEF MiniStart, MiniVerify
<1>2. "start" \in Steps /\ "verify" \in Steps
    BY DEF Steps
<1>3. Logs'
  <2>1. CASE MiniStart
    <3>1. CASE Allowed("start")
        BY <1>1, <1>2, <2>1, <3>1, LogsCounted DEF IInv, MiniStart
    <3>2. CASE ~Allowed("start")
        BY <1>1, <1>2, <2>1, <3>2, LogsRefused DEF IInv, MiniStart
    <3> QED BY <3>1, <3>2
  <2>2. CASE MiniVerify
      BY <1>1, <1>2, <2>2, LogsCounted DEF IInv, MiniVerify
  <2> QED BY <2>1, <2>2
<1>4. Standing'
    BY ConnectStands DEF IInv, Standing, MiniStart, MiniVerify
<1>5. InOrder'
    BY <1>1, TextsKept DEF IInv
<1>6. Clock' /\ Flow' /\ Guesses' /\ Answer' /\ Paid'
    BY <1>1 DEF IInv, Clock, Flow, Guesses, Answer, Paid, OwnGroupOnly, GroupSteps
<1> QED BY <1>3, <1>4, <1>5, <1>6 DEF IInv

LEMMA StandingStep ==
    ASSUME IInv, Disconnect \/ (\E a \in Accounts : Switch(a) \/ Expire(a))
    PROVE  IInv'
<1>1. UNCHANGED <<memory, now, remote, flows, groupFlows>>
    BY DEF Disconnect, Switch, Expire
<1>2. Standing'
    BY DEF IInv, Standing, Disconnect, Switch, Expire, Chosen, Connected
<1>3. Logs' /\ InOrder'
    BY <1>1, LogsKept, TextsKept DEF IInv, memory, remote
<1>4. Clock' /\ Flow' /\ Guesses' /\ Answer' /\ Paid'
    BY <1>1 DEF IInv, Clock, Flow, Guesses, Answer, Paid, OwnGroupOnly, GroupSteps, memory, remote
<1> QED BY <1>2, <1>3, <1>4 DEF IInv

LEMMA TickStep ==
    ASSUME IInv, Tick
    PROVE  IInv'
<1>1. /\ now < MaxTime /\ now' = now + 1
      /\ UNCHANGED <<memory, status, active, guessed, sent, created, flows, groupFlows>>
    BY DEF Tick
<1>2. Logs' /\ InOrder'
    BY <1>1, LogsTicked, TextsKept DEF IInv, memory
<1>3. Clock' /\ Standing'
    BY <1>1, BoundsAssumption DEF IInv, Clock, Standing, memory
<1>4. Flow' /\ Guesses' /\ Answer' /\ Paid'
    BY <1>1 DEF IInv, Flow, Guesses, Answer, Paid, OwnGroupOnly, GroupSteps, memory
<1> QED BY <1>2, <1>3, <1>4 DEF IInv

LEMMA StutterStep ==
    ASSUME IInv, UNCHANGED vars
    PROVE  IInv'
<1>1. Logs' /\ InOrder'
    BY LogsKept, TextsKept DEF IInv, vars
<1>2. Clock' /\ Standing' /\ Flow' /\ Guesses' /\ Answer' /\ Paid'
    BY DEF IInv, Clock, Standing, Flow, Guesses, Answer, Paid, OwnGroupOnly, GroupSteps, vars
<1> QED BY <1>1, <1>2 DEF IInv

LEMMA NextKeeps == IInv /\ [Next]_vars => IInv'
<1> SUFFICES ASSUME IInv, [Next]_vars PROVE IInv'
    OBVIOUS
<1>1. CASE Enters
    BY <1>1, EntersStep
<1>2. CASE Cancel \/ Expired
    BY <1>2, CancelStep
<1>3. CASE Rejected
    BY <1>3, RejectedStep
<1>4. CASE SignIn
    BY <1>4, OnwardStep, OnNameStep, StartedStep, OnCodeStep, WrongCodeStep, VerifiedStep DEF SignIn
<1>5. CASE Groups
    BY <1>5, OnwardStep, OnGroupPhonesStep, AnsweredStep, OnGroupInputStep DEF Groups
<1>6. CASE Sends
    BY <1>6, SendPartStep, AnsweredStep, OnMessageStep, OnLongMessageStep, TapSplitStep DEF Sends
<1>7. CASE Others
    BY <1>7, MiniStep, StandingStep, TickStep, RestartStep DEF Others
<1>8. CASE UNCHANGED vars
    BY <1>8, StutterStep
<1> QED BY <1>1, <1>2, <1>3, <1>4, <1>5, <1>6, <1>7, <1>8 DEF Next

LEMMA Invariant == Spec => []IInv
  BY InitHolds, NextKeeps, PTL DEF Spec

-----------------------------------------------------------------------------
(* Theorems *)

LEMMA IInvTyped == IInv => TypeOK
<1> SUFFICES ASSUME IInv PROVE TypeOK
    OBVIOUS
<1>1. ASSUME NEW s \in Steps
      PROVE  /\ Len(attempts[s]) <= Limit[s]
             /\ \A i \in DOMAIN attempts[s] : attempts[s][i] \in 0..now
  <2>1. /\ attempts[s] \in Seq(Nat) /\ Len(attempts[s]) <= Limit[s]
        /\ \A i \in 1..Len(attempts[s]) : attempts[s][i] <= now
      BY DEF IInv, Logs, Log
  <2>2. DOMAIN attempts[s] = 1..Len(attempts[s]) /\ \A i \in 1..Len(attempts[s]) : attempts[s][i] \in Nat
      BY <2>1, LenProperties, ElementOfSeq
  <2> QED BY <2>1, <2>2 DEF IInv, Clock
<1>2. DOMAIN attempts = Steps
    BY DEF IInv, Logs
<1> QED BY <1>1, <1>2 DEF IInv, TypeOK, Clock, Standing, Flow, Guesses, Answer, Paid, InOrder

\* allow_auth and touch_dialogue: however chat, Mini App, time and restarts alternate, the
\* server sees no more requests of a kind in any window than the limit, and no more guesses at
\* a challenge than MaxFailures, for any limit, window and number of failures.
THEOREM RequestsStayLimited == Spec => []SignInIsLimited
<1>1. IInv => SignInIsLimited
  <2> SUFFICES ASSUME IInv PROVE SignInIsLimited
      OBVIOUS
  <2>1. \A s \in Steps : Len(asked[s]) <= Limit[s]
      BY Window DEF IInv
  <2>2. guessed <= MaxFailures
      BY DEF IInv, Guesses
  <2> QED BY <2>1, <2>2, IInvTyped DEF SignInIsLimited
<1> QED BY <1>1, Invariant, PTL

\* on_group_phones ends the flow before it asks, and split takes the text before it sends: a
\* flow makes one group at most, and the parts of a text go out in order and once, for any
\* number of flows and texts and any number of parts.
THEOREM WishesAreDoneOnce == Spec => []DoneOnce
<1>1. IInv => DoneOnce
  <2> SUFFICES ASSUME IInv PROVE DoneOnce
      OBVIOUS
  <2>1. ASSUME NEW x \in Texts, NEW i \in DOMAIN sent[x] PROVE sent[x][i] = i
      BY LenProperties DEF IInv, InOrder, Text
  <2> QED BY <2>1 DEF IInv, Paid, DoneOnce
<1> QED BY <1>1, Invariant, PTL

\* conv_for and the topic lookup of on_message: a request about a group, and a post, are made
\* by the account that owns the group, whichever account was active before or is now.
THEOREM GroupsOfTheAccount == Spec => []OwnGroupOnly
<1>1. IInv => OwnGroupOnly
    BY DEF IInv, Answer
<1> QED BY <1>1, Invariant, PTL

\* A step that moves a flow is of a handler that found the flow fresh, or leaves the chat's
\* activity as it was, or ends it, or begins another flow.
LEMMA MovesAre ==
    ASSUME IInv, [Next]_vars
    PROVE  \/ Fresh
           \/ touched' = touched \/ touched' = 0 \/ state' = state
           \/ flows' = flows + 1
<1>1. CASE Enters
    BY <1>1 DEF Enters, Begin, NewGroup, BeginButton, AskFor, Enter
<1>2. CASE Cancel \/ Expired \/ Rejected
    BY <1>2 DEF Cancel, Expired, Rejected, Clear
<1>3. CASE SignIn
    BY <1>3 DEF SignIn, OnPhone, OnName, Started, OnCode, WrongCode, Verified
<1>4. CASE Groups
    BY <1>4 DEF Groups, TapCategory, OnGroupName, OnGroupPhones, Created, OnGroupInput, GroupAnswered
<1>5. CASE Sends
    BY <1>5 DEF Sends, SendPart, SendFails, OnMessage, OnLongMessage, TapSplit
<1>6. CASE Others
    BY <1>6 DEF Others, MiniStart, MiniVerify, Disconnect, Tick, Restart, Switch, Expire, Clear, memory
<1>7. CASE UNCHANGED vars
    BY <1>7 DEF vars
<1> QED BY <1>1, <1>2, <1>3, <1>4, <1>5, <1>6, <1>7 DEF Next

\* touch_dialogue: although it counts a missing entry as fresh, no message moves a flow that
\* nobody touched for the time to live, for any time to live.
THEOREM StaleFlowsStay == Spec => StaleNeverResumes
<1> DEFINE Moves == touched' = now + 1 /\ state.kind \in Awaits /\ flows' = flows /\ state' # state
                    => touched # 0 /\ now < touched - 1 + TTL
<1>1. IInv /\ [Next]_vars => [Moves]_vars
  <2> SUFFICES ASSUME IInv, [Next]_vars, touched' = now + 1, state.kind \in Awaits,
                      flows' = flows, state' # state
               PROVE  touched # 0 /\ now < touched - 1 + TTL
      OBVIOUS
  <2>1. /\ now \in Nat /\ touched \in Nat /\ flows \in Nat /\ TTL \in Nat \ {0}
        /\ touched # 0
      BY BoundsAssumption DEF IInv, Clock, Flow, Paid, Awaits
  <2>2. Fresh \/ touched' = touched
      BY <2>1, MovesAre
  <2>3. CASE Fresh
      BY <2>1, <2>3 DEF Fresh
  <2>4. CASE touched' = touched
      BY <2>1, <2>4
  <2> QED BY <2>2, <2>3, <2>4
<1>2. Spec => [][Moves]_vars
    BY <1>1, Invariant, PTL DEF Spec
<1> QED BY <1>2 DEF StaleNeverResumes

\* App::connect with the dialogue's `add`: a sign-in begun to add an account leaves every
\* connected account connected, also after wrong codes.
THEOREM AddedAccountsReplaceNone == Spec => ReplaceIsAsked
<1> DEFINE Adds == call.kind = "verify" /\ call' = NoCall /\ state.wanted
                   => \A a \in Accounts : status[a] = "connected" => status'[a] = "connected"
<1>1. IInv /\ [Next]_vars => [Adds]_vars
  <2> SUFFICES ASSUME IInv, [Next]_vars, call.kind = "verify", call' = NoCall, state.wanted,
                      NEW a \in Accounts, status[a] = "connected"
               PROVE  status'[a] = "connected"
      OBVIOUS
  <2>1. call # NoCall /\ state.add
      BY NoCallIs DEF IInv, Flow
  <2>2. CASE Verified
    <3>1. UNCHANGED status \/ \E b \in Accounts : Connect(b, state.add)
        BY <2>2 DEF Verified
    <3> QED BY <2>1, <3>1 DEF Connect
  <2>3. CASE WrongCode \/ Restart
      BY <2>3 DEF WrongCode, Restart
  <2>4. CASE Enters \/ Cancel \/ Expired \/ Rejected
      BY <2>1, <2>4
         DEF Enters, Begin, NewGroup, BeginButton, AskFor, Cancel, Expired, Rejected
  <2>5. CASE OnPhone \/ OnName \/ Started \/ OnCode
      BY <2>1, <2>5 DEF OnPhone, OnName, Started, OnCode, Waiting
  <2>6. CASE Groups
      BY <2>1, <2>6 DEF Groups, TapCategory, OnGroupName, OnGroupPhones, Created, OnGroupInput,
                        GroupAnswered, Waiting
  <2>7. CASE Sends
      BY <2>1, <2>7 DEF Sends, SendPart, SendFails, OnMessage, OnLongMessage, TapSplit
  <2>8. CASE MiniStart \/ MiniVerify \/ Disconnect \/ Tick
      BY <2>1, <2>8 DEF MiniStart, MiniVerify, Disconnect, Tick, memory
  <2>9. CASE \E b \in Accounts : Switch(b) \/ Expire(b)
      BY <2>1, <2>9 DEF Switch, Expire, memory
  <2>10. CASE UNCHANGED vars
      BY <2>1, <2>10 DEF vars
  <2> QED BY <2>2, <2>3, <2>4, <2>5, <2>6, <2>7, <2>8, <2>9, <2>10 DEF Next, SignIn, Others
<1>2. Spec => [][Adds]_vars
    BY <1>1, Invariant, PTL DEF Spec
<1> QED BY <1>2 DEF ReplaceIsAsked
=============================================================================
