------------------------- MODULE UpsfSubscriberProofs -------------------------
(***************************************************************************)
(* Proofs about UpsfSubscriber, for any items, notify methods and number   *)
(* of changes.                                                             *)
(***************************************************************************)
EXTENDS UpsfSubscriber, FunctionTheorems, FiniteSetTheorems, SequenceTheorems,
        WellFoundedInduction, NaturalsInduction, TLAPS

-----------------------------------------------------------------------------
(* Numbers and sequences.                                                  *)

(* < is well-founded on Nat, with the relation as a set of pairs.          *)
LEMMA LessOnNat ==
    \E R : IsWellFoundedOn(R, Nat) /\ \A x, y \in Nat : x < y => <<x, y>> \in R
<1>1. \A x, y \in Nat : x < y => <<x, y>> \in OpToRel(<, Nat)
  BY DEF OpToRel
<1> QED
  BY <1>1, NatLessThanWellFounded

LEMMA Least ==
    ASSUME NEW T, T \subseteq Nat, T # {}
    PROVE  \E x \in T : \A y \in T : x <= y
<1>1. PICK R : IsWellFoundedOn(R, Nat) /\ \A x, y \in Nat : x < y => <<x, y>> \in R
  BY LessOnNat
<1>2. PICK x \in T : \A y \in T : ~ (<<y, x>> \in R)
  <2>1. IsWellFoundedOn(R, Nat)
    BY <1>1
  <2> QED
    BY <2>1, WFMin, Zenon
<1>3. ASSUME NEW y \in T, y < x
      PROVE  FALSE
  <2>1. <<y, x>> \in R
    BY <1>1, <1>3
  <2> QED
    BY <1>2, <2>1
<1> QED
  BY <1>3

LEMMA Greatest ==
    ASSUME NEW n \in Nat, NEW T, T \subseteq 1..n, T # {}
    PROVE  Max(T) \in T /\ \A y \in T : y <= Max(T)
<1> DEFINE U == {k \in Nat : \E x \in T : x + k = n}
<1>1. PICK k \in U : \A j \in U : k <= j
  <2>1. U # {}
    <3>1. PICK x \in T : TRUE
      OBVIOUS
    <3>2. n - x \in U
      BY <3>1
    <3> QED
      BY <3>2
  <2>2. U \subseteq Nat
    OBVIOUS
  <2> HIDE DEF U
  <2> QED
    BY <2>1, <2>2, Least
<1>2. PICK x \in T : x + k = n
  OBVIOUS
<1>3. ASSUME NEW y \in T
      PROVE  y <= x
  <2>1. n - y \in U
    OBVIOUS
  <2> QED
    BY <1>1, <1>2, <2>1
<1>4. \E z \in T : \A y \in T : z >= y
  BY <1>3
<1> QED
  BY <1>4 DEF Max

(* A sequence of all elements of a finite set has each of them.            *)
LEMMA AllElements ==
    ASSUME NEW S, IsFiniteSet(S), NEW s \in SetToSeqs(S)
    PROVE  /\ s \in Seq(S) /\ Len(s) \in Nat /\ DOMAIN s = 1..Len(s)
           /\ \A x \in S : \E i \in DOMAIN s : s[i] = x
           /\ \A i, j \in DOMAIN s : s[i] = s[j] => i = j
<1> DEFINE n == Cardinality(S)
<1>1. n \in Nat
  BY FS_CardinalityType
<1>2. s \in [1..n -> S] /\ \A i, j \in 1..n : i # j => s[i] # s[j]
  BY DEF SetToSeqs
<1>3. s \in Seq(S) /\ Len(s) = n /\ DOMAIN s = 1..n
  BY <1>1, <1>2
<1>4. s \in Injection(1..n, S)
  BY <1>2 DEF Injection, IsInjective
<1>5. IsFiniteSet(1..n) /\ Cardinality(1..n) = n
  BY <1>1, FS_Interval
<1>6. s \in Surjection(1..n, S)
  BY <1>4, <1>5, FS_Injection
<1> QED
  BY <1>1, <1>2, <1>3, <1>6 DEF Surjection

(* The items of a server are finitely many.                                *)
LEMMA FiniteItems ==
    ASSUME NEW M \in SUBSET Names
    PROVE  IsFiniteSet({db[n] : n \in M})
<1> DEFINE f == [n \in M |-> db[n]]
<1>1. IsFiniteSet(M)
  BY SubscriberAssumption, FS_Subset
<1>2. f \in Surjection(M, {db[n] : n \in M})
  BY DEF Surjection
<1> QED
  BY <1>1, <1>2, FS_Surjection

-----------------------------------------------------------------------------
(* Steps that hand nothing over and read nothing.                          *)
LEMMA SameReading ==
    ASSUME NoneSkipped, UNCHANGED <<sent, wire, notified>>,
           stream' # "error" => stream # "error"
    PROVE  NoneSkipped'
<1>1. PICK k \in 0..Len(sent) : ReadUpTo(k) /\ NotifiedUpTo(k)
  BY DEF NoneSkipped
<1>2. ReadUpTo(k)'
  BY <1>1 DEF ReadUpTo
<1>3. NotifiedUpTo(k)'
  BY <1>1 DEF NotifiedUpTo
<1> QED
  BY <1>2, <1>3 DEF NoneSkipped

(* Before anything is sent nothing has been handed over.                   *)
LEMMA NothingNotified ==
    ASSUME notified = <<>>
    PROVE  NotifiedUpTo(0)
<1> DEFINE at == [i \in DOMAIN notified |-> i]
<1>1. DOMAIN notified = {} /\ 1..0 = {}
  OBVIOUS
<1>2. at \in [DOMAIN notified -> 1..0]
  BY <1>1
<1> HIDE DEF at
<1> QED
  BY <1>1, <1>2 DEF NotifiedUpTo

LEMMA SubscriberInit == Init => SubscriberInv
<1> SUFFICES ASSUME Init  PROVE SubscriberInv
  OBVIOUS
<1> USE DEF Init
<1>1. TypeOK
  <2>1. db \in [Names -> Items \cup {None}]
    OBVIOUS
  <2>2. {wire, notified, sent} \subseteq Seq(Items)
    OBVIOUS
  <2>3. {watched, finished, watch} \subseteq BOOLEAN
    BY SubscriberAssumption
  <2>4. changes \in 0..MaxChanges
    BY SubscriberAssumption
  <2> QED
    BY <2>1, <2>2, <2>3, <2>4 DEF TypeOK
<1>2. NamesFit /\ NothingYet /\ ReadAll /\ SentAsIs /\ SentLast
  BY DEF NamesFit, NothingYet, ReadAll, SentAsIs, SentLast
<1>4. FlagKept /\ OneReader
  <2>1. watch => TRUE \in Watch
    BY SubscriberAssumption
  <2> QED
    BY <2>1 DEF FlagKept, OneReader
<1>3. NoneSkipped
  <2>1. ReadUpTo(0)
    BY DEF ReadUpTo
  <2>2. NotifiedUpTo(0)
    BY NothingNotified
  <2> QED
    BY <2>1, <2>2 DEF NoneSkipped
<1> QED
  BY <1>1, <1>2, <1>3, <1>4 DEF SubscriberInv

LEMMA BuildRequestStep ==
    ASSUME SubscriberInv, BuildRequest
    PROVE  SubscriberInv'
<1> USE DEF SubscriberInv, BuildRequest, serverVars
<1>1. TypeOK'
  BY DEF TypeOK
<1>2. NamesFit' /\ NothingYet' /\ ReadAll' /\ FlagKept' /\ OneReader' /\ SentAsIs' /\ SentLast'
  BY DEF NamesFit, NothingYet, ReadAll, FlagKept, OneReader, SentAsIs, SentLast, Matches
<1>3. NoneSkipped'
  BY SameReading
<1> QED
  BY <1>1, <1>2, <1>3

LEMMA OpenStreamStep ==
    ASSUME SubscriberInv, OpenStream
    PROVE  SubscriberInv'
<1> DEFINE M == {m \in Names : db[m] # None /\ Matches(db[m])}
           S == {db[m] : m \in M}
<1>1. /\ pc = "open" /\ pc' = "read" /\ stream' = "open" /\ watched' = watch
      /\ UNCHANGED <<db, changes, finished, watch, notified>>
  BY DEF OpenStream
<1>2. PICK s \in SetToSeqs(S) : wire' = s /\ sent' = s
  BY DEF OpenStream
<1>3. /\ s \in Seq(S) /\ Len(s) \in Nat /\ DOMAIN s = 1..Len(s)
      /\ \A x \in S : \E i \in DOMAIN s : s[i] = x
      /\ \A i, j \in DOMAIN s : s[i] = s[j] => i = j
  <2>1. IsFiniteSet(S)
    BY FiniteItems
  <2> HIDE DEF S
  <2> QED
    BY <2>1, AllElements
<1>4. S \subseteq Items
  BY DEF SubscriberInv, TypeOK
<1>5. notified = <<>>
  BY <1>1 DEF SubscriberInv, NothingYet
<1>6. TypeOK'
  <2> HIDE DEF S
  <2> QED
    BY <1>1, <1>2, <1>3, <1>4 DEF SubscriberInv, TypeOK
<1>7. NamesFit' /\ NothingYet' /\ ReadAll' /\ FlagKept' /\ OneReader'
  BY <1>1 DEF SubscriberInv, NamesFit, NothingYet, ReadAll, FlagKept, OneReader
<1>8. SentAsIs'
  <2>1. SUFFICES ASSUME NEW n \in Names, db[n] # None
                 PROVE  /\ \A i \in DOMAIN s : s[i].name = n => s[i] = db[n]
                        /\ Matches(db[n]) => \E i \in DOMAIN s : s[i] = db[n]
    BY <1>1, <1>2 DEF SentAsIs, Matches
  <2>2. ASSUME NEW i \in DOMAIN s, s[i].name = n
        PROVE  s[i] = db[n]
    <3>1. s[i] \in S
      <4> HIDE DEF S
      <4> QED
        BY <1>3
    <3>2. PICK m \in M : s[i] = db[m]
      BY <3>1
    <3> QED
      BY <2>2, <3>2 DEF SubscriberInv, NamesFit
  <2>3. ASSUME Matches(db[n])
        PROVE  db[n] \in S
    BY <2>1, <2>3
  <2> HIDE DEF S
  <2> QED
    BY <1>3, <2>2, <2>3
<1>9. SentLast'
  <2>1. SUFFICES ASSUME NEW n \in Names, db[n] # None, Matches(db[n])
                 PROVE  \E i \in DOMAIN s : /\ s[i] = db[n]
                                          /\ \A j \in DOMAIN s : s[j].name = n => j <= i
    BY <1>1, <1>2 DEF SentLast, Matches
  <2>2. db[n] \in S
    BY <2>1
  <2>3. \A x \in S : x.name = n => x = db[n]
    BY DEF SubscriberInv, NamesFit
  <2> HIDE DEF S
  <2>4. PICK i \in DOMAIN s : s[i] = db[n]
    BY <1>3, <2>2
  <2>5. ASSUME NEW j \in DOMAIN s, s[j].name = n
        PROVE  j <= i
    <3>1. s[j] = db[n]
      BY <1>3, <2>3, <2>5
    <3>2. j = i
      BY <1>3, <2>4, <3>1
    <3> QED
      BY <1>3, <3>2
  <2> QED
    BY <2>4, <2>5
<1>10. NoneSkipped'
  <2> HIDE DEF S
  <2>1. ReadUpTo(0)'
    BY <1>1, <1>2, <1>3 DEF ReadUpTo
  <2>2. NotifiedUpTo(0)'
    <3>1. NotifiedUpTo(0)
      BY <1>5, NothingNotified
    <3>2. DOMAIN notified = {} /\ DOMAIN notified' = {} /\ 1..0 = {}
      BY <1>1, <1>5
    <3> QED
      BY <3>1, <3>2 DEF NotifiedUpTo
  <2> QED
    BY <1>2, <1>3, <2>1, <2>2 DEF NoneSkipped
<1> QED
  BY <1>6, <1>7, <1>8, <1>9, <1>10 DEF SubscriberInv

(* The item handed over is the next one sent.                              *)
LEMMA NotifyStep ==
    ASSUME SubscriberInv, Notify
    PROVE  SubscriberInv'
<1>1. /\ pc = "read" /\ wire # <<>> /\ wire' = Tail(wire)
      /\ UNCHANGED <<db, changes, stream, watched, sent, pc, finished>>
      /\ notified' = IF Head(wire).type \in Callbacks THEN Append(notified, Head(wire))
                     ELSE notified
      /\ watch' # watch => SetsWatch /\ notified' = Append(notified, Head(wire))
      /\ watch' \in BOOLEAN
  BY DEF Notify, serverVars, SubscriberInv, TypeOK
<1>2. wire \in Seq(Items) /\ notified \in Seq(Items) /\ sent \in Seq(Items)
  BY DEF SubscriberInv, TypeOK
<1>3. TypeOK'
  <2>1. wire' \in Seq(Items) /\ notified' \in Seq(Items)
    BY <1>1, <1>2
  <2> QED
    BY <1>1, <2>1 DEF SubscriberInv, TypeOK
<1>4. NamesFit' /\ NothingYet' /\ ReadAll' /\ SentAsIs' /\ SentLast'
  <2>1. NamesFit' /\ NothingYet' /\ ReadAll'
    BY <1>1 DEF SubscriberInv, NamesFit, NothingYet, ReadAll
  <2>2. SentAsIs'
    BY <1>1 DEF SubscriberInv, SentAsIs, Matches
  <2>3. SentLast'
    BY <1>1 DEF SubscriberInv, SentLast, Matches
  <2> QED
    BY <2>1, <2>2, <2>3
<1>5. FlagKept' /\ OneReader'
  <2>1. notified' = <<>> => notified = <<>>
    BY <1>1, <1>2
  <2>2. watch' # watch => notified' # <<>>
    <3>1. Head(wire) \in Items
      BY <1>1, <1>2
    <3>2. Append(notified, Head(wire)) # <<>>
      BY <1>2, <3>1
    <3> QED
      BY <1>1, <3>2
  <2>3. FlagKept'
    BY <1>1, <2>1, <2>2 DEF SubscriberInv, FlagKept
  <2>4. ~ finished
    BY <1>1 DEF SubscriberInv, OneReader
  <2> QED
    BY <1>1, <2>3, <2>4 DEF SubscriberInv, OneReader
<1>6. NoneSkipped'
  <2>1. PICK k \in 0..Len(sent) : ReadUpTo(k) /\ NotifiedUpTo(k)
    BY DEF SubscriberInv, NoneSkipped
  <2>2. /\ k \in Nat /\ k + 1 \in 0..Len(sent)
        /\ Head(wire) = sent[k + 1]
        /\ Len(wire') = Len(wire) - 1 /\ DOMAIN wire' = 1..Len(wire')
        /\ \A i \in DOMAIN wire' : wire'[i] = wire[i + 1] /\ i + 1 \in DOMAIN wire
    BY <1>1, <1>2, <2>1 DEF ReadUpTo
  <2>3. ReadUpTo(k + 1)'
    <3>1. \A i \in DOMAIN wire' : wire'[i] = sent[k + (i + 1)] /\ i \in Nat
      BY <1>2, <2>1, <2>2 DEF ReadUpTo
    <3>2. \A i \in DOMAIN wire' : wire'[i] = sent[(k + 1) + i]
      BY <2>2, <3>1
    <3> QED
      BY <1>1, <1>2, <2>1, <2>2, <3>2 DEF ReadUpTo
  <2>4. NotifiedUpTo(k + 1)'
    <3> DEFINE m == Len(notified)
    <3>1. PICK at \in [DOMAIN notified -> 1..k] :
              /\ \A i, j \in DOMAIN notified : i < j => at[i] < at[j]
              /\ \A i \in DOMAIN notified : notified[i] = sent[at[i]]
              /\ \A j \in 1..k :
                     sent[j].type \in Callbacks <=> \E i \in DOMAIN notified : at[i] = j
      BY <2>1 DEF NotifiedUpTo
    <3>2. DOMAIN notified = 1..m /\ m \in Nat
      BY <1>2
    <3>3. CASE sent[k + 1].type \in Callbacks
      <4> DEFINE to == [i \in 1..(m + 1) |-> IF i = m + 1 THEN k + 1 ELSE at[i]]
      <4>1. /\ DOMAIN notified' = 1..(m + 1)
            /\ \A i \in 1..m : notified'[i] = notified[i]
            /\ notified'[m + 1] = sent[k + 1]
        BY <1>1, <1>2, <2>2, <3>3
      <4>2. to \in [1..(m + 1) -> 1..(k + 1)]
        BY <2>2, <3>1, <3>2
      <4>3. \A i, j \in 1..(m + 1) : i < j => to[i] < to[j]
        <5>1. SUFFICES ASSUME NEW i \in 1..(m + 1), NEW j \in 1..(m + 1), i < j
                       PROVE  to[i] < to[j]
          OBVIOUS
        <5>2. i \in 1..m /\ to[i] = at[i] /\ at[i] \in 1..k
          BY <3>1, <3>2, <5>1
        <5>3. CASE j = m + 1
          BY <2>2, <5>2, <5>3
        <5>4. CASE j \in 1..m
          <6>1. to[j] = at[j]
            BY <3>2, <5>4
          <6> QED
            BY <3>1, <3>2, <5>1, <5>2, <5>4, <6>1
        <5> QED
          BY <3>2, <5>3, <5>4
      <4>4. \A i \in 1..(m + 1) : notified'[i] = sent[to[i]]
        BY <3>1, <3>2, <4>1
      <4>5. \A j \in 1..(k + 1) :
                sent[j].type \in Callbacks <=> \E i \in 1..(m + 1) : to[i] = j
        <5>1. ASSUME NEW j \in 1..k
              PROVE  sent[j].type \in Callbacks <=> \E i \in 1..(m + 1) : to[i] = j
          <6>1. sent[j].type \in Callbacks <=> \E i \in 1..m : at[i] = j
            BY <3>1, <3>2
          <6>2. to[m + 1] # j
            BY <2>2, <3>2
          <6>3. \A i \in 1..m : to[i] = at[i]
            BY <3>2
          <6>4. \A i \in 1..(m + 1) : i \in 1..m \/ i = m + 1
            BY <3>2
          <6>5. \A i \in 1..m : i \in 1..(m + 1)
            BY <3>2
          <6> HIDE DEF to
          <6> QED
            BY <6>1, <6>2, <6>3, <6>4, <6>5
        <5>2. to[m + 1] = k + 1 /\ m + 1 \in 1..(m + 1)
          BY <3>2
        <5>3. \A j \in 1..(k + 1) : j \in 1..k \/ j = k + 1
          BY <2>2
        <5> HIDE DEF to
        <5> QED
          BY <3>3, <5>1, <5>2, <5>3
      <4>6. /\ to \in [DOMAIN notified' -> 1..(k + 1)]
            /\ \A i, j \in DOMAIN notified' : i < j => to[i] < to[j]
            /\ \A i \in DOMAIN notified' : notified'[i] = sent'[to[i]]
            /\ \A j \in 1..(k + 1) :
                   sent'[j].type \in Callbacks <=> \E i \in DOMAIN notified' : to[i] = j
        <5> HIDE DEF to
        <5> QED
          BY <1>1, <4>1, <4>2, <4>3, <4>4, <4>5
      <4> HIDE DEF to
      <4> QED
        BY <4>6 DEF NotifiedUpTo
    <3>4. CASE sent[k + 1].type \notin Callbacks
      <4>1. notified' = notified
        BY <1>1, <2>2, <3>4
      <4>2. at \in [DOMAIN notified -> 1..(k + 1)]
        BY <2>2, <3>1
      <4>3. \A j \in 1..(k + 1) :
                sent[j].type \in Callbacks <=> \E i \in DOMAIN notified : at[i] = j
        <5>1. \A j \in 1..(k + 1) : j \in 1..k \/ j = k + 1
          BY <2>2
        <5>2. \A i \in DOMAIN notified : at[i] # k + 1
          BY <2>2, <3>1
        <5> QED
          BY <3>1, <3>4, <5>1, <5>2
      <4> QED
        BY <1>1, <3>1, <4>1, <4>2, <4>3 DEF NotifiedUpTo
    <3> QED
      BY <3>3, <3>4
  <2> QED
    BY <1>1, <2>2, <2>3, <2>4 DEF NoneSkipped
<1> QED
  BY <1>3, <1>4, <1>5, <1>6 DEF SubscriberInv

LEMMA ReadEndStep ==
    ASSUME SubscriberInv, ReadEnd
    PROVE  SubscriberInv'
<1> USE DEF SubscriberInv, ReadEnd, serverVars
<1>1. TypeOK'
  BY DEF TypeOK
<1>2. NamesFit' /\ NothingYet' /\ ReadAll' /\ FlagKept' /\ OneReader' /\ SentAsIs' /\ SentLast'
  BY DEF NamesFit, NothingYet, ReadAll, FlagKept, OneReader, SentAsIs, SentLast, Matches
<1>3. NoneSkipped'
  BY SameReading
<1> QED
  BY <1>1, <1>2, <1>3

LEMMA FinishStep ==
    ASSUME SubscriberInv, Finish
    PROVE  SubscriberInv'
<1> USE DEF SubscriberInv, Finish, serverVars
<1>1. TypeOK'
  BY DEF TypeOK
<1>2. NamesFit' /\ NothingYet' /\ ReadAll' /\ FlagKept' /\ OneReader' /\ SentAsIs' /\ SentLast'
  BY DEF NamesFit, NothingYet, ReadAll, FlagKept, OneReader, SentAsIs, SentLast, Matches
<1>3. NoneSkipped'
  BY SameReading
<1> QED
  BY <1>1, <1>2, <1>3

-----------------------------------------------------------------------------
(* The server.                                                             *)

(* A changed item goes behind those that were sent.                        *)
LEMMA ChangeStep ==
    ASSUME SubscriberInv, NEW n \in Names, Change(n)
    PROVE  SubscriberInv'
<1>1. /\ changes < MaxChanges /\ changes' = changes + 1
      /\ UNCHANGED <<stream, watched, pc, finished, watch, notified>>
  BY DEF Change
<1>2. PICK ty \in ItemTypes, st \in {"active", "updating", "deleted"} :
          LET it == [name |-> n, type |-> ty, state |-> st, version |-> changes + 1]
          IN /\ db' = [db EXCEPT ![n] = it]
             /\ IF stream = "open" /\ watched /\ Matches(it)
                THEN wire' = Append(wire, it) /\ sent' = Append(sent, it)
                ELSE UNCHANGED <<wire, sent>>
  BY DEF Change
<1> DEFINE it == [name |-> n, type |-> ty, state |-> st, version |-> changes + 1]
<1>3. /\ db \in [Names -> Items \cup {None}] /\ changes \in Nat
      /\ wire \in Seq(Items) /\ notified \in Seq(Items) /\ sent \in Seq(Items)
  BY SubscriberAssumption DEF SubscriberInv, TypeOK
<1>4. it \in Items /\ it.name = n /\ it.version # 0 /\ changes' \in 0..MaxChanges
  BY <1>1, <1>3, SubscriberAssumption DEF Items, DerivedStates
<1>5. /\ db' = [db EXCEPT ![n] = it]
      /\ IF stream = "open" /\ watched /\ Matches(it)
         THEN wire' = Append(wire, it) /\ sent' = Append(sent, it)
         ELSE UNCHANGED <<wire, sent>>
  BY <1>2
<1> HIDE DEF it
<1>6. db'[n] = it /\ \A m \in Names \ {n} : db'[m] = db[m]
  BY <1>3, <1>5
<1>7. TypeOK'
  <2>1. db' \in [Names -> Items \cup {None}]
    BY <1>3, <1>4, <1>5
  <2>2. wire' \in Seq(Items) /\ sent' \in Seq(Items)
    <3>1. Append(wire, it) \in Seq(Items) /\ Append(sent, it) \in Seq(Items)
      BY <1>3, <1>4
    <3> QED
      BY <1>3, <1>5, <3>1
  <2> QED
    BY <1>1, <1>4, <2>1, <2>2 DEF SubscriberInv, TypeOK
<1>8. NamesFit'
  BY <1>4, <1>6 DEF SubscriberInv, NamesFit
<1>9. CASE /\ stream = "open"
           /\ wire' = Append(wire, it) /\ sent' = Append(sent, it)
  <2>1. /\ Len(sent') = Len(sent) + 1 /\ DOMAIN sent' = 1..Len(sent') /\ Len(sent) \in Nat
        /\ \A i \in 1..Len(sent) : sent'[i] = sent[i]
        /\ sent'[Len(sent) + 1] = it
        /\ Len(wire') = Len(wire) + 1 /\ DOMAIN wire' = 1..Len(wire') /\ Len(wire) \in Nat
        /\ \A i \in 1..Len(wire) : wire'[i] = wire[i]
        /\ wire'[Len(wire) + 1] = it
    BY <1>3, <1>4, <1>9
  <2>2. NothingYet' /\ ReadAll' /\ FlagKept' /\ OneReader'
    BY <1>1, <1>9 DEF SubscriberInv, NothingYet, ReadAll, FlagKept, OneReader
  <2>3. SentAsIs'
    <3>1. SUFFICES ASSUME NEW m \in Names, db'[m] # None, db'[m].version = 0
                   PROVE  /\ \A i \in DOMAIN sent' : sent'[i].name = m => sent'[i] = db'[m]
                          /\ stream # "closed" /\ Matches(db'[m]) =>
                                 \E i \in DOMAIN sent' : sent'[i] = db'[m]
      BY <1>1 DEF SentAsIs, Matches
    <3>2. m # n /\ db'[m] = db[m]
      BY <1>4, <1>6, <3>1
    <3>3. /\ \A i \in DOMAIN sent : sent[i].name = m => sent[i] = db[m]
          /\ stream # "closed" /\ Matches(db[m]) => \E i \in DOMAIN sent : sent[i] = db[m]
      BY <3>1, <3>2 DEF SubscriberInv, SentAsIs
    <3>4. DOMAIN sent = 1..Len(sent)
      BY <1>3
    <3> QED
      BY <1>4, <2>1, <3>2, <3>3, <3>4
  <2>4. SentLast'
    <3>1. SUFFICES ASSUME stream = "open", watched,
                          NEW m \in Names, db'[m] # None, Matches(db'[m])
                   PROVE  \E i \in DOMAIN sent' :
                              /\ sent'[i] = db'[m]
                              /\ \A j \in DOMAIN sent' : sent'[j].name = m => j <= i
      BY <1>1 DEF SentLast, Matches
    <3>2. CASE m = n
      BY <1>6, <2>1, <3>2
    <3>3. CASE m # n
      <4>1. db'[m] = db[m]
        BY <1>6, <3>3
      <4>2. PICK i \in DOMAIN sent : /\ sent[i] = db[m]
                                     /\ \A j \in DOMAIN sent : sent[j].name = m => j <= i
        BY <3>1, <4>1 DEF SubscriberInv, SentLast
      <4>3. DOMAIN sent = 1..Len(sent)
        BY <1>3
      <4>4. i \in DOMAIN sent' /\ sent'[i] = db'[m]
        BY <2>1, <4>1, <4>2, <4>3
      <4>5. ASSUME NEW j \in DOMAIN sent', sent'[j].name = m
            PROVE  j <= i
        <5>1. j # Len(sent) + 1
          BY <1>4, <2>1, <3>3, <4>5
        <5>2. j \in DOMAIN sent /\ sent'[j] = sent[j]
          BY <2>1, <4>3, <5>1
        <5> QED
          BY <4>2, <4>5, <5>2
      <4> QED
        BY <4>4, <4>5
    <3> QED
      BY <3>2, <3>3
  <2>5. NoneSkipped'
    <3>1. PICK k \in 0..Len(sent) : ReadUpTo(k) /\ NotifiedUpTo(k)
      BY DEF SubscriberInv, NoneSkipped
    <3>2. k + Len(wire) = Len(sent) /\ \A i \in DOMAIN wire : wire[i] = sent[k + i]
      BY <1>9, <3>1 DEF ReadUpTo
    <3>3. ReadUpTo(k)'
      <4>1. \A i \in DOMAIN wire' : wire'[i] = sent'[k + i]
        <5>1. SUFFICES ASSUME NEW i \in DOMAIN wire'  PROVE wire'[i] = sent'[k + i]
          OBVIOUS
        <5>2. CASE i = Len(wire) + 1
          BY <2>1, <3>2, <5>2
        <5>3. CASE i \in 1..Len(wire)
          <6>1. wire[i] = sent[k + i] /\ k + i \in 1..Len(sent)
            BY <1>3, <2>1, <3>2, <5>3
          <6> QED
            BY <2>1, <5>3, <6>1
        <5> QED
          BY <2>1, <5>2, <5>3
      <4> QED
        BY <1>1, <2>1, <3>2, <4>1 DEF ReadUpTo
    <3>4. NotifiedUpTo(k)'
      <4>1. \A j \in 1..k : sent'[j] = sent[j]
        BY <2>1, <3>1
      <4>2. DOMAIN notified' = DOMAIN notified /\ \A i \in DOMAIN notified : notified'[i] = notified[i]
        BY <1>1
      <4>3. PICK at \in [DOMAIN notified -> 1..k] :
                /\ \A i, j \in DOMAIN notified : i < j => at[i] < at[j]
                /\ \A i \in DOMAIN notified : notified[i] = sent[at[i]]
                /\ \A j \in 1..k :
                       sent[j].type \in Callbacks <=> \E i \in DOMAIN notified : at[i] = j
        BY <3>1 DEF NotifiedUpTo
      <4> QED
        BY <4>1, <4>2, <4>3 DEF NotifiedUpTo
    <3>5. k \in 0..Len(sent')
      BY <2>1
    <3> QED
      BY <3>3, <3>4, <3>5 DEF NoneSkipped
  <2> QED
    BY <1>7, <1>8, <2>2, <2>3, <2>4, <2>5 DEF SubscriberInv
<1>10. CASE /\ ~ (stream = "open" /\ watched /\ Matches(it))
            /\ UNCHANGED <<wire, sent>>
  <2>1. NothingYet' /\ ReadAll' /\ FlagKept' /\ OneReader'
    BY <1>1, <1>10 DEF SubscriberInv, NothingYet, ReadAll, FlagKept, OneReader
  <2>2. SentAsIs'
    BY <1>1, <1>4, <1>6, <1>10 DEF SubscriberInv, SentAsIs, Matches
  <2>3. SentLast'
    <3>1. SUFFICES ASSUME stream = "open", watched,
                          NEW m \in Names, db'[m] # None, Matches(db'[m])
                   PROVE  \E i \in DOMAIN sent :
                              /\ sent[i] = db'[m]
                              /\ \A j \in DOMAIN sent : sent[j].name = m => j <= i
      BY <1>1, <1>10 DEF SentLast, Matches
    <3>2. m # n
      BY <1>6, <1>10, <3>1
    <3>3. db'[m] = db[m]
      BY <1>6, <3>2
    <3> QED
      BY <3>1, <3>3 DEF SubscriberInv, SentLast
  <2>4. NoneSkipped'
    BY <1>1, <1>10, SameReading DEF SubscriberInv
  <2> QED
    BY <1>7, <1>8, <2>1, <2>2, <2>3, <2>4 DEF SubscriberInv
<1> QED
  BY <1>5, <1>9, <1>10

LEMMA PurgeStep ==
    ASSUME SubscriberInv, NEW n \in Names, Purge(n)
    PROVE  SubscriberInv'
<1>1. db' = [db EXCEPT ![n] = None]
      /\ UNCHANGED <<changes, stream, watched, sent, wire, pc, finished, watch, notified>>
  BY DEF Purge
<1>2. db \in [Names -> Items \cup {None}]
  BY DEF SubscriberInv, TypeOK
<1>3. db'[n] = None /\ \A m \in Names \ {n} : db'[m] = db[m]
  BY <1>1, <1>2
<1>4. TypeOK'
  BY <1>1 DEF SubscriberInv, TypeOK
<1>5. NamesFit' /\ NothingYet' /\ ReadAll' /\ FlagKept' /\ OneReader'
  BY <1>1, <1>3 DEF SubscriberInv, NamesFit, NothingYet, ReadAll, FlagKept, OneReader
<1>6. SentAsIs'
  BY <1>1, <1>3 DEF SubscriberInv, SentAsIs, Matches
<1>7. SentLast'
  BY <1>1, <1>3 DEF SubscriberInv, SentLast, Matches
<1>8. NoneSkipped'
  BY <1>1, SameReading DEF SubscriberInv
<1> QED
  BY <1>4, <1>5, <1>6, <1>7, <1>8 DEF SubscriberInv

LEMMA CloseStreamStep ==
    ASSUME SubscriberInv, CloseStream
    PROVE  SubscriberInv'
<1>1. /\ stream = "open" /\ stream' = "ok"
      /\ UNCHANGED <<db, changes, watched, sent, wire, pc, finished, watch, notified>>
  BY DEF CloseStream
<1>2. TypeOK'
  BY <1>1 DEF SubscriberInv, TypeOK
<1>3. NamesFit' /\ NothingYet' /\ ReadAll' /\ SentAsIs' /\ SentLast'
  BY <1>1 DEF SubscriberInv, NamesFit, NothingYet, ReadAll, SentAsIs, SentLast, Matches
<1>4. NoneSkipped'
  BY <1>1, SameReading DEF SubscriberInv
<1>5. FlagKept' /\ OneReader'
  <2>1. watched => ServerCloses
    BY DEF CloseStream
  <2> QED
    BY <1>1, <2>1 DEF SubscriberInv, FlagKept, OneReader
<1> QED
  BY <1>2, <1>3, <1>4, <1>5 DEF SubscriberInv

(* What is lost with the connection are the last items sent.               *)
LEMMA BreakStreamStep ==
    ASSUME SubscriberInv, BreakStream
    PROVE  SubscriberInv'
<1>1. /\ stream = "open" /\ stream' = "error"
      /\ UNCHANGED <<db, changes, watched, sent, pc, finished, watch, notified>>
  BY DEF BreakStream
<1>2. PICK n \in 0..Len(wire) : wire' = SubSeq(wire, 1, n)
  BY DEF BreakStream
<1>3. wire \in Seq(Items)
  BY DEF SubscriberInv, TypeOK
<1>4. /\ wire' \in Seq(Items) /\ Len(wire') = n /\ DOMAIN wire' = 1..n
      /\ n <= Len(wire) /\ DOMAIN wire = 1..Len(wire)
      /\ \A i \in 1..n : wire'[i] = wire[i] /\ i \in DOMAIN wire
  BY <1>2, <1>3
<1>5. TypeOK'
  BY <1>1, <1>4 DEF SubscriberInv, TypeOK
<1>6. NamesFit' /\ NothingYet' /\ ReadAll' /\ FlagKept' /\ OneReader' /\ SentAsIs' /\ SentLast'
  BY <1>1 DEF SubscriberInv, NamesFit, NothingYet, ReadAll, FlagKept, OneReader, SentAsIs, SentLast, Matches
<1>7. NoneSkipped'
  <2>1. PICK k \in 0..Len(sent) : ReadUpTo(k) /\ NotifiedUpTo(k)
    BY DEF SubscriberInv, NoneSkipped
  <2>2. ReadUpTo(k)'
    BY <1>1, <1>2, <1>3, <1>4, <2>1 DEF ReadUpTo, SubscriberInv, TypeOK
  <2>3. NotifiedUpTo(k)'
    BY <1>1, <2>1 DEF NotifiedUpTo
  <2> QED
    BY <1>1, <2>2, <2>3 DEF NoneSkipped
<1> QED
  BY <1>5, <1>6, <1>7 DEF SubscriberInv

-----------------------------------------------------------------------------
LEMMA SubscriberStep ==
    ASSUME SubscriberInv, [Next]_vars
    PROVE  SubscriberInv'
<1>1. CASE Subscriber
  BY <1>1, BuildRequestStep, OpenStreamStep, NotifyStep, ReadEndStep, FinishStep DEF Subscriber
<1>2. CASE Server
  BY <1>2, CloseStreamStep, BreakStreamStep, ChangeStep, PurgeStep DEF Server
<1>3. CASE UNCHANGED vars
  <2>1. TypeOK'
    BY <1>3 DEF SubscriberInv, TypeOK, vars
  <2>2. NamesFit' /\ NothingYet' /\ ReadAll' /\ FlagKept' /\ OneReader' /\ SentAsIs' /\ SentLast'
    BY <1>3 DEF SubscriberInv, NamesFit, NothingYet, ReadAll, FlagKept, OneReader, SentAsIs, SentLast, Matches, vars
  <2>3. NoneSkipped'
    BY <1>3, SameReading DEF SubscriberInv, vars
  <2> QED
    BY <2>1, <2>2, <2>3 DEF SubscriberInv
<1> QED
  BY <1>1, <1>2, <1>3 DEF Next

(* What holds at every moment of a subscription.                           *)
THEOREM SubscriberInvariant == Spec => []SubscriberInv
BY SubscriberInit, SubscriberStep, PTL DEF Spec

(* The variables keep their types.                                         *)
THEOREM SubscriberTypes == Spec => []TypeOK
<1>1. SubscriberInv => TypeOK
  BY DEF SubscriberInv
<1> QED
  BY <1>1, SubscriberInvariant, PTL

(* The items handed to notify methods are those the server has sent, each  *)
(* once and in order; only those on the wire and those lost with the       *)
(* connection are not among them.                                          *)
THEOREM HandedOverInOrder == Spec => []NoneSkipped
<1>1. SubscriberInv => NoneSkipped
  BY DEF SubscriberInv
<1> QED
  BY <1>1, SubscriberInvariant, PTL

(* What the subscriber was last told of an item is the last of its items   *)
(* notified, if there is one.                                              *)
LEMMA KnownIsNotified ==
    ASSUME notified \in Seq(Items), NEW n, NEW i \in DOMAIN notified, notified[i].name = n
    PROVE  \E j \in DOMAIN notified :
               /\ notified[j].name = n /\ Known(n) = notified[j]
               /\ \A l \in DOMAIN notified : notified[l].name = n => l <= j
<1> DEFINE I == {j \in 1..Len(notified) : notified[j].name = n}
<1>1. Len(notified) \in Nat /\ DOMAIN notified = 1..Len(notified)
  OBVIOUS
<1>2. I # {} /\ I \subseteq 1..Len(notified)
  BY <1>1
<1>3. Max(I) \in I /\ \A l \in I : l <= Max(I)
  <2> HIDE DEF I
  <2> QED
    BY <1>1, <1>2, Greatest
<1>4. SelectLastInSeq(notified, LAMBDA it : it.name = n) = Max(I)
  BY <1>2 DEF SelectLastInSeq
<1>5. Known(n) = notified[Max(I)]
  <2>1. Max(I) # 0
    BY <1>1, <1>3
  <2> QED
    BY <1>4, <2>1 DEF Known
<1> QED
  BY <1>1, <1>3, <1>5

(* A subscription that does not watch and returns true has reported every  *)
(* matching item that did not change while it ran, as it is.               *)
THEOREM SnapshotIsComplete == Spec => []SnapshotComplete
<1>1. SubscriberInv => SnapshotComplete
  <2>1. SUFFICES ASSUME SubscriberInv, pc = "true", NEW n \in Names,
                        db[n] # None, db[n].version = 0, db[n].type \in Callbacks,
                        Matches(db[n])
                 PROVE  Known(n) = db[n]
    BY DEF SnapshotComplete
  <2>2. stream = "ok" /\ wire = <<>>
    BY <2>1 DEF SubscriberInv, ReadAll
  <2>3. notified \in Seq(Items) /\ sent \in Seq(Items)
    BY <2>1 DEF SubscriberInv, TypeOK
  <2>4. PICK k \in 0..Len(sent) : ReadUpTo(k) /\ NotifiedUpTo(k)
    BY <2>1 DEF SubscriberInv, NoneSkipped
  <2>5. k = Len(sent) /\ DOMAIN sent = 1..k
    BY <2>2, <2>3, <2>4 DEF ReadUpTo
  <2>6. PICK at \in [DOMAIN notified -> 1..k] :
            /\ \A i \in DOMAIN notified : notified[i] = sent[at[i]]
            /\ \A j \in 1..k :
                   sent[j].type \in Callbacks <=> \E i \in DOMAIN notified : at[i] = j
    BY <2>4 DEF NotifiedUpTo
  <2>7. /\ \A j \in DOMAIN sent : sent[j].name = n => sent[j] = db[n]
        /\ \E j \in DOMAIN sent : sent[j] = db[n]
    BY <2>1, <2>2 DEF SubscriberInv, SentAsIs
  <2>8. db[n].name = n
    BY <2>1 DEF SubscriberInv, NamesFit
  <2>9. PICK i \in DOMAIN notified : notified[i].name = n
    BY <2>1, <2>5, <2>6, <2>7, <2>8
  <2>10. PICK j \in DOMAIN notified : notified[j].name = n /\ Known(n) = notified[j]
    BY <2>3, <2>9, KnownIsNotified
  <2> QED
    BY <2>5, <2>6, <2>7, <2>10
<1> QED
  BY <1>1, SubscriberInvariant, PTL

(* A watching subscriber that has read all there is on its stream knows    *)
(* every matching item as the server has it.                               *)
THEOREM KeepsUp == Spec => []CaughtUp
<1>1. SubscriberInv => CaughtUp
  <2>1. SUFFICES ASSUME SubscriberInv, watched, stream = "open", wire = <<>>, NEW n \in Names,
                        db[n] # None, db[n].type \in Callbacks, Matches(db[n])
                 PROVE  Known(n) = db[n]
    BY DEF CaughtUp, UpToDate
  <2>2. notified \in Seq(Items) /\ sent \in Seq(Items)
    BY <2>1 DEF SubscriberInv, TypeOK
  <2>3. PICK k \in 0..Len(sent) : ReadUpTo(k) /\ NotifiedUpTo(k)
    BY <2>1 DEF SubscriberInv, NoneSkipped
  <2>4. k = Len(sent) /\ DOMAIN sent = 1..k /\ k \in Nat
    BY <2>1, <2>2, <2>3 DEF ReadUpTo
  <2>5. PICK at \in [DOMAIN notified -> 1..k] :
            /\ \A i, j \in DOMAIN notified : i < j => at[i] < at[j]
            /\ \A i \in DOMAIN notified : notified[i] = sent[at[i]]
            /\ \A j \in 1..k :
                   sent[j].type \in Callbacks <=> \E i \in DOMAIN notified : at[i] = j
    BY <2>3 DEF NotifiedUpTo
  <2>6. PICK last \in DOMAIN sent :
            sent[last] = db[n] /\ \A j \in DOMAIN sent : sent[j].name = n => j <= last
    BY <2>1 DEF SubscriberInv, SentLast
  <2>7. PICK i \in DOMAIN notified : at[i] = last
    BY <2>1, <2>4, <2>5, <2>6
  <2>8. notified[i] = db[n] /\ notified[i].name = n
    BY <2>1, <2>5, <2>6, <2>7 DEF SubscriberInv, NamesFit
  <2>9. PICK j \in DOMAIN notified :
            /\ notified[j].name = n /\ Known(n) = notified[j]
            /\ \A l \in DOMAIN notified : notified[l].name = n => l <= j
    BY <2>2, <2>8, KnownIsNotified
  <2>10. i = j
    <3>1. /\ i \in Nat /\ j \in Nat /\ i <= j
          /\ at[i] \in Nat /\ at[j] \in Nat /\ at[j] \in DOMAIN sent
      BY <2>2, <2>4, <2>5, <2>8, <2>9
    <3>2. at[j] <= at[i]
      BY <2>5, <2>6, <2>7, <2>9, <3>1
    <3>3. ~ (i < j)
      BY <2>5, <3>1, <3>2
    <3> QED
      BY <3>1, <3>3
  <2> QED
    BY <2>8, <2>9, <2>10
<1> QED
  BY <1>1, SubscriberInvariant, PTL

(* A second Finish on a reader comes only after a stream that ended well   *)
(* and with the flag set at the end, be it from the start, on a stream the *)
(* server ended, or by a notify (the loop of upsf.hpp:969-1003).           *)
THEOREM FinishesAgainOnlySo == Spec => []SecondFinish
<1>1. SubscriberInv => SecondFinish
  BY DEF SubscriberInv, FlagKept, OneReader, SecondFinish
<1> QED
  BY <1>1, SubscriberInvariant, PTL

(* The loop around Finish is left in time, and Finish is called once, if   *)
(* no notify sets the flag and, besides, either no watched stream is ended *)
(* by the server or nobody subscribes with watch set.                      *)
THEOREM FinishesOnce ==
    ASSUME ~ SetsWatch, ~ (ServerCloses /\ TRUE \in Watch)
    PROVE  Spec => []ContinuesAfterClose
<1>1. SubscriberInv => ContinuesAfterClose
  BY DEF SubscriberInv, FlagKept, OneReader, ContinuesAfterClose
<1> QED
  BY <1>1, SubscriberInvariant, PTL
=============================================================================
