--------------------------- MODULE UpsfItemsProofs ---------------------------
(***************************************************************************)
(* Proofs about UpsfItems and the mapping beneath it, for any messages,    *)
(* any number of callers and any sizes of the buffers.                     *)
(*                                                                         *)
(* Of each pair of overloads three things are proved: ..In, any message    *)
(* becomes a structure that stays within its buffers; ..Out, any structure *)
(* becomes a message; ..Echo, a message that fits comes back as it was.    *)
(***************************************************************************)
EXTENDS UpsfItems, FunctionTheorems, FiniteSetTheorems, SequenceTheorems, TLAPS

-----------------------------------------------------------------------------
(* Strings and lists of strings.                                           *)

LEMMA Literals == Empty \in Texts /\ One \in Texts /\ Nought \in Texts
<1>1. Empty \in [stem : Stems, length : Nat]
  BY StemsAssumption DEF Empty
<1>2. One \in [stem : Stems, length : Nat] /\ Nought \in [stem : Stems, length : Nat]
  BY StemsAssumption DEF One, Nought
<1>3. One.length # 0 /\ Nought.length # 0
  BY DEF One, Nought
<1> QED
  BY <1>1, <1>2, <1>3 DEF Texts

(* A string is cut to its buffer; one that fits is not changed.            *)
LEMMA TextIn ==
    ASSUME NEW s \in Texts
    PROVE  CString(s) \in CTexts
<1> DEFINE n == Lesser(s.length, UPSF_MAX_STRING_SIZE - 1)
<1>1. s \in [stem : Stems, length : Nat]
  BY DEF Texts
<1>2. n \in Nat /\ n < UPSF_MAX_STRING_SIZE
  BY <1>1, SizesAssumption DEF Lesser
<1>3. Chars(s, n) \in Texts /\ Chars(s, n).length = n
  BY <1>1, <1>2, Literals DEF Texts, Chars, Empty
<1> HIDE DEF n
<1>4. [str |-> Chars(s, n), len |-> n] \in CTexts
  BY <1>2, <1>3 DEF CTexts, ShortTexts
<1> QED
  BY <1>4 DEF CString, n

LEMMA TextOut ==
    ASSUME NEW c \in CTexts
    PROVE  PbString(c) \in Texts
BY DEF CTexts, ShortTexts, PbString

LEMMA TextEcho ==
    ASSUME NEW s \in ShortTexts
    PROVE  PbString(CString(s)) = s
<1>1. /\ s \in [stem : Stems, length : Nat] /\ s.length < UPSF_MAX_STRING_SIZE
      /\ s.length = 0 => s = Empty
  BY DEF ShortTexts, Texts
<1>2. Lesser(s.length, UPSF_MAX_STRING_SIZE - 1) = s.length
  BY <1>1, SizesAssumption DEF Lesser
<1>3. Chars(s, s.length) = s
  BY <1>1 DEF Chars
<1> QED
  BY <1>2, <1>3 DEF PbString, CString

(* How many elements of a list are copied.                                 *)
LEMMA CopiedElements ==
    ASSUME NEW n \in Nat
    PROVE  /\ Lesser(n, UPSF_MAX_NUM) \in Fitting /\ Lesser(n, UPSF_MAX_NUM) <= n
           /\ n \in Fitting => Lesser(n, UPSF_MAX_NUM) = n
BY SizesAssumption DEF Lesser, Fitting

LEMMA ListIn ==
    ASSUME NEW list \in Lists(Texts, Nat)
    PROVE  CStrings(list) \in Lists(CTexts, Fitting)
<1> DEFINE n == Lesser(Len(list), UPSF_MAX_NUM)
<1>1. n \in Fitting /\ n <= Len(list)
  BY CopiedElements DEF Lists
<1> HIDE DEF n
<1>2. n \in Nat
  BY <1>1 DEF Fitting
<1>3. [i \in 1..n |-> CString(list[i])] \in [1..n -> CTexts]
  BY <1>1, <1>2, TextIn DEF Lists
<1> QED
  BY <1>1, <1>2, <1>3 DEF Lists, CStrings, n

LEMMA ListOut ==
    ASSUME NEW arr \in Lists(CTexts, Fitting)
    PROVE  PbStrings(arr) \in Lists(Texts, Nat)
<1>1. PbStrings(arr) \in [1..Len(arr) -> Texts]
  BY TextOut DEF PbStrings, Lists
<1> QED
  BY <1>1 DEF Lists

LEMMA ListEcho ==
    ASSUME NEW list \in Lists(ShortTexts, Fitting)
    PROVE  PbStrings(CStrings(list)) = list
<1>1. Lesser(Len(list), UPSF_MAX_NUM) = Len(list)
  BY CopiedElements DEF Lists
<1>2. CStrings(list) = [i \in 1..Len(list) |-> CString(list[i])]
  BY <1>1 DEF CStrings
<1>3. PbStrings(CStrings(list)) = [i \in 1..Len(list) |-> list[i]]
  BY <1>2, TextEcho DEF PbStrings, Lists
<1> QED
  BY <1>3 DEF Lists

-----------------------------------------------------------------------------
(* Maps.                                                                   *)

(* A sequence of the elements of a finite set has each of them once.       *)
LEMMA InSomeOrder ==
    ASSUME NEW S, IsFiniteSet(S)
    PROVE  LET s == SetToSeq(S)
           IN /\ s \in Seq(S) /\ Len(s) = Cardinality(S) /\ DOMAIN s = 1..Cardinality(S)
              /\ \A i, j \in DOMAIN s : s[i] = s[j] => i = j
              /\ \A x \in S : \E i \in DOMAIN s : s[i] = x
<1> DEFINE n == Cardinality(S)
           s == SetToSeq(S)
<1>1. n \in Nat /\ ExistsBijection(1..n, S)
  BY FS_CardinalityType
<1>2. \E f \in [1..n -> S] : IsInjective(f)
  BY <1>1 DEF ExistsBijection, Bijection, Injection
<1>3. s \in [1..n -> S] /\ IsInjective(s)
  BY <1>2 DEF SetToSeq
<1> HIDE DEF s
<1>4. s \in Seq(S) /\ Len(s) = n /\ DOMAIN s = 1..n
  BY <1>1, <1>3
<1>5. s \in Surjection(1..n, S)
  <2>1. IsFiniteSet(1..n) /\ Cardinality(1..n) = n
    BY <1>1, FS_Interval
  <2> QED
    BY <1>3, <2>1, FS_Injection DEF Injection
<1>6. \A i, j \in DOMAIN s : s[i] = s[j] => i = j
  BY <1>3 DEF IsInjective
<1>7. \A x \in S : \E i \in DOMAIN s : s[i] = x
  BY <1>4, <1>5 DEF Surjection
<1> QED
  BY <1>4, <1>6, <1>7 DEF s

(* An array of entries as a map, whatever becomes of the values: the last  *)
(* of equal keys counts, so no two entries have the same.                  *)
LEMMA LastEntries ==
    ASSUME NEW arr \in Lists(CKeyValues, Fitting), NEW V, NEW value \in [DOMAIN arr -> V],
           NEW last, last \subseteq DOMAIN arr,
           \A i, j \in last : PbString(arr[i].key) = PbString(arr[j].key) => i = j
    PROVE  {[key |-> PbString(arr[i].key), value |-> value[i]] : i \in last}
               \in Maps(Texts, V, Nat)
<1> DEFINE entry == [i \in last |-> [key |-> PbString(arr[i].key), value |-> value[i]]]
           map == {[key |-> PbString(arr[i].key), value |-> value[i]] : i \in last}
<1>1. ASSUME NEW i \in DOMAIN arr
      PROVE  PbString(arr[i].key) \in Texts
  <2>1. arr[i] \in CKeyValues
    BY DEF Lists
  <2>2. arr[i].key \in CTexts
    BY <2>1 DEF CKeyValues
  <2> QED
    BY <2>2, TextOut
<1>2. map \subseteq [key : Texts, value : V]
  BY <1>1
<1>3. \A p, q \in map : p.key = q.key => p = q
  OBVIOUS
<1>4. IsFiniteSet(map) /\ Cardinality(map) \in Nat
  <2>1. IsFiniteSet(last)
    <3>1. IsFiniteSet(1..Len(arr))
      BY FS_Interval DEF Lists
    <3> QED
      BY <3>1, FS_Subset DEF Lists
  <2>2. entry \in Surjection(last, map)
    BY DEF Surjection
  <2> HIDE DEF entry, map
  <2> QED
    BY <2>1, <2>2, FS_Surjection, FS_CardinalityType
<1> HIDE DEF map
<1>5. map \in Maps(Texts, V, Nat)
  BY <1>2, <1>3, <1>4 DEF Maps
<1> QED
  BY <1>5 DEF map
(* The same of the two maps there are.                                     *)
LEMMA MapOut ==
    ASSUME NEW arr \in Lists(CKeyValues, Fitting)
    PROVE  /\ PbMap(arr, PbString) \in Maps(Texts, Texts, Nat)
           /\ PbMap(arr, PbBool) \in Maps(Texts, BOOLEAN, Nat)
<1> DEFINE key(i) == PbString(arr[i].key)
           last == {i \in DOMAIN arr : \A j \in DOMAIN arr : key(j) = key(i) => j <= i}
<1>1. DOMAIN arr \subseteq Nat /\ \A i \in DOMAIN arr : arr[i] \in CKeyValues
  BY DEF Lists
<1>2. last \subseteq DOMAIN arr /\ \A i, j \in last : key(i) = key(j) => i = j
  BY <1>1
<1> HIDE DEF last
<1>3. {[key |-> key(i), value |-> PbString(arr[i].value)] : i \in last} \in Maps(Texts, Texts, Nat)
  <2> DEFINE value == [i \in DOMAIN arr |-> PbString(arr[i].value)]
  <2>1. value \in [DOMAIN arr -> Texts]
    BY <1>1, TextOut DEF CKeyValues
  <2>2. \A i \in last : value[i] = PbString(arr[i].value)
    BY <1>2
  <2> HIDE DEF value
  <2>3. {[key |-> key(i), value |-> value[i]] : i \in last} \in Maps(Texts, Texts, Nat)
    BY <1>2, <2>1, LastEntries
  <2> QED
    BY <2>2, <2>3
<1>4. {[key |-> key(i), value |-> TRUE] : i \in last} \in Maps(Texts, BOOLEAN, Nat)
  <2> DEFINE value == [i \in DOMAIN arr |-> TRUE]
  <2>1. value \in [DOMAIN arr -> BOOLEAN]
    OBVIOUS
  <2>2. \A i \in last : value[i] = TRUE
    BY <1>2
  <2> HIDE DEF value
  <2>3. {[key |-> key(i), value |-> value[i]] : i \in last} \in Maps(Texts, BOOLEAN, Nat)
    BY <1>2, <2>1, LastEntries
  <2> QED
    BY <2>2, <2>3
<1> QED
  BY <1>3, <1>4 DEF PbMap, PbBool, last

(* The entries of a map in some order, as many as are copied.              *)
LEMMA CopiedEntries ==
    ASSUME NEW T, NEW V, NEW N, NEW map \in Maps(T, V, N)
    PROVE  LET s == SetToSeq(map)
               n == Lesser(Len(s), UPSF_MAX_NUM)
           IN n \in Fitting /\ \A i \in 1..n : s[i] \in [key : T, value : V]
<1> DEFINE s == SetToSeq(map)
           n == Lesser(Len(s), UPSF_MAX_NUM)
<1>1. IsFiniteSet(map) /\ map \subseteq [key : T, value : V]
  BY DEF Maps
<1>2. s \in Seq(map)
  BY <1>1, InSomeOrder
<1> HIDE DEF s
<1>3. n \in Fitting /\ n \in Nat /\ n <= Len(s)
  BY <1>2, CopiedElements DEF Fitting
<1> HIDE DEF n
<1>4. \A i \in 1..n : s[i] \in [key : T, value : V]
  BY <1>1, <1>2, <1>3
<1> QED
  BY <1>3, <1>4 DEF s, n

LEMMA MapIn ==
    /\ \A map \in Maps(Texts, Texts, Nat) :
           CPairs(map, CString) \in Lists(CKeyValues, Fitting)
    /\ \A map \in Maps(Texts, BOOLEAN, Nat) :
           CPairs(map, CBool) \in Lists(CKeyValues, Fitting)
<1>1. ASSUME NEW n \in Fitting, NEW arr \in [1..n -> CKeyValues]
      PROVE  arr \in Lists(CKeyValues, Fitting)
  BY <1>1 DEF Lists, Fitting
<1>2. ASSUME NEW map \in Maps(Texts, Texts, Nat)
      PROVE  CPairs(map, CString) \in Lists(CKeyValues, Fitting)
  <2> DEFINE s == SetToSeq(map)
             n == Lesser(Len(s), UPSF_MAX_NUM)
  <2>1. n \in Fitting /\ \A i \in 1..n : s[i] \in [key : Texts, value : Texts]
    BY CopiedEntries
  <2> HIDE DEF s, n
  <2>2. [i \in 1..n |-> [key |-> CString(s[i].key), value |-> CString(s[i].value)]]
            \in [1..n -> CKeyValues]
    BY <2>1, TextIn DEF CKeyValues
  <2>3. [i \in 1..n |-> [key |-> CString(s[i].key), value |-> CString(s[i].value)]]
            \in Lists(CKeyValues, Fitting)
    BY <1>1, <2>1, <2>2
  <2> QED
    BY <2>3 DEF CPairs, s, n
<1>3. ASSUME NEW map \in Maps(Texts, BOOLEAN, Nat)
      PROVE  CPairs(map, CBool) \in Lists(CKeyValues, Fitting)
  <2> DEFINE s == SetToSeq(map)
             n == Lesser(Len(s), UPSF_MAX_NUM)
  <2>1. n \in Fitting /\ \A i \in 1..n : s[i] \in [key : Texts, value : BOOLEAN]
    BY CopiedEntries
  <2>2. \A i \in 1..n : CBool(s[i].value) \in CTexts
    BY Literals, TextIn DEF CBool
  <2> HIDE DEF s, n
  <2>3. [i \in 1..n |-> [key |-> CString(s[i].key), value |-> CBool(s[i].value)]]
            \in [1..n -> CKeyValues]
    BY <2>1, <2>2, TextIn DEF CKeyValues
  <2>4. [i \in 1..n |-> [key |-> CString(s[i].key), value |-> CBool(s[i].value)]]
            \in Lists(CKeyValues, Fitting)
    BY <1>1, <2>1, <2>3
  <2> QED
    BY <2>4 DEF CPairs, s, n
<1> QED
  BY <1>2, <1>3

(* A map that fits: all its entries are copied, the keys stay apart, and   *)
(* each of them is the last of its key.                                    *)
LEMMA KeysStayApart ==
    ASSUME NEW V, NEW map \in Maps(ShortTexts, V, Fitting)
    PROVE  LET s == SetToSeq(map)
               n == Lesser(Len(s), UPSF_MAX_NUM)
           IN /\ map = {s[i] : i \in 1..n}
              /\ \A i \in 1..n : /\ s[i] \in [key : ShortTexts, value : V]
                                 /\ PbString(CString(s[i].key)) = s[i].key
              /\ {i \in 1..n : \A j \in 1..n : s[j].key = s[i].key => j <= i} = 1..n
<1> DEFINE s == SetToSeq(map)
           n == Lesser(Len(s), UPSF_MAX_NUM)
<1>1. /\ IsFiniteSet(map) /\ Cardinality(map) \in Fitting
      /\ \A p, q \in map : p.key = q.key => p = q
  BY DEF Maps
<1>2. /\ s \in Seq(map) /\ Len(s) = Cardinality(map) /\ DOMAIN s = 1..Len(s)
      /\ \A i, j \in DOMAIN s : s[i] = s[j] => i = j
      /\ \A x \in map : \E i \in DOMAIN s : s[i] = x
  BY <1>1, InSomeOrder
<1>3. \A i \in 1..n : s[i] \in [key : ShortTexts, value : V]
  BY CopiedEntries
<1> HIDE DEF s
<1>4. n = Len(s) /\ n \in Nat
  BY <1>1, <1>2, CopiedElements
<1> HIDE DEF n
<1>5. map = {s[i] : i \in 1..n}
  BY <1>2, <1>4
<1>6. \A i \in 1..n : PbString(CString(s[i].key)) = s[i].key
  BY <1>3, TextEcho
<1>7. \A i, j \in 1..n : s[j].key = s[i].key => j <= i
  BY <1>1, <1>2, <1>4
<1> QED
  BY <1>3, <1>5, <1>6, <1>7 DEF s, n

LEMMA MapEcho ==
    /\ \A map \in Maps(ShortTexts, ShortTexts, Fitting) :
           PbMap(CPairs(map, CString), PbString) = map
    /\ \A map \in Maps(ShortTexts, BOOLEAN, Fitting) :
           KeysOf(PbMap(CPairs(map, CBool), PbBool)) = KeysOf(map)
<1>1. ASSUME NEW map \in Maps(ShortTexts, ShortTexts, Fitting)
      PROVE  PbMap(CPairs(map, CString), PbString) = map
  <2> DEFINE s == SetToSeq(map)
             n == Lesser(Len(s), UPSF_MAX_NUM)
             arr == CPairs(map, CString)
             last == {i \in DOMAIN arr : \A j \in DOMAIN arr :
                          PbString(arr[j].key) = PbString(arr[i].key) => j <= i}
  <2>1. /\ map = {s[i] : i \in 1..n}
        /\ \A i \in 1..n : /\ s[i] \in [key : ShortTexts, value : ShortTexts]
                           /\ PbString(CString(s[i].key)) = s[i].key
        /\ {i \in 1..n : \A j \in 1..n : s[j].key = s[i].key => j <= i} = 1..n
    BY KeysStayApart
  <2>2. /\ DOMAIN arr = 1..n
        /\ \A i \in 1..n : arr[i] = [key |-> CString(s[i].key), value |-> CString(s[i].value)]
    BY DEF CPairs
  <2>3. PbMap(arr, PbString)
            = {[key |-> PbString(arr[i].key), value |-> PbString(arr[i].value)] : i \in last}
    BY DEF PbMap
  <2> HIDE DEF s, n, arr
  <2>4. last = 1..n
    BY <2>1, <2>2
  <2> HIDE DEF last
  <2>5. \A i \in 1..n :
            [key |-> PbString(arr[i].key), value |-> PbString(arr[i].value)] = s[i]
    BY <2>1, <2>2, TextEcho
  <2>6. PbMap(arr, PbString) = {s[i] : i \in 1..n}
    BY <2>3, <2>4, <2>5
  <2> QED
    BY <2>1, <2>6 DEF arr
<1>2. ASSUME NEW map \in Maps(ShortTexts, BOOLEAN, Fitting)
      PROVE  KeysOf(PbMap(CPairs(map, CBool), PbBool)) = KeysOf(map)
  <2> DEFINE s == SetToSeq(map)
             n == Lesser(Len(s), UPSF_MAX_NUM)
             arr == CPairs(map, CBool)
             last == {i \in DOMAIN arr : \A j \in DOMAIN arr :
                          PbString(arr[j].key) = PbString(arr[i].key) => j <= i}
  <2>1. /\ map = {s[i] : i \in 1..n}
        /\ \A i \in 1..n : PbString(CString(s[i].key)) = s[i].key
        /\ {i \in 1..n : \A j \in 1..n : s[j].key = s[i].key => j <= i} = 1..n
    BY KeysStayApart
  <2>2. DOMAIN arr = 1..n /\ \A i \in 1..n : arr[i].key = CString(s[i].key)
    BY DEF CPairs
  <2>3. PbMap(arr, PbBool)
            = {[key |-> PbString(arr[i].key), value |-> TRUE] : i \in last}
    BY DEF PbMap, PbBool
  <2> HIDE DEF s, n, arr
  <2>4. last = 1..n
    BY <2>1, <2>2
  <2> HIDE DEF last
  <2>5. PbMap(arr, PbBool) = {[key |-> s[i].key, value |-> TRUE] : i \in 1..n}
    BY <2>1, <2>2, <2>3, <2>4
  <2>6. KeysOf({[key |-> s[i].key, value |-> TRUE] : i \in 1..n}) = {s[i].key : i \in 1..n}
    <3> DEFINE entry(i) == [key |-> s[i].key, value |-> TRUE]
    <3>1. \A i \in 1..n : entry(i).key = s[i].key
      OBVIOUS
    <3> HIDE DEF entry
    <3>2. KeysOf({entry(i) : i \in 1..n}) = {s[i].key : i \in 1..n}
      BY <3>1 DEF KeysOf
    <3> QED
      BY <3>2 DEF entry
  <2>7. KeysOf({s[i] : i \in 1..n}) = {s[i].key : i \in 1..n}
    BY DEF KeysOf
  <2> QED
    BY <2>1, <2>5, <2>6, <2>7 DEF arr
<1> QED
  BY <1>1, <1>2

-----------------------------------------------------------------------------
(* Metadata and endpoints.                                                 *)

LEMMA MetaIn ==
    ASSUME NEW m \in MetaDatas(Texts)
    PROVE  MetaDataToC(m) \in CMetaDatas
BY TextIn DEF MetaDatas, MetaDataToC, CMetaDatas

LEMMA MetaOut ==
    ASSUME NEW c \in CMetaDatas
    PROVE  MetaDataToPb(c) \in MetaDatas(Texts)
BY TextOut DEF MetaDatas, MetaDataToPb, CMetaDatas

LEMMA MetaEcho ==
    ASSUME NEW m \in MetaDatas(ShortTexts)
    PROVE  MetaDataToPb(MetaDataToC(m)) = [m EXCEPT !.times = NoTimes]
BY TextEcho DEF MetaDatas, MetaDataToPb, MetaDataToC

LEMMA EndpointIn ==
    ASSUME NEW m \in Endpoints(Texts)
    PROVE  EndpointToC(m) \in CEndpoints
BY TextIn DEF Endpoints, EndpointToC, CEndpoints, Vteps, VtepToC, L2vpns, L2vpnToC,
               PortVlans, PortVlanToC

LEMMA EndpointOut ==
    ASSUME NEW c \in CEndpoints
    PROVE  EndpointToPb(c) \in Endpoints(Texts)
BY TextOut DEF Endpoints, EndpointToPb, CEndpoints, Vteps, VtepToPb, L2vpns, L2vpnToPb,
                PortVlans, PortVlanToPb

LEMMA EndpointEcho ==
    ASSUME NEW m \in Endpoints(ShortTexts)
    PROVE  EndpointToPb(EndpointToC(m)) = m
<1>1. CASE m \in [endpoint_name : ShortTexts, transport : {"vtep"}, spec : Vteps(ShortTexts)]
  BY <1>1, TextEcho DEF EndpointToPb, EndpointToC, Vteps, VtepToC, VtepToPb
<1>2. CASE m \in [endpoint_name : ShortTexts, transport : {"l2vpn"}, spec : L2vpns]
  BY <1>2, TextEcho DEF EndpointToPb, EndpointToC, L2vpns, L2vpnToC, L2vpnToPb
<1>3. CASE m \in [endpoint_name : ShortTexts, transport : {"port_vlan"},
                  spec : PortVlans(ShortTexts)]
  BY <1>3, TextEcho DEF EndpointToPb, EndpointToC, PortVlans, PortVlanToC, PortVlanToPb
<1>4. CASE m \in [endpoint_name : ShortTexts, transport : {"unset"}, spec : {Zero}]
  BY <1>4, TextEcho DEF EndpointToPb, EndpointToC
<1> QED
  BY <1>1, <1>2, <1>3, <1>4 DEF Endpoints

LEMMA EndpointsIn ==
    ASSUME NEW list \in Seq(Endpoints(Texts))
    PROVE  /\ EndpointsToC(list) \in Seq(CEndpoints)
           /\ Len(EndpointsToC(list)) \in Fitting
           /\ Len(list) = 1 => Len(EndpointsToC(list)) = 1
<1> DEFINE n == Lesser(Len(list), UPSF_MAX_NUM)
<1>1. n \in Fitting /\ n <= Len(list)
  BY CopiedElements
<1>2. Len(list) = 1 => n = 1
  BY SizesAssumption DEF Lesser
<1> HIDE DEF n
<1>3. n \in Nat
  BY <1>1 DEF Fitting
<1>4. [i \in 1..n |-> EndpointToC(list[i])] \in [1..n -> CEndpoints]
  BY <1>1, <1>3, EndpointIn
<1> QED
  BY <1>1, <1>2, <1>3, <1>4 DEF EndpointsToC, n

LEMMA EndpointsOut ==
    ASSUME NEW arr \in Seq(CEndpoints)
    PROVE  EndpointsToPb(arr) \in Seq(Endpoints(Texts)) /\ Len(EndpointsToPb(arr)) = Len(arr)
<1>1. EndpointsToPb(arr) \in [1..Len(arr) -> Endpoints(Texts)]
  BY EndpointOut DEF EndpointsToPb
<1> QED
  BY <1>1

LEMMA EndpointsEcho ==
    ASSUME NEW list \in Seq(Endpoints(ShortTexts)), Len(list) \in Fitting
    PROVE  EndpointsToPb(EndpointsToC(list)) = list
<1>1. Lesser(Len(list), UPSF_MAX_NUM) = Len(list)
  BY CopiedElements
<1>2. EndpointsToC(list) = [i \in 1..Len(list) |-> EndpointToC(list[i])]
  BY <1>1 DEF EndpointsToC
<1>3. EndpointsToPb(EndpointsToC(list)) = [i \in 1..Len(list) |-> list[i]]
  BY <1>2, EndpointEcho DEF EndpointsToPb
<1> QED
  BY <1>3

-----------------------------------------------------------------------------
(* NetworkConnection.                                                      *)

LEMMA NCSpecIn ==
    ASSUME NEW m \in NCSpecs(Endpoints(Texts), Nat)
    PROVE  NCSpecToC(m) \in CNCSpecs
<1>1. /\ m.maximum_supported_quality \in Int
      /\ m.nc_spec \in SpecKinds \cup {"unset"}
      /\ m.sgup_endpoint \in Seq(Endpoints(Texts)) /\ m.tsf_endpoint \in Seq(Endpoints(Texts))
      /\ Len(m.sgup_endpoint) \in SgupLengths(m.nc_spec, Nat)
      /\ Len(m.tsf_endpoint) \in TsfLengths(m.nc_spec, Nat)
  BY DEF NCSpecs
<1>2. {0, 1} \subseteq Fitting
  BY SizesAssumption DEF Fitting
<1>3. ASSUME NEW e \in CEndpoints
      PROVE  <<e>> \in Seq(CEndpoints) /\ Len(<<e>>) = 1
  OBVIOUS
<1>4. <<>> \in Seq(CEndpoints) /\ Len(<<>>) = 0
  OBVIOUS
<1>5. /\ EndpointsToC(m.sgup_endpoint) \in Seq(CEndpoints)
      /\ Len(EndpointsToC(m.sgup_endpoint)) \in Fitting
      /\ EndpointsToC(m.tsf_endpoint) \in Seq(CEndpoints)
      /\ Len(EndpointsToC(m.tsf_endpoint)) \in Fitting
  BY <1>1, EndpointsIn
<1>6. EndpointToC(NoEndpoint) \in CEndpoints
  <2>1. NoEndpoint \in Endpoints(Texts)
    BY Literals DEF NoEndpoint, Endpoints
  <2> QED
    BY <2>1, EndpointIn
<1>7. m.nc_spec \in {"ms_ptp", "ms_mptp"} => EndpointToC(m.sgup_endpoint[1]) \in CEndpoints
  BY <1>1, EndpointIn DEF SgupLengths
<1>8. m.nc_spec \in {"ss_ptp", "ms_ptp"} => EndpointToC(m.tsf_endpoint[1]) \in CEndpoints
  BY <1>1, EndpointIn DEF TsfLengths
<1> DEFINE kind == IF m.nc_spec = "unset" THEN "ss_ptp" ELSE m.nc_spec
<1>9. /\ SgupEndpointsToC(m) \in Seq(CEndpoints)
      /\ Len(SgupEndpointsToC(m)) \in SgupLengths(kind, Fitting)
  BY <1>1, <1>2, <1>3, <1>4, <1>5, <1>7 DEF SgupEndpointsToC, SgupLengths, SpecKinds
<1>10. /\ TsfEndpointsToC(m) \in Seq(CEndpoints)
       /\ Len(TsfEndpointsToC(m)) \in TsfLengths(kind, Fitting)
  BY <1>1, <1>2, <1>3, <1>5, <1>6, <1>8 DEF TsfEndpointsToC, TsfLengths, SpecKinds
<1>11. kind \in SpecKinds
  BY <1>1 DEF SpecKinds
<1> HIDE DEF kind
<1>12. [maximum_supported_quality |-> m.maximum_supported_quality, nc_spec_type |-> kind,
        sgup_endpoint |-> SgupEndpointsToC(m), tsf_endpoint |-> TsfEndpointsToC(m)]
           \in CNCSpecs
  BY <1>1, <1>9, <1>10, <1>11 DEF CNCSpecs
<1> QED
  BY <1>12 DEF NCSpecToC, kind

LEMMA NCSpecOut ==
    ASSUME NEW c \in CNCSpecs
    PROVE  NCSpecToPb(c) \in NCSpecs(Endpoints(Texts), Nat)
<1>1. /\ c.maximum_supported_quality \in Int
      /\ c.nc_spec_type \in SpecKinds
      /\ c.sgup_endpoint \in Seq(CEndpoints) /\ c.tsf_endpoint \in Seq(CEndpoints)
      /\ Len(c.sgup_endpoint) \in SgupLengths(c.nc_spec_type, Fitting)
      /\ Len(c.tsf_endpoint) \in TsfLengths(c.nc_spec_type, Fitting)
  BY DEF CNCSpecs
<1>2. /\ EndpointsToPb(c.sgup_endpoint) \in Seq(Endpoints(Texts))
      /\ EndpointsToPb(c.tsf_endpoint) \in Seq(Endpoints(Texts))
      /\ Len(EndpointsToPb(c.sgup_endpoint)) = Len(c.sgup_endpoint)
      /\ Len(EndpointsToPb(c.tsf_endpoint)) = Len(c.tsf_endpoint)
  BY <1>1, EndpointsOut
<1>3. /\ Len(c.sgup_endpoint) \in SgupLengths(NCSpecToPb(c).nc_spec, Nat)
      /\ Len(c.tsf_endpoint) \in TsfLengths(NCSpecToPb(c).nc_spec, Nat)
  BY <1>1 DEF NCSpecToPb, SgupLengths, TsfLengths, SpecKinds
<1>4. NCSpecToPb(c).nc_spec \in SpecKinds \cup {"unset"}
  BY <1>1 DEF NCSpecToPb
<1> QED
  BY <1>1, <1>2, <1>3, <1>4 DEF NCSpecs, NCSpecToPb

LEMMA NCSpecEcho ==
    ASSUME NEW m \in NCSpecs(Endpoints(ShortTexts), Fitting), NamesEndpoint(m)
    PROVE  NCSpecToPb(NCSpecToC(m)) = m
<1> DEFINE c == NCSpecToC(m)
<1>1. /\ m = [maximum_supported_quality |-> m.maximum_supported_quality,
              nc_spec |-> m.nc_spec,
              sgup_endpoint |-> m.sgup_endpoint, tsf_endpoint |-> m.tsf_endpoint]
      /\ m.nc_spec \in SpecKinds
      /\ m.sgup_endpoint \in Seq(Endpoints(ShortTexts))
      /\ m.tsf_endpoint \in Seq(Endpoints(ShortTexts))
      /\ Len(m.sgup_endpoint) \in SgupLengths(m.nc_spec, Fitting)
      /\ Len(m.tsf_endpoint) \in TsfLengths(m.nc_spec, Fitting)
      /\ m.sgup_endpoint # <<>> \/ m.tsf_endpoint # <<>>
  BY DEF NCSpecs, NamesEndpoint
<1>2. ASSUME NEW list \in Seq(Endpoints(ShortTexts)), Len(list) = 1
      PROVE  EndpointsToPb(<<EndpointToC(list[1])>>) = list
  <2>1. EndpointToPb(EndpointToC(list[1])) = list[1]
    BY <1>2, EndpointEcho
  <2>2. EndpointsToPb(<<EndpointToC(list[1])>>) = <<list[1]>>
    BY <2>1 DEF EndpointsToPb
  <2> QED
    BY <1>2, <2>2
<1>3. EndpointsToPb(c.sgup_endpoint) = m.sgup_endpoint
  <2>1. CASE m.nc_spec \in {"ss_ptp", "ss_mptp"}
    BY <1>1, <2>1, EndpointsEcho DEF NCSpecToC, SgupEndpointsToC, SgupLengths
  <2>2. CASE m.nc_spec \in {"ms_ptp", "ms_mptp"}
    BY <1>1, <1>2, <2>2 DEF NCSpecToC, SgupEndpointsToC, SgupLengths
  <2> QED
    BY <1>1, <2>1, <2>2 DEF SpecKinds
<1>4. EndpointsToPb(c.tsf_endpoint) = m.tsf_endpoint
  <2>1. CASE m.nc_spec \in {"ss_mptp", "ms_mptp"}
    BY <1>1, <2>1, EndpointsEcho DEF NCSpecToC, TsfEndpointsToC, TsfLengths
  <2>2. CASE m.nc_spec \in {"ss_ptp", "ms_ptp"}
    BY <1>1, <1>2, <2>2 DEF NCSpecToC, TsfEndpointsToC, TsfLengths
  <2> QED
    BY <1>1, <2>1, <2>2 DEF SpecKinds
<1>5. c.maximum_supported_quality = m.maximum_supported_quality /\ c.nc_spec_type = m.nc_spec
  BY <1>1 DEF NCSpecToC, SpecKinds
<1> HIDE DEF c
<1>6. ~ (c.sgup_endpoint = <<>> /\ c.tsf_endpoint = <<>>)
  <2>1. EndpointsToPb(<<>>) = <<>>
    BY DEF EndpointsToPb
  <2> QED
    BY <1>1, <1>3, <1>4, <2>1
<1>7. NCSpecToPb(c) = m
  BY <1>1, <1>3, <1>4, <1>5, <1>6 DEF NCSpecToPb
<1> QED
  BY <1>7 DEF c

-----------------------------------------------------------------------------
(* The items.                                                              *)

LEMMA ItemIn ==
    ASSUME NEW t \in ItemTypes, NEW m \in AnyMessage(t)
    PROVE  ToC(t, m) \in Structures(t)
<1> USE TextIn, ListIn, MetaIn, EndpointIn, MapIn
<1>1. CASE t = "sg"
  <2>1. m \in ServiceGateways(Texts, MetaDatas(Texts))
    BY <1>1 DEF AnyMessage, MessagesOf
  <2>2. ServiceGatewayToC(m) \in ServiceGateways(CTexts, CMetaDatas)
    BY <2>1 DEF ServiceGateways, ServiceGatewayToC
  <2> QED
    BY <1>1, <2>2 DEF ToC, Structures
<1>2. CASE t = "sgup"
  <2>1. m \in UserPlanes(Texts, Nat, MetaDatas(Texts), Endpoints(Texts))
    BY <1>2 DEF AnyMessage, MessagesOf
  <2>2. UserPlaneToC(m) \in UserPlanes(CTexts, Fitting, CMetaDatas, CEndpoints)
    BY <2>1 DEF UserPlanes, UserPlaneToC, UserPlaneSpecToC, UserPlaneStatusToC
  <2> QED
    BY <1>2, <2>2 DEF ToC, Structures
<1>3. CASE t = "tsf"
  <2>1. m \in Steerings(Texts, MetaDatas(Texts), Endpoints(Texts))
    BY <1>3 DEF AnyMessage, MessagesOf
  <2>2. SteeringToC(m) \in Steerings(CTexts, CMetaDatas, CEndpoints)
    BY <2>1 DEF Steerings, SteeringToC, SteeringSpecToC
  <2> QED
    BY <1>3, <2>2 DEF ToC, Structures
<1>4. CASE t = "nc"
  <2>1. m \in NetworkConnections(Texts, MetaDatas(Texts), NCSpecs(Endpoints(Texts), Nat),
                                 Maps(Texts, BOOLEAN, Nat))
    BY <1>4 DEF AnyMessage, MessagesOf
  <2>2. NetworkConnectionToC(m) \in
            NetworkConnections(CTexts, CMetaDatas, CNCSpecs, Lists(CKeyValues, Fitting))
    BY <2>1, NCSpecIn DEF NetworkConnections, NetworkConnectionToC, NCStatusToC
  <2> QED
    BY <1>4, <2>2 DEF ToC, Structures
<1>5. CASE t = "shard"
  <2>1. m \in Shards(Texts, Nat, MetaDatas(Texts), Maps(Texts, Texts, Nat))
    BY <1>5 DEF AnyMessage, MessagesOf
  <2>2. ShardToC(m) \in Shards(CTexts, Fitting, CMetaDatas, Lists(CKeyValues, Fitting))
    BY <2>1 DEF Shards, ShardToC, ShardSpecToC, ShardDesiredToC, ShardStatusToC,
                ShardCurrentToC, ShardMbbToC
  <2> QED
    BY <1>5, <2>2 DEF ToC, Structures
<1>6. CASE t = "sctx"
  <2>1. m \in SessionContexts(Texts, Nat, MetaDatas(Texts))
    BY <1>6 DEF AnyMessage, MessagesOf
  <2>2. SessionContextToC(m) \in SessionContexts(CTexts, Fitting, CMetaDatas)
    BY <2>1 DEF SessionContexts, SessionContextToC, SessionSpecToC, SessionFilterToC,
                SessionDesiredToC, SessionStatusToC, SessionCurrentToC
  <2> QED
    BY <1>6, <2>2 DEF ToC, Structures
<1> QED
  BY <1>1, <1>2, <1>3, <1>4, <1>5, <1>6 DEF ItemTypes

LEMMA ItemOut ==
    ASSUME NEW t \in ItemTypes, NEW c \in Structures(t)
    PROVE  ToPb(t, c) \in AnyMessage(t)
<1> USE TextOut, ListOut, MetaOut, EndpointOut, MapOut
<1>1. CASE t = "sg"
  <2>1. c \in ServiceGateways(CTexts, CMetaDatas)
    BY <1>1 DEF Structures
  <2>2. ServiceGatewayToPb(c) \in ServiceGateways(Texts, MetaDatas(Texts))
    BY <2>1 DEF ServiceGateways, ServiceGatewayToPb
  <2> QED
    BY <1>1, <2>2 DEF ToPb, AnyMessage, MessagesOf
<1>2. CASE t = "sgup"
  <2>1. c \in UserPlanes(CTexts, Fitting, CMetaDatas, CEndpoints)
    BY <1>2 DEF Structures
  <2>2. UserPlaneToPb(c) \in UserPlanes(Texts, Nat, MetaDatas(Texts), Endpoints(Texts))
    BY <2>1 DEF UserPlanes, UserPlaneToPb, UserPlaneSpecToPb, UserPlaneStatusToPb
  <2> QED
    BY <1>2, <2>2 DEF ToPb, AnyMessage, MessagesOf
<1>3. CASE t = "tsf"
  <2>1. c \in Steerings(CTexts, CMetaDatas, CEndpoints)
    BY <1>3 DEF Structures
  <2>2. SteeringToPb(c) \in Steerings(Texts, MetaDatas(Texts), Endpoints(Texts))
    BY <2>1 DEF Steerings, SteeringToPb, SteeringSpecToPb
  <2> QED
    BY <1>3, <2>2 DEF ToPb, AnyMessage, MessagesOf
<1>4. CASE t = "nc"
  <2>1. c \in NetworkConnections(CTexts, CMetaDatas, CNCSpecs, Lists(CKeyValues, Fitting))
    BY <1>4 DEF Structures
  <2>2. NetworkConnectionToPb(c) \in
            NetworkConnections(Texts, MetaDatas(Texts), NCSpecs(Endpoints(Texts), Nat),
                               Maps(Texts, BOOLEAN, Nat))
    BY <2>1, NCSpecOut DEF NetworkConnections, NetworkConnectionToPb, NCStatusToPb
  <2> QED
    BY <1>4, <2>2 DEF ToPb, AnyMessage, MessagesOf
<1>5. CASE t = "shard"
  <2>1. c \in Shards(CTexts, Fitting, CMetaDatas, Lists(CKeyValues, Fitting))
    BY <1>5 DEF Structures
  <2>2. ShardToPb(c) \in Shards(Texts, Nat, MetaDatas(Texts), Maps(Texts, Texts, Nat))
    BY <2>1 DEF Shards, ShardToPb, ShardSpecToPb, ShardDesiredToPb, ShardStatusToPb,
                ShardCurrentToPb, ShardMbbToPb
  <2> QED
    BY <1>5, <2>2 DEF ToPb, AnyMessage, MessagesOf
<1>6. CASE t = "sctx"
  <2>1. c \in SessionContexts(CTexts, Fitting, CMetaDatas)
    BY <1>6 DEF Structures
  <2>2. SessionContextToPb(c) \in SessionContexts(Texts, Nat, MetaDatas(Texts))
    BY <2>1 DEF SessionContexts, SessionContextToPb, SessionSpecToPb, SessionFilterToPb,
                SessionDesiredToPb, SessionStatusToPb, SessionCurrentToPb
  <2> QED
    BY <1>6, <2>2 DEF ToPb, AnyMessage, MessagesOf
<1> QED
  BY <1>1, <1>2, <1>3, <1>4, <1>5, <1>6 DEF ItemTypes

(* A message that fits comes back as it was, but for the timestamps; of a  *)
(* network connection the status does not come back, but for its keys.     *)
LEMMA EchoConnection ==
    ASSUME NEW m \in FittingMessage("nc")
    PROVE  LET e == ToPb("nc", ToC("nc", m))
           IN /\ e = [name |-> m.name, metadata |-> [m.metadata EXCEPT !.times = NoTimes],
                      maintenance_req |-> m.maintenance_req, spec |-> e.spec, status |-> e.status]
              /\ KeysOf(e.status.nc_active) = KeysOf(m.status.nc_active)
              /\ NamesEndpoint(m.spec) => e.spec = m.spec
<1> DEFINE e == ToPb("nc", ToC("nc", m))
<1>1. m \in NetworkConnections(ShortTexts, MetaDatas(ShortTexts),
                               NCSpecs(Endpoints(ShortTexts), Fitting),
                               Maps(ShortTexts, BOOLEAN, Fitting))
  BY DEF FittingMessage, MessagesOf
<1>2. e = NetworkConnectionToPb(NetworkConnectionToC(m))
  BY DEF ToPb, ToC
<1>3. /\ e = [name |-> m.name, metadata |-> [m.metadata EXCEPT !.times = NoTimes],
              maintenance_req |-> m.maintenance_req, spec |-> e.spec, status |-> e.status]
      /\ e.spec = NCSpecToPb(NCSpecToC(m.spec))
      /\ e.status = NCStatusToPb(NCStatusToC(m.status))
  BY <1>1, <1>2, TextEcho, MetaEcho
     DEF NetworkConnections, NetworkConnectionToPb, NetworkConnectionToC
<1> HIDE DEF e
<1>4. KeysOf(e.status.nc_active) = KeysOf(m.status.nc_active)
  BY <1>1, <1>3, MapEcho DEF NetworkConnections, NCStatusToPb, NCStatusToC
<1>5. NamesEndpoint(m.spec) => e.spec = m.spec
  BY <1>1, <1>3, NCSpecEcho DEF NetworkConnections
<1> QED
  BY <1>3, <1>4, <1>5 DEF e

(* How a network connection has to look to be the same as m.               *)
LEMMA SameConnection ==
    ASSUME ty = "nc", NEW m \in AnyMessage("nc"), NEW e, NEW spec, NEW status,
           e = [name |-> m.name, metadata |-> [m.metadata EXCEPT !.times = NoTimes],
                maintenance_req |-> m.maintenance_req, spec |-> spec, status |-> status],
           KeysOf(status.nc_active) = KeysOf(m.status.nc_active),
           NamesEndpoint(m.spec) => spec = m.spec
    PROVE  SameItem(e, m)
<1> DEFINE meta == [m.metadata EXCEPT !.times = NoTimes]
           f == [e EXCEPT !.spec = m.spec]
           g == [f EXCEPT !.status = m.status]
<1>1. m \in NetworkConnections(Texts, MetaDatas(Texts), NCSpecs(Endpoints(Texts), Nat),
                               Maps(Texts, BOOLEAN, Nat))
  BY DEF AnyMessage, MessagesOf
<1>2. [meta EXCEPT !.times = NoTimes] = meta
  BY <1>1 DEF NetworkConnections, MetaDatas
<1>3. WithoutTimes(m)
          = [name |-> m.name, metadata |-> meta, maintenance_req |-> m.maintenance_req,
             spec |-> m.spec, status |-> m.status]
  BY <1>1 DEF NetworkConnections, WithoutTimes
<1> HIDE DEF meta
<1>4. f = [name |-> m.name, metadata |-> meta, maintenance_req |-> m.maintenance_req,
           spec |-> m.spec, status |-> status]
  BY DEF meta
<1>5. [e EXCEPT !.spec = m.spec, !.status = m.status] = g
  OBVIOUS
<1> HIDE DEF f
<1>6. g = [name |-> m.name, metadata |-> meta, maintenance_req |-> m.maintenance_req,
           spec |-> m.spec, status |-> m.status]
  BY <1>4
<1> HIDE DEF g
<1>7. WithoutTimes(g) = WithoutTimes(m)
  <2>1. WithoutTimes(g) = [g EXCEPT !.metadata = [meta EXCEPT !.times = NoTimes]]
    BY <1>6 DEF WithoutTimes
  <2>2. [g EXCEPT !.metadata = meta] = g
    BY <1>6
  <2> QED
    BY <1>2, <1>3, <1>6, <2>1, <2>2
<1>8. e.status = status /\ e.spec = spec
  OBVIOUS
<1> QED
  BY <1>5, <1>7, <1>8 DEF SameItem

LEMMA EchoItem ==
    ASSUME NEW t \in ItemTypes \ {"nc"}, NEW m \in FittingMessage(t)
    PROVE  ToPb(t, ToC(t, m)) = WithoutTimes(m)
<1> USE TextEcho, ListEcho, MetaEcho, EndpointEcho
<1>1. CASE t = "sg"
  <2>1. m \in ServiceGateways(ShortTexts, MetaDatas(ShortTexts))
    BY <1>1 DEF FittingMessage, MessagesOf
  <2>2. ServiceGatewayToPb(ServiceGatewayToC(m)) = WithoutTimes(m)
    BY <2>1 DEF ServiceGateways, ServiceGatewayToPb, ServiceGatewayToC, WithoutTimes
  <2> QED
    BY <1>1, <2>2 DEF ToPb, ToC
<1>2. CASE t = "sgup"
  <2>1. m \in UserPlanes(ShortTexts, Fitting, MetaDatas(ShortTexts), Endpoints(ShortTexts))
    BY <1>2 DEF FittingMessage, MessagesOf
  <2>2. UserPlaneToPb(UserPlaneToC(m)) = WithoutTimes(m)
    BY <2>1 DEF UserPlanes, UserPlaneToPb, UserPlaneToC, UserPlaneSpecToC, UserPlaneSpecToPb,
                UserPlaneStatusToC, UserPlaneStatusToPb, WithoutTimes
  <2> QED
    BY <1>2, <2>2 DEF ToPb, ToC
<1>3. CASE t = "tsf"
  <2>1. m \in Steerings(ShortTexts, MetaDatas(ShortTexts), Endpoints(ShortTexts))
    BY <1>3 DEF FittingMessage, MessagesOf
  <2>2. SteeringToPb(SteeringToC(m)) = WithoutTimes(m)
    BY <2>1 DEF Steerings, SteeringToPb, SteeringToC, SteeringSpecToC, SteeringSpecToPb,
                WithoutTimes
  <2> QED
    BY <1>3, <2>2 DEF ToPb, ToC
<1>4. CASE t = "shard"
  <2>1. m \in Shards(ShortTexts, Fitting, MetaDatas(ShortTexts),
                     Maps(ShortTexts, ShortTexts, Fitting))
    BY <1>4 DEF FittingMessage, MessagesOf
  <2>2. ShardSpecToPb(ShardSpecToC(m.spec)) = m.spec
    BY <2>1 DEF Shards, ShardSpecToPb, ShardSpecToC, ShardDesiredToPb, ShardDesiredToC
  <2>3. ShardStatusToPb(ShardStatusToC(m.status)) = m.status
    BY <2>1, MapEcho
       DEF Shards, ShardStatusToPb, ShardStatusToC, ShardCurrentToPb, ShardCurrentToC
  <2>4. ShardToPb(ShardToC(m)) = WithoutTimes(m)
    BY <2>1, <2>2, <2>3 DEF Shards, ShardToPb, ShardToC, ShardMbbToPb, ShardMbbToC, WithoutTimes
  <2> QED
    BY <1>4, <2>4 DEF ToPb, ToC
<1>5. CASE t = "sctx"
  <2>1. m \in SessionContexts(ShortTexts, Fitting, MetaDatas(ShortTexts))
    BY <1>5 DEF FittingMessage, MessagesOf
  <2>2. SessionSpecToPb(SessionSpecToC(m.spec)) = m.spec
    BY <2>1 DEF SessionContexts, SessionSpecToPb, SessionSpecToC, SessionFilterToPb,
                SessionFilterToC, SessionDesiredToPb, SessionDesiredToC
  <2>3. SessionContextToPb(SessionContextToC(m)) = WithoutTimes(m)
    BY <2>1, <2>2 DEF SessionContexts, SessionContextToPb, SessionContextToC, SessionStatusToPb,
                      SessionStatusToC, SessionCurrentToPb, SessionCurrentToC, WithoutTimes
  <2> QED
    BY <1>5, <2>3 DEF ToPb, ToC
<1> QED
  BY <1>1, <1>2, <1>3, <1>4, <1>5 DEF ItemTypes

-----------------------------------------------------------------------------
(* What the server makes of a request.                                     *)

(* A merged list begins with the old one, and is the old one if there is   *)
(* nothing new.                                                            *)
LEMMA SeqMerged ==
    ASSUME NEW S, NEW old \in Seq(S), NEW new \in Seq(S)
    PROVE  /\ MergeSeq(old, new) \in Seq(S)
           /\ Len(old) <= Len(MergeSeq(old, new))
           /\ ToSet(old) \subseteq ToSet(MergeSeq(old, new))
           /\ MergeSeq(old, old) = old
<1> DEFINE extra == ToSet(new) \ ToSet(old)
<1>1. IsFiniteSet(extra)
  <2>1. IsFiniteSet(ToSet(new))
    <3>1. new \in Surjection(1..Len(new), ToSet(new))
      BY DEF Surjection, ToSet
    <3> QED
      BY <3>1, FS_Interval, FS_Surjection
  <2> QED
    BY <2>1, FS_Subset
<1>2. SetToSeq(extra) \in Seq(extra)
  BY <1>1, InSomeOrder
<1>3. extra \subseteq S
  BY DEF ToSet
<1> HIDE DEF extra
<1>4. SetToSeq(extra) \in Seq(S)
  BY <1>2, <1>3
<1>5. MergeSeq(old, new) = old \o SetToSeq(extra)
  BY DEF MergeSeq, list_merge_strategy, extra
<1>6. ToSet(old) \subseteq ToSet(old \o SetToSeq(extra))
  BY <1>4 DEF ToSet
<1>7. MergeSeq(old, old) = old
  <2>1. IsFiniteSet({}) /\ Cardinality({}) = 0
    BY FS_EmptySet
  <2>2. SetToSeq({}) \in Seq({}) /\ Len(SetToSeq({})) = 0
    BY <2>1, InSomeOrder
  <2>3. SetToSeq({}) = <<>>
    BY <2>2
  <2>4. ToSet(old) \ ToSet(old) = {}
    OBVIOUS
  <2>5. MergeSeq(old, old) = old \o SetToSeq({})
    BY <2>4 DEF MergeSeq, list_merge_strategy
  <2> QED
    BY <2>3, <2>5, ConcatEmptySeq
<1> QED
  BY <1>4, <1>5, <1>6, <1>7

LEMMA MapMerged ==
    ASSUME NEW T, NEW V, NEW old \in Maps(T, V, Nat), NEW new \in Maps(T, V, Nat)
    PROVE  /\ MergeMap(old, new) \in Maps(T, V, Nat)
           /\ KeysOf(MergeMap(old, new)) = KeysOf(old) \cup KeysOf(new)
           /\ MergeMap(old, old) = old
<1> DEFINE kept == {p \in old : \A q \in new : q.key # p.key}
<1>1. MergeMap(old, new) = new \cup kept
  BY DEF MergeMap, list_merge_strategy
<1>2. /\ IsFiniteSet(old) /\ IsFiniteSet(new)
      /\ old \subseteq [key : T, value : V] /\ new \subseteq [key : T, value : V]
      /\ \A p, q \in old : p.key = q.key => p = q
      /\ \A p, q \in new : p.key = q.key => p = q
  BY DEF Maps
<1>3. IsFiniteSet(new \cup kept) /\ Cardinality(new \cup kept) \in Nat
  BY <1>2, FS_Subset, FS_Union, FS_CardinalityType
<1>4. MergeMap(old, new) \in Maps(T, V, Nat)
  BY <1>1, <1>2, <1>3 DEF Maps
<1>5. KeysOf(new \cup kept) = KeysOf(old) \cup KeysOf(new)
  BY DEF KeysOf
<1>6. MergeMap(old, old) = old
  BY DEF MergeMap, list_merge_strategy
<1> QED
  BY <1>1, <1>4, <1>5, <1>6

-----------------------------------------------------------------------------
(* What a caller changes in its structure.                                 *)

(* Another description goes through the mapping on its own.                *)
LEMMA Described ==
    ASSUME NEW t \in ItemTypes, NEW c \in Structures(t), NEW d \in CTexts
    PROVE  /\ WithDescription(c, d) \in Structures(t)
           /\ ToPb(t, WithDescription(c, d)) = WithDescription(ToPb(t, c), PbString(d))
<1>1. CASE t = "sg"
  <2>1. c \in ServiceGateways(CTexts, CMetaDatas)
    BY <1>1 DEF Structures
  <2>2. WithDescription(c, d) \in ServiceGateways(CTexts, CMetaDatas)
    BY <2>1 DEF ServiceGateways, CMetaDatas, WithDescription
  <2>3. ServiceGatewayToPb(WithDescription(c, d))
            = WithDescription(ServiceGatewayToPb(c), PbString(d))
    BY <2>1 DEF ServiceGateways, CMetaDatas, ServiceGatewayToPb, MetaDataToPb, WithDescription
  <2> QED
    BY <1>1, <2>2, <2>3 DEF ToPb, Structures
<1>2. CASE t = "sgup"
  <2>1. c \in UserPlanes(CTexts, Fitting, CMetaDatas, CEndpoints)
    BY <1>2 DEF Structures
  <2>2. WithDescription(c, d) \in UserPlanes(CTexts, Fitting, CMetaDatas, CEndpoints)
    BY <2>1 DEF UserPlanes, CMetaDatas, WithDescription
  <2>3. UserPlaneToPb(WithDescription(c, d)) = WithDescription(UserPlaneToPb(c), PbString(d))
    BY <2>1 DEF UserPlanes, CMetaDatas, UserPlaneToPb, MetaDataToPb, WithDescription
  <2> QED
    BY <1>2, <2>2, <2>3 DEF ToPb, Structures
<1>3. CASE t = "tsf"
  <2>1. c \in Steerings(CTexts, CMetaDatas, CEndpoints)
    BY <1>3 DEF Structures
  <2>2. WithDescription(c, d) \in Steerings(CTexts, CMetaDatas, CEndpoints)
    BY <2>1 DEF Steerings, CMetaDatas, WithDescription
  <2>3. SteeringToPb(WithDescription(c, d)) = WithDescription(SteeringToPb(c), PbString(d))
    BY <2>1 DEF Steerings, CMetaDatas, SteeringToPb, MetaDataToPb, WithDescription
  <2> QED
    BY <1>3, <2>2, <2>3 DEF ToPb, Structures
<1>4. CASE t = "nc"
  <2>1. c \in NetworkConnections(CTexts, CMetaDatas, CNCSpecs, Lists(CKeyValues, Fitting))
    BY <1>4 DEF Structures
  <2>2. WithDescription(c, d)
            \in NetworkConnections(CTexts, CMetaDatas, CNCSpecs, Lists(CKeyValues, Fitting))
    BY <2>1 DEF NetworkConnections, CMetaDatas, WithDescription
  <2>3. NetworkConnectionToPb(WithDescription(c, d))
            = WithDescription(NetworkConnectionToPb(c), PbString(d))
    BY <2>1 DEF NetworkConnections, CMetaDatas, NetworkConnectionToPb, MetaDataToPb,
                WithDescription
  <2> QED
    BY <1>4, <2>2, <2>3 DEF ToPb, Structures
<1>5. CASE t = "shard"
  <2>1. c \in Shards(CTexts, Fitting, CMetaDatas, Lists(CKeyValues, Fitting))
    BY <1>5 DEF Structures
  <2>2. WithDescription(c, d) \in Shards(CTexts, Fitting, CMetaDatas, Lists(CKeyValues, Fitting))
    BY <2>1 DEF Shards, CMetaDatas, WithDescription
  <2>3. ShardToPb(WithDescription(c, d)) = WithDescription(ShardToPb(c), PbString(d))
    BY <2>1 DEF Shards, CMetaDatas, ShardToPb, MetaDataToPb, WithDescription
  <2> QED
    BY <1>5, <2>2, <2>3 DEF ToPb, Structures
<1>6. CASE t = "sctx"
  <2>1. c \in SessionContexts(CTexts, Fitting, CMetaDatas)
    BY <1>6 DEF Structures
  <2>2. WithDescription(c, d) \in SessionContexts(CTexts, Fitting, CMetaDatas)
    BY <2>1 DEF SessionContexts, CMetaDatas, WithDescription
  <2>3. SessionContextToPb(WithDescription(c, d))
            = WithDescription(SessionContextToPb(c), PbString(d))
    BY <2>1 DEF SessionContexts, CMetaDatas, SessionContextToPb, MetaDataToPb, WithDescription
  <2> QED
    BY <1>6, <2>2, <2>3 DEF ToPb, Structures
<1> QED
  BY <1>1, <1>2, <1>3, <1>4, <1>5, <1>6 DEF ItemTypes

(* A description that is set is the one there is.                          *)
LEMMA DescribedAgain ==
    ASSUME NEW t \in ItemTypes, NEW c \in Structures(t)
    PROVE  /\ WithDescription(c, c.metadata.description) = c
           /\ \A d : WithDescription(c, d).metadata.description = d
           /\ \A d1, d2 : WithDescription(WithDescription(c, d1), d2) = WithDescription(c, d2)
<1>1. CASE t = "sg"
  BY <1>1 DEF Structures, ServiceGateways, CMetaDatas, WithDescription
<1>2. CASE t = "sgup"
  BY <1>2 DEF Structures, UserPlanes, CMetaDatas, WithDescription
<1>3. CASE t = "tsf"
  BY <1>3 DEF Structures, Steerings, CMetaDatas, WithDescription
<1>4. CASE t = "nc"
  BY <1>4 DEF Structures, NetworkConnections, CMetaDatas, WithDescription
<1>5. CASE t = "shard"
  BY <1>5 DEF Structures, Shards, CMetaDatas, WithDescription
<1>6. CASE t = "sctx"
  BY <1>6 DEF Structures, SessionContexts, CMetaDatas, WithDescription
<1> QED
  BY <1>1, <1>2, <1>3, <1>4, <1>5, <1>6 DEF ItemTypes

LEMMA ShortenedList ==
    ASSUME NEW S, NEW arr \in Lists(S, Fitting)
    PROVE  Shorter(arr) \in Lists(S, Fitting)
<1>1. CASE arr = <<>>
  BY <1>1 DEF Shorter
<1>2. CASE arr # <<>>
  <2> DEFINE n == Len(arr) - 1
  <2>1. arr \in Seq(S) /\ n \in Int /\ n + 1 \in Fitting /\ n + 1 # 0
    BY <1>2, EmptySeq DEF Lists, Fitting
  <2>2. Shorter(arr) = SubSeq(arr, 1, n)
    BY <1>2 DEF Shorter, Front
  <2> HIDE DEF n
  <2>3. n \in Nat /\ n \in Fitting
    BY <2>1, SizesAssumption DEF Fitting
  <2>4. \A i \in 1..n : arr[i] \in S
    BY <2>1, <2>3 DEF n
  <2>5. SubSeq(arr, 1, n) \in Seq(S) /\ Len(SubSeq(arr, 1, n)) = n
    BY <2>3, <2>4, SubSeqProperties
  <2> QED
    BY <2>2, <2>3, <2>5 DEF Lists
<1> QED
  BY <1>1, <1>2

(* Only a list that need not have one element is shortened.                *)
LEMMA ShortenedSpec ==
    ASSUME NEW spec \in CNCSpecs
    PROVE  DropEndpoint(spec) \in CNCSpecs
<1>1. /\ spec \in [maximum_supported_quality : Int, nc_spec_type : SpecKinds,
                   sgup_endpoint : Seq(CEndpoints), tsf_endpoint : Seq(CEndpoints)]
      /\ Len(spec.sgup_endpoint) \in SgupLengths(spec.nc_spec_type, Fitting)
      /\ Len(spec.tsf_endpoint) \in TsfLengths(spec.nc_spec_type, Fitting)
  BY DEF CNCSpecs
<1>2. CASE spec.nc_spec_type \in ManySgups
  <2> DEFINE new == Shorter(spec.sgup_endpoint)
             r == [spec EXCEPT !.sgup_endpoint = new]
  <2>1. SgupLengths(spec.nc_spec_type, Fitting) = Fitting
    BY <1>2 DEF ManySgups, SgupLengths
  <2>2. new \in Seq(CEndpoints) /\ Len(new) \in Fitting
    BY <1>1, <2>1, ShortenedList DEF Lists
  <2> HIDE DEF new
  <2>3. /\ r \in [maximum_supported_quality : Int, nc_spec_type : SpecKinds,
                  sgup_endpoint : Seq(CEndpoints), tsf_endpoint : Seq(CEndpoints)]
        /\ r.nc_spec_type = spec.nc_spec_type /\ r.sgup_endpoint = new
        /\ r.tsf_endpoint = spec.tsf_endpoint
    BY <1>1, <2>2
  <2>4. DropEndpoint(spec) = r
    BY <1>2 DEF DropEndpoint, ManySgups, new
  <2> HIDE DEF r
  <2> QED
    BY <1>1, <2>1, <2>2, <2>3, <2>4 DEF CNCSpecs
<1>3. CASE spec.nc_spec_type = "ms_mptp"
  <2> DEFINE new == Shorter(spec.tsf_endpoint)
             r == [spec EXCEPT !.tsf_endpoint = new]
  <2>1. TsfLengths(spec.nc_spec_type, Fitting) = Fitting
    BY <1>3 DEF TsfLengths
  <2>2. new \in Seq(CEndpoints) /\ Len(new) \in Fitting
    BY <1>1, <2>1, ShortenedList DEF Lists
  <2> HIDE DEF new
  <2>3. /\ r \in [maximum_supported_quality : Int, nc_spec_type : SpecKinds,
                  sgup_endpoint : Seq(CEndpoints), tsf_endpoint : Seq(CEndpoints)]
        /\ r.nc_spec_type = spec.nc_spec_type /\ r.tsf_endpoint = new
        /\ r.sgup_endpoint = spec.sgup_endpoint
    BY <1>1, <2>2
  <2>4. DropEndpoint(spec) = r
    BY <1>3 DEF DropEndpoint, ManySgups, new
  <2> HIDE DEF r
  <2> QED
    BY <1>1, <2>1, <2>2, <2>3, <2>4 DEF CNCSpecs
<1>4. CASE spec.nc_spec_type = "ms_ptp"
  BY <1>4 DEF DropEndpoint, ManySgups
<1> QED
  BY <1>1, <1>2, <1>3, <1>4 DEF SpecKinds, ManySgups

LEMMA Shortened ==
    ASSUME NEW c \in Callers, ty \in ItemTypes, buf[c] \in Structures(ty)
    PROVE  DropLast(c) \in Structures(ty)
<1>1. CASE ty = "sgup"
  <2>1. Shorter(buf[c].spec.supported_service_group) \in Lists(CTexts, Fitting)
    BY <1>1, ShortenedList DEF Structures, UserPlanes
  <2>2. [buf[c] EXCEPT !.spec.supported_service_group = Shorter(@)] \in Structures(ty)
    BY <1>1, <2>1 DEF Structures, UserPlanes
  <2> QED
    BY <1>1, <2>2 DEF DropLast
<1>2. CASE ty = "nc"
  <2>1. DropEndpoint(buf[c].spec) \in CNCSpecs
    BY <1>2, ShortenedSpec DEF Structures, NetworkConnections
  <2>2. [buf[c] EXCEPT !.spec = DropEndpoint(@)] \in Structures(ty)
    BY <1>2, <2>1 DEF Structures, NetworkConnections
  <2> QED
    BY <1>2, <2>2 DEF DropLast
<1>3. CASE ty = "shard"
  <2>1. Shorter(buf[c].spec.prefix) \in Lists(CTexts, Fitting)
    BY <1>3, ShortenedList DEF Structures, Shards
  <2>2. [buf[c] EXCEPT !.spec.prefix = Shorter(@)] \in Structures(ty)
    BY <1>3, <2>1 DEF Structures, Shards
  <2> QED
    BY <1>3, <2>2 DEF DropLast
<1>4. CASE ty = "sctx"
  <2>1. Shorter(buf[c].spec.required_service_group) \in Lists(CTexts, Fitting)
    BY <1>4, ShortenedList DEF Structures, SessionContexts
  <2>2. [buf[c] EXCEPT !.spec.required_service_group = Shorter(@)] \in Structures(ty)
    BY <1>4, <2>1 DEF Structures, SessionContexts
  <2> QED
    BY <1>4, <2>2 DEF DropLast
<1>5. CASE ty \in {"sg", "tsf"}
  BY <1>5 DEF DropLast
<1> QED
  BY <1>1, <1>2, <1>3, <1>4, <1>5 DEF ItemTypes

-----------------------------------------------------------------------------
(* What becomes of an item that is updated.                                *)

(* The two types with more than one merged field, written out.             *)
LEMMA MergedShard ==
    ASSUME ty = "shard",
           NEW old \in Shards(Texts, Nat, MetaDatas(Texts), Maps(Texts, Texts, Nat)),
           NEW new \in Shards(Texts, Nat, MetaDatas(Texts), Maps(Texts, Texts, Nat))
    PROVE  LET was == old.spec.desired_state.network_connection
               now == new.spec.desired_state.network_connection
           IN Merge(old, new) =
                  [name |-> new.name,
                   metadata |-> new.metadata,
                   spec |-> [max_session_count |-> new.spec.max_session_count,
                             virtual_mac |-> new.spec.virtual_mac,
                             desired_state |->
                                 [service_gateway_user_plane |->
                                      new.spec.desired_state.service_gateway_user_plane,
                                  network_connection |-> MergeSeq(was, now)],
                             prefix |-> MergeSeq(old.spec.prefix, new.spec.prefix)],
                   status |-> [allocated_session_count |-> new.status.allocated_session_count,
                               maximum_allocated_quality |-> new.status.maximum_allocated_quality,
                               service_groups_supported |->
                                   MergeSeq(old.status.service_groups_supported,
                                            new.status.service_groups_supported),
                               current_state |->
                                   [service_gateway_user_plane |->
                                        new.status.current_state.service_gateway_user_plane,
                                    tsf_network_connection |->
                                        MergeMap(old.status.current_state.tsf_network_connection,
                                                 new.status.current_state.tsf_network_connection)]],
                   mbb |-> new.mbb]
<1> DEFINE desired == MergeSeq(old.spec.desired_state.network_connection,
                               new.spec.desired_state.network_connection)
           prefix == MergeSeq(old.spec.prefix, new.spec.prefix)
           groups == MergeSeq(old.status.service_groups_supported,
                              new.status.service_groups_supported)
           current == MergeMap(old.status.current_state.tsf_network_connection,
                               new.status.current_state.tsf_network_connection)
           r1 == [new EXCEPT !.spec.desired_state.network_connection = desired]
           r2 == [r1 EXCEPT !.spec.prefix = prefix]
           r3 == [r2 EXCEPT !.status.service_groups_supported = groups]
           r4 == [r3 EXCEPT !.status.current_state.tsf_network_connection = current]
           spec1 == [max_session_count |-> new.spec.max_session_count,
                     virtual_mac |-> new.spec.virtual_mac,
                     desired_state |-> [service_gateway_user_plane |->
                                            new.spec.desired_state.service_gateway_user_plane,
                                        network_connection |-> desired],
                     prefix |-> new.spec.prefix]
           spec2 == [max_session_count |-> new.spec.max_session_count,
                     virtual_mac |-> new.spec.virtual_mac,
                     desired_state |-> [service_gateway_user_plane |->
                                            new.spec.desired_state.service_gateway_user_plane,
                                        network_connection |-> desired],
                     prefix |-> prefix]
           status1 == [allocated_session_count |-> new.status.allocated_session_count,
                       maximum_allocated_quality |-> new.status.maximum_allocated_quality,
                       service_groups_supported |-> groups,
                       current_state |-> new.status.current_state]
           status2 == [allocated_session_count |-> new.status.allocated_session_count,
                       maximum_allocated_quality |-> new.status.maximum_allocated_quality,
                       service_groups_supported |-> groups,
                       current_state |-> [service_gateway_user_plane |->
                                              new.status.current_state.service_gateway_user_plane,
                                          tsf_network_connection |-> current]]
<1>1. Merge(old, new) = r4
  BY DEF Merge
<1> HIDE DEF desired, prefix, groups, current
<1>2. r1 = [name |-> new.name, metadata |-> new.metadata, spec |-> spec1,
            status |-> new.status, mbb |-> new.mbb]
  BY DEF Shards
<1> HIDE DEF r1
<1>3. r2 = [name |-> new.name, metadata |-> new.metadata, spec |-> spec2,
            status |-> new.status, mbb |-> new.mbb]
  BY <1>2
<1> HIDE DEF r2, spec1, spec2
<1>4. r3 = [name |-> new.name, metadata |-> new.metadata, spec |-> spec2,
            status |-> status1, mbb |-> new.mbb]
  BY <1>3 DEF Shards
<1> HIDE DEF r3
<1>5. r4 = [name |-> new.name, metadata |-> new.metadata, spec |-> spec2,
            status |-> status2, mbb |-> new.mbb]
  BY <1>4 DEF Shards
<1> QED
  BY <1>1, <1>5 DEF spec2, desired, prefix, groups, current

(* A merged spec is a spec; it keeps the endpoints of one of its kind.     *)
LEMMA MergedSpec ==
    ASSUME NEW old \in NCSpecs(Endpoints(Texts), Nat), NEW new \in NCSpecs(Endpoints(Texts), Nat)
    PROVE  /\ MergeSpec(old, new) \in NCSpecs(Endpoints(Texts), Nat)
           /\ KeepsEndpoints(old, MergeSpec(old, new))
           /\ MergeSpec(old, old) = old
<1> DEFINE Fields == [maximum_supported_quality : Int, nc_spec : SpecKinds \cup {"unset"},
                      sgup_endpoint : Seq(Endpoints(Texts)), tsf_endpoint : Seq(Endpoints(Texts))]
           kind == new.nc_spec
           sgup == IF kind \in ManySgups
                   THEN MergeSeq(old.sgup_endpoint, new.sgup_endpoint) ELSE new.sgup_endpoint
           tsf == IF kind \in ManyTsfs
                  THEN MergeSeq(old.tsf_endpoint, new.tsf_endpoint) ELSE new.tsf_endpoint
           r == [new EXCEPT !.sgup_endpoint = sgup, !.tsf_endpoint = tsf]
<1>1. /\ old \in Fields /\ new \in Fields
      /\ Len(new.sgup_endpoint) \in SgupLengths(kind, Nat)
      /\ Len(new.tsf_endpoint) \in TsfLengths(kind, Nat)
  BY DEF NCSpecs
<1>2. MergeSpec(old, old) = old
  <2>1. /\ MergeSeq(old.sgup_endpoint, old.sgup_endpoint) = old.sgup_endpoint
        /\ MergeSeq(old.tsf_endpoint, old.tsf_endpoint) = old.tsf_endpoint
    BY <1>1, SeqMerged
  <2>2. MergeSpec(old, old)
            = [old EXCEPT !.sgup_endpoint = old.sgup_endpoint, !.tsf_endpoint = old.tsf_endpoint]
    BY <2>1 DEF MergeSpec
  <2> QED
    BY <1>1, <2>2
<1>3. CASE old.nc_spec # new.nc_spec
  BY <1>2, <1>3 DEF MergeSpec, KeepsEndpoints
<1>4. CASE old.nc_spec = new.nc_spec
  <2>1. /\ sgup \in Seq(Endpoints(Texts)) /\ tsf \in Seq(Endpoints(Texts))
        /\ kind \in ManySgups => ToSet(old.sgup_endpoint) \subseteq ToSet(sgup)
        /\ kind \in ManyTsfs => ToSet(old.tsf_endpoint) \subseteq ToSet(tsf)
    BY <1>1, SeqMerged
  <2>2. Len(sgup) \in SgupLengths(kind, Nat)
    <3>1. CASE kind \in ManySgups
      BY <2>1, <3>1 DEF ManySgups, SgupLengths
    <3>2. CASE kind \notin ManySgups
      BY <1>1, <3>2
    <3> QED
      BY <3>1, <3>2
  <2>3. Len(tsf) \in TsfLengths(kind, Nat)
    <3>1. CASE kind \in ManyTsfs
      BY <2>1, <3>1 DEF ManyTsfs, TsfLengths
    <3>2. CASE kind \notin ManyTsfs
      BY <1>1, <3>2
    <3> QED
      BY <3>1, <3>2
  <2>4. MergeSpec(old, new) = r
    BY <1>1, <1>4 DEF MergeSpec
  <2> HIDE DEF sgup, tsf
  <2>5. /\ r \in Fields /\ r.nc_spec = kind
        /\ r.sgup_endpoint = sgup /\ r.tsf_endpoint = tsf
    BY <1>1, <2>1
  <2> HIDE DEF r
  <2>6. r \in NCSpecs(Endpoints(Texts), Nat)
    BY <2>2, <2>3, <2>5 DEF NCSpecs
  <2>7. KeepsEndpoints(old, r)
    BY <1>4, <2>1, <2>5 DEF KeepsEndpoints
  <2> QED
    BY <2>4, <2>6, <2>7, <1>2
<1> QED
  BY <1>3, <1>4

LEMMA MergedConnection ==
    ASSUME ty = "nc",
           NEW old \in NetworkConnections(Texts, MetaDatas(Texts),
                                          NCSpecs(Endpoints(Texts), Nat),
                                          Maps(Texts, BOOLEAN, Nat)),
           NEW new \in NetworkConnections(Texts, MetaDatas(Texts),
                                          NCSpecs(Endpoints(Texts), Nat),
                                          Maps(Texts, BOOLEAN, Nat))
    PROVE  Merge(old, new) =
               [name |-> new.name,
                metadata |-> new.metadata,
                maintenance_req |-> new.maintenance_req,
                spec |-> MergeSpec(old.spec, new.spec),
                status |-> [nc_active |-> MergeMap(old.status.nc_active, new.status.nc_active),
                            allocated_shards |-> new.status.allocated_shards]]
<1> DEFINE spec == MergeSpec(old.spec, new.spec)
           active == MergeMap(old.status.nc_active, new.status.nc_active)
           r1 == [new EXCEPT !.spec = spec]
           r2 == [r1 EXCEPT !.status.nc_active = active]
<1>1. Merge(old, new) = r2
  BY DEF Merge
<1> HIDE DEF spec, active
<1>2. r1 = [name |-> new.name, metadata |-> new.metadata,
            maintenance_req |-> new.maintenance_req, spec |-> spec, status |-> new.status]
  BY DEF NetworkConnections
<1> HIDE DEF r1
<1>3. r2 = [name |-> new.name, metadata |-> new.metadata,
            maintenance_req |-> new.maintenance_req, spec |-> spec,
            status |-> [nc_active |-> active, allocated_shards |-> new.status.allocated_shards]]
  BY <1>2 DEF NetworkConnections
<1> QED
  BY <1>1, <1>3 DEF spec, active

(* An updated item is still of its type and has what it had.               *)
LEMMA Merged ==
    ASSUME ty \in ItemTypes, NEW old \in AnyMessage(ty), NEW new \in AnyMessage(ty)
    PROVE  Merge(old, new) \in AnyMessage(ty) /\ KeepsEntries(old, Merge(old, new))
<1>1. ASSUME NEW o \in Lists(Texts, Nat), NEW n \in Lists(Texts, Nat)
      PROVE  MergeSeq(o, n) \in Lists(Texts, Nat) /\ ToSet(o) \subseteq ToSet(MergeSeq(o, n))
  BY SeqMerged DEF Lists
<1>2. CASE ty \in {"sg", "tsf"}
  BY <1>2 DEF Merge, EntriesOf, KeepsEntries
<1>3. CASE ty = "sgup"
  <2> DEFINE groups == MergeSeq(old.spec.supported_service_group, new.spec.supported_service_group)
             r == [new EXCEPT !.spec.supported_service_group = groups]
  <2>1. /\ old \in UserPlanes(Texts, Nat, MetaDatas(Texts), Endpoints(Texts))
        /\ new \in UserPlanes(Texts, Nat, MetaDatas(Texts), Endpoints(Texts))
    BY <1>3 DEF AnyMessage, MessagesOf
  <2>2. /\ groups \in Lists(Texts, Nat)
        /\ ToSet(old.spec.supported_service_group) \subseteq ToSet(groups)
    BY <1>1, <2>1 DEF UserPlanes
  <2>3. Merge(old, new) = r
    BY <1>3 DEF Merge
  <2> HIDE DEF groups
  <2>4. /\ r \in UserPlanes(Texts, Nat, MetaDatas(Texts), Endpoints(Texts))
        /\ r.spec.supported_service_group = groups
    BY <2>1, <2>2 DEF UserPlanes
  <2> QED
    BY <1>3, <2>2, <2>3, <2>4 DEF AnyMessage, MessagesOf, EntriesOf, KeepsEntries
<1>4. CASE ty = "nc"
  <2> DEFINE Connections == NetworkConnections(Texts, MetaDatas(Texts),
                                               NCSpecs(Endpoints(Texts), Nat),
                                               Maps(Texts, BOOLEAN, Nat))
             r == Merge(old, new)
  <2>1. old \in Connections /\ new \in Connections
    BY <1>4 DEF AnyMessage, MessagesOf
  <2>2. /\ old.status.nc_active \in Maps(Texts, BOOLEAN, Nat)
        /\ new.status.nc_active \in Maps(Texts, BOOLEAN, Nat)
    BY <2>1 DEF NetworkConnections
  <2>3. /\ r.status.nc_active = MergeMap(old.status.nc_active, new.status.nc_active)
        /\ r.status = [nc_active |-> r.status.nc_active,
                       allocated_shards |-> new.status.allocated_shards]
        /\ r = [name |-> new.name, metadata |-> new.metadata,
                maintenance_req |-> new.maintenance_req, spec |-> r.spec, status |-> r.status]
        /\ r.spec = MergeSpec(old.spec, new.spec)
    BY <1>4, <2>1, MergedConnection
  <2> HIDE DEF r
  <2>4. /\ r.status.nc_active \in Maps(Texts, BOOLEAN, Nat)
        /\ KeysOf(old.status.nc_active) \subseteq KeysOf(r.status.nc_active)
    BY <2>2, <2>3, MapMerged
  <2>5. /\ r.spec \in NCSpecs(Endpoints(Texts), Nat)
        /\ KeepsEndpoints(old.spec, r.spec)
    <3>1. /\ old.spec \in NCSpecs(Endpoints(Texts), Nat)
          /\ new.spec \in NCSpecs(Endpoints(Texts), Nat)
      BY <2>1 DEF NetworkConnections
    <3> QED
      BY <2>3, <3>1, MergedSpec
  <2>6. r \in Connections
    BY <2>1, <2>3, <2>4, <2>5 DEF NetworkConnections
  <2> QED
    BY <1>4, <2>4, <2>5, <2>6 DEF AnyMessage, MessagesOf, EntriesOf, KeepsEntries, r
<1>5. CASE ty = "shard"
  <2> DEFINE AllShards == Shards(Texts, Nat, MetaDatas(Texts), Maps(Texts, Texts, Nat))
             desired == MergeSeq(old.spec.desired_state.network_connection,
                                 new.spec.desired_state.network_connection)
             prefix == MergeSeq(old.spec.prefix, new.spec.prefix)
             groups == MergeSeq(old.status.service_groups_supported,
                                new.status.service_groups_supported)
             current == MergeMap(old.status.current_state.tsf_network_connection,
                                 new.status.current_state.tsf_network_connection)
             r == Merge(old, new)
  <2>1. old \in AllShards /\ new \in AllShards
    BY <1>5 DEF AnyMessage, MessagesOf
  <2>2. /\ desired \in Lists(Texts, Nat)
        /\ ToSet(old.spec.desired_state.network_connection) \subseteq ToSet(desired)
    BY <1>1, <2>1 DEF Shards
  <2>3. prefix \in Lists(Texts, Nat) /\ ToSet(old.spec.prefix) \subseteq ToSet(prefix)
    BY <1>1, <2>1 DEF Shards
  <2>4. /\ groups \in Lists(Texts, Nat)
        /\ ToSet(old.status.service_groups_supported) \subseteq ToSet(groups)
    BY <1>1, <2>1 DEF Shards
  <2>5. /\ current \in Maps(Texts, Texts, Nat)
        /\ KeysOf(old.status.current_state.tsf_network_connection) \subseteq KeysOf(current)
    BY <2>1, MapMerged DEF Shards
  <2>6. r = [name |-> new.name, metadata |-> new.metadata,
             spec |-> [max_session_count |-> new.spec.max_session_count,
                       virtual_mac |-> new.spec.virtual_mac,
                       desired_state |-> [service_gateway_user_plane |->
                                              new.spec.desired_state.service_gateway_user_plane,
                                          network_connection |-> desired],
                       prefix |-> prefix],
             status |-> [allocated_session_count |-> new.status.allocated_session_count,
                         maximum_allocated_quality |-> new.status.maximum_allocated_quality,
                         service_groups_supported |-> groups,
                         current_state |->
                             [service_gateway_user_plane |->
                                  new.status.current_state.service_gateway_user_plane,
                              tsf_network_connection |-> current]],
             mbb |-> new.mbb]
    BY <1>5, <2>1, MergedShard
  <2> HIDE DEF desired, prefix, groups, current, r
  <2>7. r \in AllShards
    BY <2>1, <2>2, <2>3, <2>4, <2>5, <2>6 DEF Shards
  <2>8. /\ r.spec.desired_state.network_connection = desired
        /\ r.spec.prefix = prefix
        /\ r.status.service_groups_supported = groups
        /\ r.status.current_state.tsf_network_connection = current
    BY <2>6
  <2>9. EntriesOf(old) \subseteq EntriesOf(r)
    BY <1>5, <2>2, <2>3, <2>4, <2>5, <2>8 DEF EntriesOf
  <2> QED
    BY <1>5, <2>7, <2>9 DEF AnyMessage, MessagesOf, KeepsEntries, r
<1>6. CASE ty = "sctx"
  <2> DEFINE groups == MergeSeq(old.spec.required_service_group, new.spec.required_service_group)
             r == [new EXCEPT !.spec.required_service_group = groups]
  <2>1. /\ old \in SessionContexts(Texts, Nat, MetaDatas(Texts))
        /\ new \in SessionContexts(Texts, Nat, MetaDatas(Texts))
    BY <1>6 DEF AnyMessage, MessagesOf
  <2>2. /\ groups \in Lists(Texts, Nat)
        /\ ToSet(old.spec.required_service_group) \subseteq ToSet(groups)
    BY <1>1, <2>1 DEF SessionContexts
  <2>3. Merge(old, new) = r
    BY <1>6 DEF Merge
  <2> HIDE DEF groups
  <2>4. /\ r \in SessionContexts(Texts, Nat, MetaDatas(Texts))
        /\ r.spec.required_service_group = groups
    BY <2>1, <2>2 DEF SessionContexts
  <2> QED
    BY <1>6, <2>2, <2>3, <2>4 DEF AnyMessage, MessagesOf, EntriesOf, KeepsEntries
<1> QED
  BY <1>2, <1>3, <1>4, <1>5, <1>6 DEF ItemTypes

(* The same of messages, and of their timestamps.                          *)
LEMMA MetaDataOnce ==
    ASSUME NEW t \in ItemTypes, NEW m \in AnyMessage(t), NEW x
    PROVE  LET n == WithDescription(WithoutTimes(m), x)
           IN /\ WithoutTimes(WithoutTimes(m)) = WithoutTimes(m)
              /\ WithDescription(n, m.metadata.description) = WithoutTimes(m)
              /\ x \in Texts => n \in AnyMessage(t)
<1>1. CASE t = "sg"
  BY <1>1 DEF AnyMessage, MessagesOf, ServiceGateways, MetaDatas, WithDescription, WithoutTimes
<1>2. CASE t = "sgup"
  BY <1>2 DEF AnyMessage, MessagesOf, UserPlanes, MetaDatas, WithDescription, WithoutTimes
<1>3. CASE t = "tsf"
  BY <1>3 DEF AnyMessage, MessagesOf, Steerings, MetaDatas, WithDescription, WithoutTimes
<1>4. CASE t = "nc"
  BY <1>4 DEF AnyMessage, MessagesOf, NetworkConnections, MetaDatas, WithDescription, WithoutTimes
<1>5. CASE t = "shard"
  BY <1>5 DEF AnyMessage, MessagesOf, Shards, MetaDatas, WithDescription, WithoutTimes
<1>6. CASE t = "sctx"
  BY <1>6 DEF AnyMessage, MessagesOf, SessionContexts, MetaDatas, WithDescription, WithoutTimes
<1> QED
  BY <1>1, <1>2, <1>3, <1>4, <1>5, <1>6 DEF ItemTypes

(* Merged with an item that differs in its metadata only, an item takes    *)
(* these and stays as it is.                                               *)
LEMMA FreshItem ==
    ASSUME ty \in ItemTypes \ {"nc"}, NEW m \in AnyMessage(ty), NEW x \in Texts
    PROVE  LET n == WithDescription(WithoutTimes(m), x) IN Merge(m, n) = n
<1> DEFINE n == WithDescription(WithoutTimes(m), x)
<1>1. ASSUME NEW list \in Lists(Texts, Nat)
      PROVE  MergeSeq(list, list) = list
  BY SeqMerged DEF Lists
<1>2. CASE ty \in {"sg", "tsf"}
  BY <1>2 DEF Merge
<1>3. CASE ty = "sgup"
  <2>1. m \in UserPlanes(Texts, Nat, MetaDatas(Texts), Endpoints(Texts))
    BY <1>3 DEF AnyMessage, MessagesOf
  <2>2. n \in UserPlanes(Texts, Nat, MetaDatas(Texts), Endpoints(Texts)) /\ n.spec = m.spec
    BY <2>1 DEF UserPlanes, MetaDatas, WithDescription, WithoutTimes
  <2> HIDE DEF n
  <2>3. Merge(m, n) = [n EXCEPT !.spec.supported_service_group =
                           MergeSeq(m.spec.supported_service_group, @)]
    BY <1>3 DEF Merge
  <2>4. MergeSeq(m.spec.supported_service_group, n.spec.supported_service_group)
            = n.spec.supported_service_group
    BY <1>1, <2>1, <2>2 DEF UserPlanes
  <2>5. [n EXCEPT !.spec.supported_service_group = n.spec.supported_service_group] = n
    BY <2>2 DEF UserPlanes
  <2> QED
    BY <2>3, <2>4, <2>5 DEF n
<1>4. CASE ty = "shard"
  <2>1. m \in Shards(Texts, Nat, MetaDatas(Texts), Maps(Texts, Texts, Nat))
    BY <1>4 DEF AnyMessage, MessagesOf
  <2>2. /\ n \in Shards(Texts, Nat, MetaDatas(Texts), Maps(Texts, Texts, Nat))
        /\ n.spec = m.spec /\ n.status = m.status
    BY <2>1 DEF Shards, MetaDatas, WithDescription, WithoutTimes
  <2> HIDE DEF n
  <2>3. /\ MergeSeq(m.spec.desired_state.network_connection, n.spec.desired_state.network_connection)
               = n.spec.desired_state.network_connection
        /\ MergeSeq(m.spec.prefix, n.spec.prefix) = n.spec.prefix
        /\ MergeSeq(m.status.service_groups_supported, n.status.service_groups_supported)
               = n.status.service_groups_supported
    BY <1>1, <2>1, <2>2 DEF Shards
  <2>4. MergeMap(m.status.current_state.tsf_network_connection,
                 n.status.current_state.tsf_network_connection)
            = n.status.current_state.tsf_network_connection
    BY <2>1, <2>2, MapMerged DEF Shards
  <2>5. Merge(m, n) =
            [name |-> n.name, metadata |-> n.metadata,
             spec |-> [max_session_count |-> n.spec.max_session_count,
                       virtual_mac |-> n.spec.virtual_mac,
                       desired_state |-> [service_gateway_user_plane |->
                                              n.spec.desired_state.service_gateway_user_plane,
                                          network_connection |->
                                              n.spec.desired_state.network_connection],
                       prefix |-> n.spec.prefix],
             status |-> [allocated_session_count |-> n.status.allocated_session_count,
                         maximum_allocated_quality |-> n.status.maximum_allocated_quality,
                         service_groups_supported |-> n.status.service_groups_supported,
                         current_state |->
                             [service_gateway_user_plane |->
                                  n.status.current_state.service_gateway_user_plane,
                              tsf_network_connection |->
                                  n.status.current_state.tsf_network_connection]],
             mbb |-> n.mbb]
    BY <1>4, <2>1, <2>2, <2>3, <2>4, MergedShard
  <2>6. Merge(m, n) = n
    BY <2>2, <2>5 DEF Shards
  <2> QED
    BY <2>6 DEF n
<1>5. CASE ty = "sctx"
  <2>1. m \in SessionContexts(Texts, Nat, MetaDatas(Texts))
    BY <1>5 DEF AnyMessage, MessagesOf
  <2>2. n \in SessionContexts(Texts, Nat, MetaDatas(Texts)) /\ n.spec = m.spec
    BY <2>1 DEF SessionContexts, MetaDatas, WithDescription, WithoutTimes
  <2> HIDE DEF n
  <2>3. Merge(m, n) = [n EXCEPT !.spec.required_service_group =
                           MergeSeq(m.spec.required_service_group, @)]
    BY <1>5 DEF Merge
  <2>4. MergeSeq(m.spec.required_service_group, n.spec.required_service_group)
            = n.spec.required_service_group
    BY <1>1, <2>1, <2>2 DEF SessionContexts
  <2>5. [n EXCEPT !.spec.required_service_group = n.spec.required_service_group] = n
    BY <2>2 DEF SessionContexts
  <2> QED
    BY <2>3, <2>4, <2>5 DEF n
<1> QED
  BY <1>2, <1>3, <1>4, <1>5 DEF ItemTypes

LEMMA FreshConnection ==
    ASSUME ty = "nc", NEW m \in FittingMessage(ty), m \in AnyMessage(ty), NEW x \in Texts
    PROVE  LET n == WithDescription(ToPb(ty, ToC(ty, m)), x)
           IN SameItem(WithDescription(Merge(m, n), m.metadata.description), m)
<1> DEFINE Connections == NetworkConnections(Texts, MetaDatas(Texts),
                                             NCSpecs(Endpoints(Texts), Nat),
                                             Maps(Texts, BOOLEAN, Nat))
           e == ToPb(ty, ToC(ty, m))
           n == WithDescription(e, x)
           r == Merge(m, n)
           meta == [description |-> x, derived_state |-> m.metadata.derived_state,
                    times |-> NoTimes]
<1>1. m \in Connections
  BY DEF AnyMessage, MessagesOf
<1>2. e \in Connections
  <2>1. ToC(ty, m) \in Structures(ty)
    BY ItemIn DEF ItemTypes
  <2> QED
    BY <2>1, ItemOut DEF ItemTypes, AnyMessage, MessagesOf
<1>3. /\ e = [name |-> m.name, metadata |-> [m.metadata EXCEPT !.times = NoTimes],
              maintenance_req |-> m.maintenance_req, spec |-> e.spec, status |-> e.status]
      /\ KeysOf(e.status.nc_active) = KeysOf(m.status.nc_active)
      /\ NamesEndpoint(m.spec) => e.spec = m.spec
  BY EchoConnection
<1> HIDE DEF e
<1>4. n = [name |-> m.name, metadata |-> meta, maintenance_req |-> m.maintenance_req,
           spec |-> e.spec, status |-> e.status]
  BY <1>1, <1>2, <1>3 DEF NetworkConnections, MetaDatas, WithDescription
<1>5. n \in Connections
  BY <1>2 DEF NetworkConnections, MetaDatas, WithDescription
<1> HIDE DEF n
<1>6. /\ r = [name |-> n.name, metadata |-> n.metadata, maintenance_req |-> n.maintenance_req,
              spec |-> r.spec, status |-> r.status]
      /\ r.spec = MergeSpec(m.spec, n.spec)
      /\ r.status.nc_active = MergeMap(m.status.nc_active, n.status.nc_active)
  BY <1>1, <1>5, MergedConnection
<1> HIDE DEF r
<1>7. KeysOf(r.status.nc_active) = KeysOf(m.status.nc_active)
  <2>1. /\ m.status.nc_active \in Maps(Texts, BOOLEAN, Nat)
        /\ n.status.nc_active \in Maps(Texts, BOOLEAN, Nat)
    BY <1>1, <1>5 DEF NetworkConnections
  <2>2. KeysOf(MergeMap(m.status.nc_active, n.status.nc_active))
            = KeysOf(m.status.nc_active) \cup KeysOf(n.status.nc_active)
    BY <2>1, MapMerged
  <2>3. KeysOf(n.status.nc_active) = KeysOf(m.status.nc_active)
    BY <1>3, <1>4
  <2> QED
    BY <1>6, <2>2, <2>3
<1>8. NamesEndpoint(m.spec) => r.spec = m.spec
  <2>1. m.spec \in NCSpecs(Endpoints(Texts), Nat)
    BY <1>1 DEF NetworkConnections
  <2>2. MergeSpec(m.spec, m.spec) = m.spec
    BY <2>1, MergedSpec
  <2> QED
    BY <1>3, <1>4, <1>6, <2>2
<1>9. WithDescription(r, m.metadata.description)
          = [name |-> m.name, metadata |-> [m.metadata EXCEPT !.times = NoTimes],
             maintenance_req |-> m.maintenance_req, spec |-> r.spec, status |-> r.status]
  <2>1. r = [name |-> m.name, metadata |-> meta, maintenance_req |-> m.maintenance_req,
             spec |-> r.spec, status |-> r.status]
    BY <1>4, <1>6
  <2>2. [meta EXCEPT !.description = m.metadata.description]
            = [m.metadata EXCEPT !.times = NoTimes]
    BY <1>1 DEF NetworkConnections, MetaDatas
  <2>3. WithDescription(r, m.metadata.description)
            = [r EXCEPT !.metadata = [meta EXCEPT !.description = m.metadata.description]]
    BY <2>1 DEF WithDescription
  <2> HIDE DEF meta
  <2>4. \A v : [r EXCEPT !.metadata = v]
            = [name |-> m.name, metadata |-> v, maintenance_req |-> m.maintenance_req,
               spec |-> r.spec, status |-> r.status]
    BY <2>1
  <2> QED
    BY <2>2, <2>3, <2>4
<1>10. SameItem(WithDescription(r, m.metadata.description), m)
  BY <1>7, <1>8, <1>9, SameConnection
<1> QED
  BY <1>10 DEF r, n, e

-----------------------------------------------------------------------------
(* The invariant.                                                          *)

LEMMA InitHolds == Init => ItemsInv
BY ItemsAssumption DEF Init, ItemsInv, TypeOK, WithinBuffers, FilledFromReply, Filled

(* A call that maps a reply into its structure.                            *)
LEMMA Received ==
    ASSUME ItemsInv, NEW c \in Callers, NEW m \in AnyMessage(ty), Receive(c, m),
           UNCHANGED <<ty, edits>>, stored' # None => stored' \in AnyMessage(ty)
    PROVE  ItemsInv'
<1>1. /\ buf' = [buf EXCEPT ![c] = ToC(ty, m)]
      /\ base' = [base EXCEPT ![c] = m]
      /\ touched' = [touched EXCEPT ![c] = {}]
  BY DEF Receive
<1>2. ty \in ItemTypes /\ ToC(ty, m) \in Structures(ty)
  BY ItemIn DEF ItemsInv, TypeOK
<1>3. WithDescription(ToC(ty, m), ToC(ty, m).metadata.description) = ToC(ty, m)
  BY <1>2, DescribedAgain
<1>4. /\ DOMAIN buf = Callers /\ DOMAIN base = Callers
      /\ touched \in [Callers -> SUBSET {"description", "entries"}]
  BY DEF ItemsInv, TypeOK
<1>5. /\ buf'[c] = ToC(ty, m) /\ base'[c] = m
      /\ \A d \in Callers \ {c} :
             buf'[d] = buf[d] /\ base'[d] = base[d] /\ touched'[d] = touched[d]
  BY <1>1, <1>4
<1>6. TypeOK'
  <2>1. \A d \in Callers : Filled(d)' => base'[d] \in AnyMessage(ty)
    BY <1>5 DEF ItemsInv, TypeOK, Filled
  <2>2. DOMAIN buf' = Callers /\ DOMAIN base' = Callers
    BY <1>1, <1>4
  <2>3. touched' \in [Callers -> SUBSET {"description", "entries"}]
    BY <1>1, <1>4
  <2> QED
    BY <2>1, <2>2, <2>3 DEF ItemsInv, TypeOK
<1>7. WithinBuffers'
  BY <1>2, <1>5 DEF ItemsInv, WithinBuffers, Filled
<1>8. FilledFromReply'
  BY <1>3, <1>5 DEF ItemsInv, FilledFromReply, Filled
<1> QED
  BY <1>6, <1>7, <1>8 DEF ItemsInv

LEMMA Failed ==
    ASSUME ItemsInv, Fail, UNCHANGED <<ty, edits>>, stored' # None => stored' \in AnyMessage(ty)
    PROVE  ItemsInv'
BY DEF ItemsInv, TypeOK, WithinBuffers, FilledFromReply, Filled, Fail

(* What a structure says is a message.                                     *)
LEMMA Sent ==
    ASSUME ItemsInv, NEW c \in Callers, Filled(c)
    PROVE  ToPb(ty, buf[c]) \in AnyMessage(ty)
BY ItemOut DEF ItemsInv, TypeOK, WithinBuffers

(* What an update makes of the item.                                       *)
LEMMA Updated ==
    ASSUME ItemsInv, NEW c \in Callers, Filled(c), stored # None
    PROVE  LET m == Merge(stored, ToPb(ty, buf[c]))
           IN m \in AnyMessage(ty) /\ KeepsEntries(stored, m)
BY Sent, Merged DEF ItemsInv, TypeOK

LEMMA CreateStep ==
    ASSUME ItemsInv, NEW c \in Callers, Create(c)
    PROVE  ItemsInv'
<1>1. Filled(c) /\ UNCHANGED <<ty, edits>>
  BY DEF Create
<1>2. CASE Fail /\ UNCHANGED stored
  BY <1>1, <1>2, Failed DEF ItemsInv, TypeOK
<1>3. CASE stored' = ToPb(ty, buf[c]) /\ (Receive(c, stored') \/ Fail)
  <2>1. stored' \in AnyMessage(ty)
    BY <1>1, <1>3, Sent
  <2> QED
    BY <1>1, <1>3, <2>1, Received, Failed
<1> QED
  BY <1>2, <1>3 DEF Create

LEMMA UpdateStep ==
    ASSUME ItemsInv, NEW c \in Callers, Update(c)
    PROVE  ItemsInv'
<1>1. Filled(c) /\ UNCHANGED <<ty, edits>>
  BY DEF Update
<1>2. CASE Fail /\ UNCHANGED stored
  BY <1>1, <1>2, Failed DEF ItemsInv, TypeOK
<1>3. CASE /\ stored # None /\ stored' = Merge(stored, ToPb(ty, buf[c]))
           /\ Receive(c, stored') \/ Fail
  <2>1. stored' \in AnyMessage(ty)
    BY <1>1, <1>3, Updated
  <2> QED
    BY <1>1, <1>3, <2>1, Received, Failed
<1> QED
  BY <1>2, <1>3 DEF Update

LEMMA GetStep ==
    ASSUME ItemsInv, NEW c \in Callers, Get(c)
    PROVE  ItemsInv'
<1>1. UNCHANGED <<ty, stored, edits>> /\ (stored # None => stored \in AnyMessage(ty))
  BY DEF Get, ItemsInv, TypeOK
<1>2. (stored # None /\ Receive(c, stored)) \/ Fail
  BY DEF Get
<1> QED
  BY <1>1, <1>2, Received, Failed

LEMMA DeleteStep ==
    ASSUME ItemsInv, NEW c \in Callers, Delete(c)
    PROVE  ItemsInv'
<1>1. Fail /\ UNCHANGED <<ty, edits>> /\ (stored' # None => stored' \in AnyMessage(ty))
  BY DEF Delete, ItemsInv, TypeOK
<1> QED
  BY <1>1, Failed

LEMMA ListStep ==
    ASSUME ItemsInv, NEW c \in Callers, List(c)
    PROVE  ItemsInv'
<1>1. /\ UNCHANGED <<ty, stored, edits>> /\ Receive(c, stored)
      /\ stored # None /\ stored \in AnyMessage(ty)
  BY DEF List, ItemsInv, TypeOK
<1> QED
  BY <1>1, Received

(* A changed structure stays within its buffers, and all but its           *)
(* description is still the reply unless entries have been taken away.     *)
LEMMA EditStep ==
    ASSUME ItemsInv, NEW c \in Callers, Edit(c)
    PROVE  ItemsInv'
<1> DEFINE empty == CString(Empty)
           reply == ToC(ty, base[c])
<1>1. /\ Filled(c) /\ UNCHANGED <<ty, stored, base>>
      /\ ty \in ItemTypes /\ DOMAIN buf = Callers /\ DOMAIN base = Callers
      /\ touched \in [Callers -> SUBSET {"description", "entries"}]
      /\ buf[c] \in Structures(ty) /\ base[c] \in AnyMessage(ty)
      /\ stored # None => stored \in AnyMessage(ty)
      /\ touched[c] \subseteq {"description"} =>
             buf[c] = WithDescription(reply, buf[c].metadata.description)
  BY DEF Edit, ItemsInv, TypeOK, WithinBuffers, FilledFromReply
<1>2. edits' \in 0..MaxEdits
  BY ItemsAssumption DEF Edit, ItemsInv, TypeOK
<1>3. ASSUME NEW new \in Structures(ty), NEW what \in {"description", "entries"},
             buf' = [buf EXCEPT ![c] = new], touched' = [touched EXCEPT ![c] = @ \cup {what}],
             touched'[c] \subseteq {"description"} =>
                 new = WithDescription(reply, new.metadata.description)
      PROVE  ItemsInv'
  <2>1. /\ buf'[c] = new /\ touched'[c] = touched[c] \cup {what}
        /\ \A d \in Callers \ {c} : buf'[d] = buf[d] /\ touched'[d] = touched[d]
    BY <1>1, <1>3
  <2>2. DOMAIN buf' = Callers /\ touched' \in [Callers -> SUBSET {"description", "entries"}]
    BY <1>1, <1>3
  <2>3. \A d \in Callers : Filled(d)' => base'[d] \in AnyMessage(ty)
    BY <1>1, <2>1 DEF ItemsInv, TypeOK, Filled
  <2>4. TypeOK'
    BY <1>1, <1>2, <2>2, <2>3 DEF TypeOK
  <2>5. WithinBuffers'
    BY <1>1, <2>1 DEF ItemsInv, WithinBuffers, Filled
  <2>6. FilledFromReply'
    BY <1>1, <1>3, <2>1 DEF ItemsInv, FilledFromReply, Filled
  <2> QED
    BY <2>4, <2>5, <2>6 DEF ItemsInv
<1>4. CASE /\ buf' = [buf EXCEPT ![c] = SetDescription(c, Empty)]
           /\ touched' = [touched EXCEPT ![c] = @ \cup {"description"}]
  <2> DEFINE new == WithDescription(buf[c], empty)
  <2>1. SetDescription(c, Empty) = new
    BY DEF SetDescription, WithDescription
  <2>2. new \in Structures(ty) /\ new.metadata.description = empty
    BY <1>1, Literals, TextIn, Described, DescribedAgain
  <2>3. reply \in Structures(ty)
    BY <1>1, ItemIn
  <2> HIDE DEF empty, reply
  <2>4. buf[c] = WithDescription(reply, buf[c].metadata.description)
            => new = WithDescription(reply, empty)
    BY <1>1, <2>3, DescribedAgain
  <2> HIDE DEF new
  <2>5. touched'[c] = touched[c] \cup {"description"}
    BY <1>1, <1>4
  <2> QED
    BY <1>1, <1>3, <1>4, <2>1, <2>2, <2>4, <2>5
<1>5. CASE /\ buf' = [buf EXCEPT ![c] = DropLast(c)]
           /\ touched' = [touched EXCEPT ![c] = @ \cup {"entries"}]
  <2>1. DropLast(c) \in Structures(ty)
    BY <1>1, Shortened
  <2>2. "entries" \in touched'[c]
    BY <1>1, <1>5
  <2> QED
    BY <1>3, <1>5, <2>1, <2>2
<1> QED
  BY <1>4, <1>5 DEF Edit

LEMMA StepHolds == ItemsInv /\ [Next]_vars => ItemsInv'
<1> SUFFICES ASSUME ItemsInv, [Next]_vars
             PROVE  ItemsInv'
  OBVIOUS
<1>1. ASSUME NEW c \in Callers,
             Create(c) \/ Update(c) \/ Get(c) \/ Delete(c) \/ List(c) \/ Edit(c)
      PROVE  ItemsInv'
  BY <1>1, CreateStep, UpdateStep, GetStep, DeleteStep, ListStep, EditStep
<1>2. CASE UNCHANGED vars
  BY <1>2 DEF vars, ItemsInv, TypeOK, WithinBuffers, FilledFromReply, Filled
<1> QED
  BY <1>1, <1>2 DEF Next

(* The invariant from which the other theorems follow: the server's item   *)
(* and the structures have their types, the structures stay within their   *)
(* buffers, and one that was not changed is the mapped reply               *)
(* (upsf_create_X, upsf_get_X, upsf_update_X, upsf_list_X).                *)
THEOREM ItemsInvariant == Spec => []ItemsInv
BY InitHolds, StepHolds, PTL DEF Spec

-----------------------------------------------------------------------------
(* The properties.                                                         *)

(* Whatever the server sends and whatever a caller does to its structure,  *)
(* every array and string of it stays within its buffer, a string with its *)
(* NUL and its true length (UpsfMapping::map of every item).               *)
THEOREM StructuresStayWithin == Spec => []WithinBuffers
<1>1. ItemsInv => WithinBuffers
  BY DEF ItemsInv
<1> QED
  BY <1>1, ItemsInvariant, PTL

LEMMA EchoHolds == ItemsInv => EchoFaithful
<1> SUFFICES ASSUME ItemsInv, NEW c \in Callers, Clean(c), base[c] \in FittingMessage(ty)
             PROVE  SameItem(Echo(c), base[c])
  BY DEF EchoFaithful
<1> DEFINE m == base[c]
<1>1. /\ ty \in ItemTypes /\ m \in AnyMessage(ty) /\ m \in FittingMessage(ty)
      /\ buf[c] = ToC(ty, m)
  BY DEF ItemsInv, TypeOK, FilledFromReply, Clean
<1>2. Echo(c) = ToPb(ty, ToC(ty, m))
  BY <1>1 DEF Echo
<1> HIDE DEF m
<1>3. CASE ty = "nc"
  <2> DEFINE e == ToPb("nc", ToC("nc", m))
  <2>1. /\ e = [name |-> m.name, metadata |-> [m.metadata EXCEPT !.times = NoTimes],
                maintenance_req |-> m.maintenance_req, spec |-> e.spec, status |-> e.status]
        /\ KeysOf(e.status.nc_active) = KeysOf(m.status.nc_active)
        /\ NamesEndpoint(m.spec) => e.spec = m.spec
    BY <1>1, <1>3, EchoConnection
  <2> HIDE DEF e
  <2>2. SameItem(e, m)
    BY <1>1, <1>3, <2>1, SameConnection
  <2> QED
    BY <1>2, <1>3, <2>2 DEF e, m
<1>4. CASE ty # "nc"
  <2>1. Echo(c) = WithoutTimes(m)
    BY <1>1, <1>2, <1>4, EchoItem
  <2>2. WithoutTimes(WithoutTimes(m)) = WithoutTimes(m)
    BY <1>1, MetaDataOnce
  <2> QED
    BY <1>4, <2>1, <2>2 DEF SameItem, m
<1> QED
  BY <1>3, <1>4

(* Any message within the limits of upsf.h that is read through the C API  *)
(* and sent back untouched comes back as it was, but for what has no place *)
(* in a structure (upsf_c_mapping.cpp).                                    *)
THEOREM EchoIsFaithful == Spec => []EchoFaithful
BY EchoHolds, ItemsInvariant, PTL

LEMMA OnlyAddsStep ==
    ASSUME ItemsInv, [Next]_vars, stored # None, stored' # None
    PROVE  KeepsEntries(stored, stored')
<1>1. CASE UNCHANGED stored
  BY <1>1 DEF KeepsEntries, KeepsEndpoints
<1>2. ASSUME NEW c \in Callers, Update(c), stored' # stored
      PROVE  KeepsEntries(stored, stored')
  <2>1. Filled(c) /\ stored' = Merge(stored, ToPb(ty, buf[c]))
    BY <1>2 DEF Update
  <2> QED
    BY <2>1, Updated
<1>3. ASSUME NEW c \in Callers,
             Create(c) \/ Get(c) \/ Delete(c) \/ List(c) \/ Edit(c)
      PROVE  UNCHANGED stored
  BY <1>3 DEF Create, Get, Delete, List, Edit
<1> QED
  BY <1>1, <1>2, <1>3 DEF Next, vars

(* Whatever is cut on the way into a structure, and however stale the      *)
(* structure is that comes back, no sequence of C calls takes an entry out *)
(* of a list or a map of an item that goes on existing, the endpoints of a *)
(* network connection that keeps its kind of spec included: update_options *)
(* are never assigned (upsf_c_wrapper.cpp, upsf_update_X), so that the     *)
(* server merges by union.                                                 *)
THEOREM OnlyAdds == Spec => UpdatesOnlyAdd
<1>1. ItemsInv /\ [Next]_vars =>
          [stored # None /\ stored' # None => KeepsEntries(stored, stored')]_vars
  BY OnlyAddsStep
<1> QED
  BY <1>1, ItemsInvariant, PTL DEF Spec, UpdatesOnlyAdd

LEMMA FreshStep ==
    ASSUME ItemsInv, NEW c \in Callers, Update(c), stored' # stored,
           stored = base[c], stored \in FittingMessage(ty), touched[c] \subseteq {"description"}
    PROVE  SameItem(WithDescription(stored', stored.metadata.description), stored)
<1> DEFINE m == stored
           d == buf[c].metadata.description
           x == PbString(d)
           e == ToPb(ty, ToC(ty, m))
<1>1. /\ Filled(c) /\ stored' = Merge(m, ToPb(ty, buf[c])) /\ ty \in ItemTypes
      /\ buf[c] \in Structures(ty) /\ m \in AnyMessage(ty) /\ m \in FittingMessage(ty)
      /\ buf[c] = WithDescription(ToC(ty, m), d)
  BY DEF Update, ItemsInv, TypeOK, WithinBuffers, FilledFromReply
<1>2. d \in CTexts
  BY <1>1 DEF ItemTypes, Structures, ServiceGateways, UserPlanes, Steerings, NetworkConnections,
              Shards, SessionContexts, CMetaDatas
<1>3. x \in Texts
  BY <1>2, TextOut
<1>4. ToC(ty, m) \in Structures(ty)
  BY <1>1, ItemIn
<1> HIDE DEF m, d
<1>5. ToPb(ty, buf[c]) = WithDescription(e, x)
  BY <1>1, <1>2, <1>4, Described
<1> HIDE DEF x
<1>6. CASE ty = "nc"
  <2>1. SameItem(WithDescription(Merge(m, WithDescription(e, x)), m.metadata.description), m)
    BY <1>1, <1>3, <1>6, FreshConnection
  <2> QED
    BY <1>1, <1>5, <2>1 DEF m
<1>7. CASE ty # "nc"
  <2> DEFINE n == WithDescription(WithoutTimes(m), x)
  <2>1. e = WithoutTimes(m)
    BY <1>1, <1>7, EchoItem
  <2>2. Merge(m, n) = n
    BY <1>1, <1>3, <1>7, FreshItem
  <2>3. stored' = n
    BY <1>1, <1>5, <2>1, <2>2
  <2>4. /\ WithDescription(n, m.metadata.description) = WithoutTimes(m)
        /\ WithoutTimes(WithoutTimes(m)) = WithoutTimes(m)
    BY <1>1, MetaDataOnce
  <2> HIDE DEF n
  <2> QED
    BY <1>7, <2>3, <2>4 DEF SameItem, m
<1> QED
  BY <1>6, <1>7

(* An update by a caller that read the item as it is now and changed its   *)
(* description at most changes nothing else of it (upsf_update_X after     *)
(* upsf_get_X, and the merging of lists and maps in between).              *)
THEOREM FreshUpdates == Spec => FreshUpdateIsLocal
<1>1. ItemsInv /\ [Next]_vars =>
          [\A c \in Callers :
               /\ Update(c) /\ stored' # stored
               /\ stored = base[c] /\ stored \in FittingMessage(ty)
               /\ touched[c] \subseteq {"description"}
               => SameItem(WithDescription(stored', stored.metadata.description), stored)]_vars
  BY FreshStep
<1> QED
  BY <1>1, ItemsInvariant, PTL DEF Spec, FreshUpdateIsLocal
=============================================================================
