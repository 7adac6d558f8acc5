-------------------------- MODULE PropertiesProofs --------------------------
(* Proofs of the properties of Properties, for every set of selectors. *)
EXTENDS Properties, FiniteSetTheorems, TLAPS

USE KeysAssumption DEF Kinds, Scalars, Lists, Sizes, Size, Calls

AnswerType == [call : Calls, key : Keys, ok : BOOLEAN, isSettable : BOOLEAN, plain : BOOLEAN,
               room : Sizes, used : Nat, value : Values \cup {Absent} \cup SUBSET Objects]

\* What a call returns has the type of answer.
LEMMA AnswerTyped ==
    ASSUME NEW c \in Calls, NEW k \in Keys, NEW ok \in BOOLEAN
    PROVE  Answer(c, k, ok) \in AnswerType
BY DEF Answer, AnswerType

\* TypeOK of the map
PropsOK ==
    /\ DOMAIN props \subseteq Keys
    /\ props = [k \in DOMAIN props |-> props[k]]
    /\ \A k \in DOMAIN props :
          props[k] \in [type : {Kind[k]}, isSettable : {k \notin Locked}, value : Choices[k]]

\* A list that is returned is finite.
LEMMA ListTyped ==
    ASSUME PropsOK, NEW k \in Keys, Present(k), props[k].type \in Lists, NEW q, NEW past
    PROVE  /\ ListValue(k, q, past) \subseteq Objects
           /\ Cardinality(ListValue(k, q, past)) \in Nat
<1>1. props[k].type = Kind[k] /\ props[k].value \in Choices[k]  BY DEF PropsOK, Present
<1>2. props[k].value \subseteq Objects  BY <1>1
<1>3. ListValue(k, q, past) \subseteq Objects  BY <1>2 DEF ListValue
<1>4. IsFiniteSet(ListValue(k, q, past))  BY <1>3, FS_Subset
<1> QED  BY <1>3, <1>4, FS_CardinalityType

\* The size that is returned is a number.
LEMMA UsedTyped ==
    ASSUME PropsOK, NEW k \in Keys, Present(k), NEW q, NEW past
    PROVE  Used(k, q, past) \in Nat
<1>1. props[k].type \in Kinds  BY DEF PropsOK, Present
<1>2. CASE props[k].type \in Lists  BY <1>2, ListTyped DEF Used
<1>3. CASE props[k].type \notin Lists  BY <1>1, <1>3 DEF Used
<1> QED  BY <1>2, <1>3

-----------------------------------------------------------------------------
(* What each call leaves in answer.                                        *)

\* has, settable, typed and write use no room.
Quiet == {"none", "has", "settable", "typed", "write"}

\* A size query that succeeded and is still fresh told the size of a list or a
\* string, the two a query succeeds for.
SizeKnown ==
    answer.call = "size" /\ answer.ok /\ answer.plain /\ fresh =>
        /\ Present(answer.key)
        /\ props[answer.key].type \in Lists \cup {"string"}
        /\ answer.used = Used(answer.key, {}, {})

\* the part of the inductive invariant that is about the last call
AnswerOK == answer \in AnswerType /\ fresh \in BOOLEAN /\ OnlyListsOverrun /\ SizeKnown

\* what a call leaves that neither reads nor writes into the application's buffer
Told(c, k, ok, s, v) == [call |-> c, key |-> k, ok |-> ok, isSettable |-> s, plain |-> TRUE,
                         room |-> 0, used |-> 0, value |-> v]

\* Such a call leaves what AnswerOK asks for.
LEMMA QuietCall ==
    ASSUME NEW c \in Quiet, NEW k \in Keys, NEW ok \in BOOLEAN, NEW s \in BOOLEAN,
           NEW v \in Values \cup {Absent},
           answer' = Told(c, k, ok, s, v), fresh' = TRUE
    PROVE  AnswerOK'
<1>1. answer' \in AnswerType  BY DEF AnswerType, Quiet, Told
<1>2. answer'.call \notin {"get", "size"}  BY DEF Quiet, Told
<1> QED  BY <1>1, <1>2 DEF AnswerOK, OnlyListsOverrun, SizeKnown

\* one pair of calls
Pair ==
    /\ answer.call = "size" /\ answer.ok /\ answer.plain /\ fresh
    /\ answer'.call = "get" /\ answer'.key = answer.key
    /\ answer'.plain /\ answer'.room = answer.used
    => answer'.ok /\ answer'.used <= answer'.room

Good == PropsOK' /\ AnswerOK' /\ [Map!MapNext]_(Map!mapVars) /\ Pair

LEMMA SetPropertyStep ==
    ASSUME PropsOK, AnswerOK, NEW k \in Keys, SetProperty(k)
    PROVE  Good
<1>1. PICK v \in Choices[k] :
        props' = [j \in DOMAIN props \cup {k} |-> IF j = k THEN Entry(k, v) ELSE props[j]]
  BY DEF SetProperty
<1>2. /\ DOMAIN props' = DOMAIN props \cup {k}
      /\ \A j \in DOMAIN props' : props'[j] = IF j = k THEN Entry(k, v) ELSE props[j]
  BY <1>1
<1>3. PropsOK'
  <2>1. Entry(k, v) \in [type : {Kind[k]}, isSettable : {k \notin Locked}, value : Choices[k]]
    BY DEF Entry
  <2>2. props' = [j \in DOMAIN props' |-> props'[j]]  BY <1>1, <1>2
  <2> QED  BY <1>2, <2>1, <2>2 DEF PropsOK
<1>4. answer' = answer /\ fresh' \in BOOLEAN /\ (fresh' => fresh /\ answer.key # k)
  BY DEF SetProperty, AnswerOK
<1>5. SizeKnown'
  <2> SUFFICES ASSUME answer.call = "size", answer.ok, answer.plain, fresh'
               PROVE  SizeKnown'
    BY <1>4 DEF SizeKnown
  <2>1. SizeKnown /\ fresh /\ answer.key # k /\ answer.key \in Keys
    BY <1>4 DEF AnswerOK, AnswerType
  <2>2. Present(answer.key) => Present(answer.key)' /\ props'[answer.key] = props[answer.key]
    BY <2>1, <1>2, <1>4 DEF Present
  <2> QED  BY <1>4, <2>1, <2>2 DEF SizeKnown, Present, Used, ListValue, Qualify
<1>6. AnswerOK'  BY <1>4, <1>5 DEF AnswerOK, OnlyListsOverrun
<1>7. Map!Put(k)
  <2>1. v \in Values  BY DEF Values
  <2>2. \A j \in Keys : (IF Present(j)' THEN props'[j].value ELSE Absent)
                         = IF j = k THEN v ELSE (IF Present(j) THEN props[j].value ELSE Absent)
    BY <1>2 DEF Present, Entry
  <2>4. Store' = [Store EXCEPT ![k] = v]  BY <2>2 DEF Store
  <2>3. Reply' = Reply  BY <1>4 DEF Reply
  <2> QED  BY <2>1, <2>3, <2>4 DEF Map!Put
<1>8. Pair  BY <1>4 DEF Pair
<1>9. [Map!MapNext]_(Map!mapVars)  BY <1>7 DEF Map!MapNext
<1> QED  BY <1>3, <1>6, <1>8, <1>9 DEF Good

\* Calls that change no property leave the map alone.
LEMMA SameMap == ASSUME UNCHANGED props PROVE Store' = Store /\ (PropsOK => PropsOK')
BY DEF Store, PropsOK, Present

LEMMA QuietStep ==
    ASSUME PropsOK, AnswerOK, NEW k \in Keys, UNCHANGED props,
           HasProperty(k) \/ IsPropertySettable(k)
    PROVE  Good
<1>1. AnswerOK'
  <2>1. CASE HasProperty(k)
    <3> DEFINE ok == Present(k) /\ props[k].type # "address"
    <3>1. answer' = Told("has", k, ok, FALSE, Absent) /\ fresh' = TRUE
      BY <2>1 DEF HasProperty, Return, Answer, Told
    <3>2. ok \in BOOLEAN  OBVIOUS
    <3> HIDE DEF ok
    <3> QED  BY <3>1, <3>2, QuietCall DEF Quiet
  <2>2. CASE IsPropertySettable(k)
    <3> DEFINE ok == Present(k) /\ props[k].type # "address"
               s  == ok /\ props[k].isSettable
    <3>1. answer' = Told("settable", k, ok, s, Absent) /\ fresh' = TRUE
      BY <2>2 DEF IsPropertySettable, Return, Answer, Told
    <3>2. ok \in BOOLEAN /\ s \in BOOLEAN  BY DEF PropsOK, Present
    <3> HIDE DEF ok, s
    <3> QED  BY <3>1, <3>2, QuietCall DEF Quiet
  <2> QED  BY <2>1, <2>2
<1>2. answer'.call \in {"has", "settable"}
  BY DEF HasProperty, IsPropertySettable, Answer, Return
<1>3. Reply' = <<>>  BY <1>2 DEF Reply
<1>4. [Map!MapNext]_(Map!mapVars)  BY <1>3, SameMap DEF Map!MapNext, Map!Other
<1>5. Pair  BY <1>2 DEF Pair
<1> QED  BY <1>1, <1>4, <1>5, SameMap DEF Good

LEMMA TypedStep ==
    ASSUME PropsOK, AnswerOK, NEW k \in Keys, GetProperty(k)
    PROVE  Good
<1> DEFINE v == IF Present(k) THEN props[k].value ELSE Absent
<1>1. answer' = Told("typed", k, Present(k), FALSE, v) /\ fresh' = TRUE
  BY DEF GetProperty, Return, Answer, Told
<1>2. v \in Values \cup {Absent}  BY DEF PropsOK, Present, Values
<1>3. answer'.call = "typed" /\ answer'.key = k /\ answer'.ok = Present(k) /\ answer'.value = v
      /\ answer'.plain
  BY DEF GetProperty, Return, Answer
<1>4. Present(k) \in BOOLEAN  BY DEF Present
<1>5. v = Store[k]  BY DEF Store
<1> HIDE DEF v
<1>6. AnswerOK'  BY <1>1, <1>2, <1>4, QuietCall DEF Quiet
<1>7. Reply' = IF Present(k) THEN <<"read", k, v>> ELSE <<>>  BY <1>3 DEF Reply
<1>8. UNCHANGED props  BY DEF GetProperty
<1>9. Present(k) => Store[k] # Absent  BY DEF Store, Present, PropsOK
<1>10. [Map!MapNext]_(Map!mapVars)
  BY <1>5, <1>7, <1>8, <1>9, SameMap DEF Map!MapNext, Map!Other, Map!Read
<1>11. Pair  BY <1>3 DEF Pair
<1> QED  BY <1>6, <1>8, <1>10, <1>11, SameMap DEF Good

LEMMA WriteStep ==
    ASSUME PropsOK, AnswerOK, NEW k \in Keys, NEW n \in Sizes, SetPropertyData(k, n)
    PROVE  Good
<1> DEFINE ok == Accepts(k, n)
<1>1. answer' = Told("write", k, ok, FALSE, Absent) /\ fresh' = TRUE
  BY DEF SetPropertyData, Return, Answer, Told
<1>2. ok \in BOOLEAN  BY DEF Accepts, Present, PropsOK
<1>3. answer'.call = "write" /\ answer'.ok = ok  BY <1>1 DEF Told
<1>4. AnswerOK'  BY <1>1, <1>2, QuietCall DEF Quiet
<1>5. Pair  BY <1>3 DEF Pair
<1>6. ok => Store[k] # Absent /\ k \notin Locked /\ Present(k)
  BY DEF Accepts, Store, Present, PropsOK
<1>7. CASE UNCHANGED props
  <2>1. Reply' = IF ok THEN <<"accepted">> ELSE <<>>  BY <1>3 DEF Reply
  <2>2. [Map!MapNext]_(Map!mapVars)
    BY <1>6, <1>7, <2>1, SameMap DEF Map!MapNext, Map!Other, Map!Ignore
  <2> QED  BY <1>4, <1>5, <1>7, <2>2, SameMap DEF Good
<1>8. CASE ok /\ \E v \in Choices[k] : props' = [props EXCEPT ![k].value = v]
  <2>1. PICK v \in Choices[k] : props' = [props EXCEPT ![k].value = v]  BY <1>8
  <2>2. /\ DOMAIN props' = DOMAIN props
        /\ props' = [j \in DOMAIN props' |-> props'[j]]
        /\ \A j \in DOMAIN props : j # k => props'[j] = props[j]
        /\ props'[k] = [props[k] EXCEPT !.value = v]
    BY <1>6, <1>8, <2>1 DEF PropsOK, Present
  <2>3. /\ props'[k] \in [type : {Kind[k]}, isSettable : {k \notin Locked}, value : Choices[k]]
        /\ props'[k].value = v
    BY <1>6, <1>8, <2>2 DEF PropsOK, Present
  <2>4. PropsOK'  BY <2>2, <2>3 DEF PropsOK
  <2>5. \A j \in Keys : (IF Present(j)' THEN props'[j].value ELSE Absent)
                         = IF j = k THEN v ELSE (IF Present(j) THEN props[j].value ELSE Absent)
    BY <1>6, <1>8, <2>2, <2>3 DEF Present
  <2>6. Store' = [Store EXCEPT ![k] = v]  BY <2>5 DEF Store
  <2>7. Reply' = <<"accepted">> /\ v \in Values  BY <1>3, <1>8 DEF Reply, Values
  <2>8. Map!Write(k)  BY <1>6, <1>8, <2>6, <2>7 DEF Map!Write
  <2>9. [Map!MapNext]_(Map!mapVars)  BY <2>8 DEF Map!MapNext
  <2> QED  BY <1>4, <1>5, <2>4, <2>9 DEF Good
<1> QED  BY <1>7, <1>8 DEF SetPropertyData

LEMMA SizeStep ==
    ASSUME PropsOK, AnswerOK, NEW k \in Keys, UNCHANGED props,
           NEW q \in Qualifiers, NEW past \in Qualifiers, q = {} => past = {},
           GetPropertyDataSize(k, q, past)
    PROVE  Good
<1> DEFINE ok   == Present(k) /\ Fits(k, 0, FALSE)
           used == IF ok THEN Used(k, q, past) ELSE 0
<1>1. answer' = [call |-> "size", key |-> k, ok |-> ok, isSettable |-> FALSE, plain |-> (q = {}),
                 room |-> 0, used |-> used, value |-> Absent]
  BY DEF GetPropertyDataSize, Return, Answer
<1>2. fresh' = TRUE  BY DEF GetPropertyDataSize, Return
<1>3. ok \in BOOLEAN  BY DEF Fits, StringFits, ScalarFits, PropsOK, Present
<1>4. used \in Nat  BY UsedTyped
<1>5. ok => props[k].type \in Lists \cup {"string"}
  BY DEF Fits, StringFits, ScalarFits, PropsOK, Present
<1>6. ok /\ q = {} => used = Used(k, {}, {})  OBVIOUS
<1> HIDE DEF used
<1>7. answer' \in AnswerType
  <2> HIDE DEF ok
  <2> QED  BY <1>1, <1>3, <1>4 DEF AnswerType
<1>8. SizeKnown'
  <2> SUFFICES ASSUME answer'.ok, answer'.plain  PROVE SizeKnown'
    BY DEF SizeKnown
  <2>1. ok /\ q = {} /\ answer'.key = k /\ answer'.used = used  BY <1>1
  <2>2. Used(k, {}, {})' = Used(k, {}, {})  BY DEF Used, ListValue, Qualify
  <2> QED  BY <1>5, <1>6, <2>1, <2>2 DEF SizeKnown, Present
<1>9. answer'.call = "size"  BY <1>1
<1>10. AnswerOK'  BY <1>2, <1>7, <1>8, <1>9 DEF AnswerOK, OnlyListsOverrun
<1>11. Reply' = <<>>  BY <1>9 DEF Reply
<1>12. [Map!MapNext]_(Map!mapVars)  BY <1>11, SameMap DEF Map!MapNext, Map!Other
<1>13. Pair  BY <1>9 DEF Pair
<1> QED  BY <1>10, <1>12, <1>13, SameMap DEF Good

LEMMA GetStep ==
    ASSUME PropsOK, AnswerOK, NEW k \in Keys, NEW n \in Sizes, UNCHANGED props,
           NEW q \in Qualifiers, NEW past \in Qualifiers, q = {} => past = {},
           GetPropertyData(k, q, past, n)
    PROVE  Good
<1> DEFINE fits == Present(k) /\ Fits(k, n, TRUE)
<1>1. PICK ok \in BOOLEAN :
        /\ IF fits THEN ok \/ MayFail(k) ELSE ~ok
        /\ Return([Answer("get", k, ok) EXCEPT
              !.plain = (q = {}), !.room = n,
              !.used  = IF ok THEN Used(k, q, past) ELSE 0,
              !.value = IF ~ok THEN Absent
                        ELSE IF props[k].type \in Lists THEN ListValue(k, q, past)
                        ELSE props[k].value])
  BY DEF GetPropertyData
<1> DEFINE used == IF ok THEN Used(k, q, past) ELSE 0
           v    == IF ~ok THEN Absent
                   ELSE IF props[k].type \in Lists THEN ListValue(k, q, past)
                   ELSE props[k].value
<1>2. /\ answer' = [call |-> "get", key |-> k, ok |-> ok, isSettable |-> FALSE, plain |-> (q = {}),
                    room |-> n, used |-> used, value |-> v]
      /\ fresh' = TRUE
  BY <1>1 DEF Return, Answer
<1>3. ok => fits  BY <1>1
<1>4. used \in Nat  BY <1>3, UsedTyped
<1>5. v \in Values \cup {Absent} \cup SUBSET Objects
  <2>1. CASE ~ok
    <3>1. v = Absent  BY <2>1
    <3> HIDE DEF v
    <3> QED  BY <3>1
  <2>2. CASE ok /\ props[k].type \in Lists
    <3>1. v = ListValue(k, q, past)  BY <2>2
    <3>2. ListValue(k, q, past) \subseteq Objects  BY <1>3, <2>2, ListTyped
    <3> QED  BY <3>1, <3>2
  <2>3. CASE ok /\ props[k].type \notin Lists
    <3>1. v = props[k].value  BY <2>3
    <3>2. props[k].value \in Values  BY <1>3, <2>3 DEF Values, PropsOK, Present
    <3> QED  BY <3>1, <3>2
  <2> QED  BY <2>1, <2>2, <2>3
<1>6. ok /\ q = {} => v = Store[k] /\ Store[k] # Absent
  BY <1>3 DEF Store, ListValue, Qualify, PropsOK, Present
<1>7. ok /\ Kind[k] \notin Lists => used = n
  BY <1>3 DEF Fits, StringFits, ScalarFits, Used, PropsOK, Present
<1> HIDE DEF used, v
<1>8. answer' \in AnswerType  BY <1>2, <1>4, <1>5 DEF AnswerType
<1>9. /\ answer'.call = "get" /\ answer'.key = k /\ answer'.ok = ok /\ answer'.plain = (q = {})
      /\ answer'.room = n /\ answer'.used = used /\ answer'.value = v
  BY <1>2
<1>10. OnlyListsOverrun'
  BY <1>4, <1>7, <1>9 DEF OnlyListsOverrun, used
<1>11. AnswerOK'  BY <1>2, <1>8, <1>9, <1>10 DEF AnswerOK, SizeKnown
<1>12. Reply' = IF ok /\ q = {} THEN <<"read", k, v>> ELSE <<>>  BY <1>9 DEF Reply
<1>13. [Map!MapNext]_(Map!mapVars)
  BY <1>6, <1>12, SameMap DEF Map!MapNext, Map!Other, Map!Read
<1>14. Pair
  <2> SUFFICES ASSUME answer.call = "size", answer.ok, answer.plain, fresh, answer.key = k,
                      q = {}, n = answer.used
               PROVE  ok /\ used <= n
    BY <1>9 DEF Pair
  <2>1. /\ Present(k) /\ props[k].type \in Lists \cup {"string"}
        /\ n = Used(k, q, past)
    BY DEF AnswerOK, SizeKnown, Used, ListValue, Qualify
  <2>2. fits /\ props[k].type # "format"
    BY <2>1 DEF Fits, StringFits, Used
  <2>3. ok  BY <1>1, <2>2 DEF MayFail
  <2> QED  BY <1>4, <2>1, <2>3 DEF used
<1> QED  BY <1>11, <1>13, <1>14, SameMap DEF Good

-----------------------------------------------------------------------------
LEMMA Stutter == ASSUME PropsOK, AnswerOK, UNCHANGED vars PROVE Good
<1>1. props' = props /\ answer' = answer /\ fresh' = fresh  BY DEF vars
<1>2. AnswerOK'
  BY <1>1 DEF AnswerOK, OnlyListsOverrun, SizeKnown, Used, ListValue, Qualify, Present
<1>3. Reply' = Reply  BY <1>1 DEF Reply
<1>4. [Map!MapNext]_(Map!mapVars)  BY <1>1, <1>3, SameMap DEF Map!mapVars
<1>5. Pair  BY <1>1 DEF Pair
<1> QED  BY <1>1, <1>2, <1>4, <1>5, SameMap DEF Good

LEMMA Step == ASSUME PropsOK, AnswerOK, [Next]_vars PROVE Good
<1>1. CASE UNCHANGED vars  BY <1>1, Stutter
<1>2. CASE Next
  <2>1. PICK k \in Keys :
          \/ SetProperty(k) \/ GetProperty(k)
          \/ UNCHANGED props /\ (HasProperty(k) \/ IsPropertySettable(k))
          \/ \E n \in Sizes : SetPropertyData(k, n)
          \/ \E q \in IF k = Owned THEN Qualifiers ELSE {{}} :
             \E past \in IF q = {} THEN {{}} ELSE SUBSET Classes :
                /\ UNCHANGED props
                /\ \/ GetPropertyDataSize(k, q, past)
                   \/ \E n \in Sizes : GetPropertyData(k, q, past, n)
    BY <1>2 DEF Next
  <2>2. CASE SetProperty(k)  BY <2>2, SetPropertyStep
  <2>3. CASE GetProperty(k)  BY <2>3, TypedStep
  <2>4. CASE UNCHANGED props /\ (HasProperty(k) \/ IsPropertySettable(k))  BY <2>4, QuietStep
  <2>5. CASE \E n \in Sizes : SetPropertyData(k, n)  BY <2>5, WriteStep
  <2>6. ASSUME NEW q \in IF k = Owned THEN Qualifiers ELSE {{}},
               NEW past \in IF q = {} THEN {{}} ELSE SUBSET Classes,
               UNCHANGED props,
               \/ GetPropertyDataSize(k, q, past)
               \/ \E n \in Sizes : GetPropertyData(k, q, past, n)
        PROVE  Good
    <3>1. q \in Qualifiers /\ past \in Qualifiers /\ (q = {} => past = {})  BY DEF Qualifiers
    <3> QED  BY <2>6, <3>1, SizeStep, GetStep
  <2> QED  BY <2>1, <2>2, <2>3, <2>4, <2>5, <2>6
<1> QED  BY <1>1, <1>2

LEMMA Start == Init => PropsOK /\ AnswerOK /\ Map!MapInit
<1> SUFFICES ASSUME Init PROVE PropsOK /\ AnswerOK /\ Map!MapInit  OBVIOUS
<1>1. PropsOK  BY DEF Init, PropsOK
<1>2. answer \in AnswerType /\ answer.call = "none"  BY DEF Init, Answer, AnswerType
<1>3. AnswerOK  BY <1>2 DEF Init, AnswerOK, OnlyListsOverrun, SizeKnown
<1>4. Map!MapInit  BY <1>2 DEF Init, Map!MapInit, Store, Reply, Present
<1> QED  BY <1>1, <1>3, <1>4

\* The properties keep their types, whatever the application writes.
THEOREM TypeCorrect == Spec => []TypeOK
<1>1. PropsOK /\ AnswerOK => TypeOK  BY DEF PropsOK, AnswerOK, AnswerType, TypeOK
<1>2. PropsOK /\ AnswerOK /\ [Next]_vars => (PropsOK /\ AnswerOK)'  BY Step DEF Good
<1> QED  BY <1>1, <1>2, Start, PTL DEF Spec

\* getProperty never writes past the room it is given, except for a list.
THEOREM OverrunOfLists == Spec => []OnlyListsOverrun
<1>1. AnswerOK => OnlyListsOverrun  BY DEF AnswerOK
<1>2. PropsOK /\ AnswerOK /\ [Next]_vars => (PropsOK /\ AnswerOK)'  BY Step DEF Good
<1> QED  BY <1>1, <1>2, Start, PTL DEF Spec

\* A size query and a get that follows it belong together.
THEOREM PairOfCalls == Spec => TwoCalls
<1>1. PropsOK /\ AnswerOK /\ [Next]_vars => (PropsOK /\ AnswerOK)' /\ [Pair]_vars
  BY Step DEF Good
<1> QED  BY <1>1, Start, PTL DEF Spec, TwoCalls, Pair

\* The properties implement the map of PropertyMap.
THEOREM Refinement == Spec => MapSpec
<1>1. PropsOK /\ AnswerOK /\ [Next]_vars => (PropsOK /\ AnswerOK)' /\ [Map!MapNext]_(Map!mapVars)
  BY Step DEF Good
<1> QED  BY <1>1, Start, PTL DEF Spec, MapSpec, Map!MapSpec
=============================================================================
