----------------------------- MODULE Properties -----------------------------
(***************************************************************************)
(* The properties of an object of the plugin: ObjectProperties, a map from *)
(* selectors to typed values, and the CMIO calls of ObjectInterface and    *)
(* Object that read and write it.  The plugin sets a selector always with  *)
(* one type.  The order of a list is left out: it is a set of objects.     *)
(***************************************************************************)
EXTENDS Naturals, FiniteSets

CONSTANTS
    Keys,         \* selectors
    Kind,         \* the type the plugin sets a selector with
    Choices,      \* the values of a selector
    Locked,       \* selectors set with isSettable = false
    Owned,        \* kCMIOObjectPropertyOwnedObjects, the one that is qualified
    Objects, Class, Classes,
    Absent

Scalars == {"uint32", "float64", "pid", "clock", "format"}
Lists == {"objects", "pointers"}
Kinds == Scalars \cup Lists \cup {"string", "address"}
Size == [uint32 |-> 4, float64 |-> 8, pid |-> 4, clock |-> 8, format |-> 8,
            string |-> 8, address |-> 12]
Sizes == {0, 4, 8, 12}
Qualifiers == SUBSET Classes   \* the empty one stands for no qualifier

ASSUME KeysAssumption ==
    /\ Kind \in [Keys -> Kinds] /\ Locked \subseteq Keys /\ Owned \in Keys
    /\ DOMAIN Choices = Keys
    /\ \A k \in Keys : Absent \notin Choices[k]
    /\ \A k \in Keys : Kind[k] \in Lists => Choices[k] \subseteq SUBSET Objects
    /\ IsFiniteSet(Objects) /\ Class \in [Objects -> Classes]

VARIABLES
    props,    \* m_properties
    answer,   \* the last call and what it returned
    fresh     \* the plugin has not set the selector of the last call since

vars == <<props, answer, fresh>>

Present(k) == k \in DOMAIN props

\* A call, and whether it succeeded: the buffer is left alone.
Answer(call, k, ok) ==
    [call |-> call, key |-> k, ok |-> ok, isSettable |-> FALSE, plain |-> TRUE,
     room |-> 0, used |-> 0, value |-> Absent]

Init ==
    /\ props = [k \in {} |-> Absent]
    /\ answer = Answer("none", Owned, FALSE) /\ fresh = FALSE

Return(a) == answer' = a /\ fresh' = TRUE

-----------------------------------------------------------------------------
\* setProperty of the plugin, the overload of the type
Entry(k, v) == [type |-> Kind[k], isSettable |-> k \notin Locked, value |-> v]
SetProperty(k) ==
    /\ \E v \in Choices[k] :
          props' = [j \in DOMAIN props \cup {k} |-> IF j = k THEN Entry(k, v) ELSE props[j]]
    /\ fresh' = (fresh /\ answer.key # k)
    /\ UNCHANGED answer

\* mutant: isSettable is not looked at
AcceptsLocked(k, n) ==
    Present(k) /\ props[k].type \in (Scalars \ {"clock"}) \cup {"address"} /\ n = Size[props[k].type]

\* setProperty of the application: the size must be that of the type, and
\* strings, clocks and lists are refused although they are settable.
Accepts(k, n) ==
    /\ Present(k) /\ props[k].isSettable
    /\ props[k].type \in (Scalars \ {"clock"}) \cup {"address"}
    /\ n = Size[props[k].type]

\* Object::setPropertyData.  A format is accepted and dropped.  Nobody is told:
\* propertyChanged is called on an error that does not occur.
SetPropertyData(k, n) ==
    /\ IF Accepts(k, n) /\ props[k].type # "format"
       THEN \E v \in Choices[k] : props' = [props EXCEPT ![k].value = v]
       ELSE UNCHANGED props
    /\ Return(Answer("write", k, Accepts(k, n)))

-----------------------------------------------------------------------------
\* The size of the qualifier, in bytes, is taken for its number of classes: past
\* is what lies behind it.
Qualify(k, q, past, o) == k = Owned /\ q # {} => Class[o] \in q \cup past

\* A list is counted, and written, whatever the room for it.
ListValue(k, q, past) == {o \in props[k].value : Qualify(k, q, past, o)}

\* mutant: the size of a string is compared with the wrong operator
RoomToSpare(n, writes) == writes => n > Size["string"]

\* A string has its size compared when it is written, a scalar always: the
\* query of its size, which comes with no room, fails.
StringFits(n, writes) == writes => n = Size["string"]
ScalarFits(k, n) == n = Size[props[k].type]

\* getProperty with a data pointer or without
Fits(k, n, writes) ==
    CASE props[k].type \in Lists   -> TRUE
      [] props[k].type = "string"  -> StringFits(n, writes)
      [] props[k].type = "address" -> FALSE
      [] OTHER                     -> ScalarFits(k, n)

Used(k, q, past) ==
    IF props[k].type \in Lists THEN 4 * Cardinality(ListValue(k, q, past)) ELSE Size[props[k].type]

HasProperty(k) == Return(Answer("has", k, Present(k) /\ props[k].type # "address"))

IsPropertySettable(k) ==
    LET ok == Present(k) /\ props[k].type # "address"
    IN  Return([Answer("settable", k, ok) EXCEPT !.isSettable = ok /\ props[k].isSettable])

GetPropertyDataSize(k, q, past) ==
    LET ok == Present(k) /\ Fits(k, 0, FALSE)
    IN  Return([Answer("size", k, ok) EXCEPT !.plain = (q = {}),
                                              !.used = IF ok THEN Used(k, q, past) ELSE 0])

\* CMVideoFormatDescriptionCreate may refuse a format.
MayFail(k) == props[k].type = "format"

GetPropertyData(k, q, past, n) ==
    LET fits == Present(k) /\ Fits(k, n, TRUE)
    IN  \E ok \in BOOLEAN :
          /\ IF fits THEN ok \/ MayFail(k) ELSE ~ok
          /\ Return([Answer("get", k, ok) EXCEPT
                !.plain = (q = {}), !.room = n,
                !.used  = IF ok THEN Used(k, q, past) ELSE 0,
                !.value = IF ~ok THEN Absent
                          ELSE IF props[k].type \in Lists THEN ListValue(k, q, past)
                          ELSE props[k].value])

\* getProperty of the plugin itself, the overload of the type
GetProperty(k) ==
    /\ Kind[k] \in {"uint32", "float64", "string", "format"}
    /\ UNCHANGED props
    /\ Return([Answer("typed", k, Present(k))
               EXCEPT !.value = IF Present(k) THEN props[k].value ELSE Absent])

Next ==
    \E k \in Keys :
        \/ SetProperty(k) \/ GetProperty(k)
        \/ UNCHANGED props /\ (HasProperty(k) \/ IsPropertySettable(k))
        \/ \E n \in Sizes : SetPropertyData(k, n)
        \/ \E q \in IF k = Owned THEN Qualifiers ELSE {{}} :
           \E past \in IF q = {} THEN {{}} ELSE SUBSET Classes :
              /\ UNCHANGED props
              /\ \/ GetPropertyDataSize(k, q, past)
                 \/ \E n \in Sizes : GetPropertyData(k, q, past, n)

Spec == Init /\ [][Next]_vars

-----------------------------------------------------------------------------
(* Properties                                                              *)

Values == UNION {Choices[k] : k \in Keys}
Calls  == {"none", "has", "settable", "size", "get", "typed", "write"}

\* Every variable has its type, and a selector the type the plugin gave it,
\* whatever the application has written.
TypeOK ==
    /\ DOMAIN props \subseteq Keys
    /\ \A k \in DOMAIN props :
          props[k] \in [type : {Kind[k]}, isSettable : {k \notin Locked}, value : Choices[k]]
    /\ answer \in [call : Calls, key : Keys, ok : BOOLEAN, isSettable : BOOLEAN, plain : BOOLEAN,
                   room : Sizes, used : Nat, value : Values \cup {Absent} \cup SUBSET Objects]
    /\ fresh \in BOOLEAN

\* getProperty writes past the room it is given for a list only.
OnlyListsOverrun ==
    answer.call = "get" /\ answer.used > answer.room => Kind[answer.key] \in Lists

\* The two calls of CMIO: a get with the room a query of the size has asked for
\* succeeds and stays within it, unless it is qualified or the plugin has set
\* the selector in between.
TwoCalls ==
    [][/\ answer.call = "size" /\ answer.ok /\ answer.plain /\ fresh
       /\ answer'.call = "get" /\ answer'.key = answer.key
       /\ answer'.plain /\ answer'.room = answer.used
       => answer'.ok /\ answer'.used <= answer'.room]_vars

\* The properties are the map that PropertyMap describes: only the plugin
\* changes a locked selector, and a read returns what was set last.
Reply ==
    CASE answer.call = "write" /\ answer.ok -> <<"accepted">>
      [] answer.call \in {"get", "typed"} /\ answer.ok /\ answer.plain ->
            <<"read", answer.key, answer.value>>
      [] OTHER -> <<>>

Store == [k \in Keys |-> IF Present(k) THEN props[k].value ELSE Absent]

Map == INSTANCE PropertyMap WITH store <- Store, reply <- Reply
MapSpec == Map!MapSpec
=============================================================================
