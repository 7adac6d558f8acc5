---------------------------- MODULE MCProperties ----------------------------
(* Properties with one selector of each kind that behaves in its own way. *)
EXTENDS Properties

CONSTANTS name, running, hog, format, clock, owned, streams, listener,   \* selectors
          a, b,                                                         \* values
          stream1, stream2, streamClass, deviceClass

MCKeys == {name, running, hog, format, clock, owned, streams, listener}
MCKind == [k \in MCKeys |->
    CASE k = name -> "string" [] k = running -> "uint32" [] k = hog -> "pid"
      [] k = format -> "format" [] k = clock -> "clock" [] k = owned -> "objects"
      [] k = streams -> "pointers" [] k = listener -> "address"]
MCChoices == [k \in MCKeys |->
    CASE k = running -> {a, b}
      [] k = owned -> {{}, {stream1, stream2}}
      [] k = streams -> {{stream1}}
      [] OTHER -> {a}]
MCLocked == {hog}
MCClass == [o \in {stream1, stream2} |-> streamClass]
=============================================================================
