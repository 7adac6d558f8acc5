\* One selector of each kind: two values for one the application may change,
\* lists of up to two objects of one class, qualifiers of two classes.
SPECIFICATION Spec
CONSTANTS
  name = name  running = running  hog = hog  format = format  clock = clock
  owned = owned  streams = streams  listener = listener
  a = a  b = b  stream1 = stream1  stream2 = stream2  Absent = Absent
  streamClass = streamClass  deviceClass = deviceClass
  Keys <- MCKeys  Kind <- MCKind  Choices <- MCChoices  Locked <- MCLocked
  Owned = owned  Objects = {stream1, stream2}  Class <- MCClass
  Classes = {streamClass, deviceClass}
PROPERTIES TwoCalls MapSpec
