--------------------------- MODULE DeviceBinding ---------------------------
(***************************************************************************)
(* Which file stands for which block device of a split image: the option   *)
(* --device, given as name=path or as a bare path whose file stem has to   *)
(* tell the device (core/src/reader/multiblock.rs).                        *)
(*                                                                         *)
(* How a stem is cut and compared is abstracted to the device names that a *)
(* path matches.  Devices are numbered from 0, the primary; an option is a *)
(* set of at most one value, an answer too, and an error the empty set.    *)
(***************************************************************************)
EXTENDS Naturals, Sequences

CONSTANTS
  Devices,     \* names of the table's block devices, in order
  PrimaryPaths, \* paths taken for the image itself (same_file_hint)
  StemNames,   \* path -> names equal to its stem, with or without super_ or
               \* super- before it, or to what follows a _ in it
  FoldedNames  \* path -> names equal to its stem but for case

Numbers == 0 .. Len(Devices) - 1
Name(d) == Devices[d + 1]

\* auto_match_device: the only device that matches; case counts if it can.
AutoMatchDevice(path) ==
  LET exact == {d \in Numbers : Name(d) \in StemNames[path]}
      hits == IF exact # {} THEN exact ELSE {d \in Numbers : Name(d) \in FoldedNames[path]}
  IN {d \in hits : hits = {d}}

\* The device that one --device option [name, path] means.
DeviceOf(spec) ==
  IF spec.name = {} THEN AutoMatchDevice(spec.path)
  ELSE {d \in Numbers : Name(d) \in spec.name /\ \A e \in 0 .. d - 1 : Name(e) # Name(d)}

\* Every option means a device, no two the same but for the primary, which
\* can be given by its own path only and is then left out.
Accepted(specs) ==
  \A k \in DOMAIN specs :
    \E d \in DeviceOf(specs[k]) :
      IF d = 0 THEN specs[k].path \in PrimaryPaths
      ELSE \A j \in 1 .. k - 1 : d \notin DeviceOf(specs[j])

\* resolve_device_bindings: a map from secondary devices to paths.
ResolveDeviceBindings(specs) ==
  LET given == (UNION {DeviceOf(specs[k]) : k \in DOMAIN specs}) \ {0}
      path(d) == specs[CHOOSE k \in DOMAIN specs : d \in DeviceOf(specs[k])].path
  IN IF Accepted(specs) THEN {[d \in given |-> path(d)]} ELSE {}
=============================================================================
