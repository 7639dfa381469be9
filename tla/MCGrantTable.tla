---------------------------- MODULE MCGrantTable ---------------------------
(***************************************************************************)
(* Instances of GrantTable for TLC.                                        *)
(***************************************************************************)
EXTENDS GrantTable, TLC

CONSTANTS v1, v2, v3, d1, d2, f1, f2

ThreeVcpus == {v1, v2, v3}
TwoDomains == {d1, d2}
TwoFrames == {f1, f2}

Permit(d, f) == [type |-> "permit", domid |-> d, readonly |-> FALSE, frame |-> f]
Map(r, flags) == [NoCall EXCEPT !.kind = "map", !.ref = r, !.flags = flags]
Unmap(h, modes) == [NoCall EXCEPT !.kind = "unmap", !.handle = h, !.flags = modes]
Copy(r, flags) == [NoCall EXCEPT !.kind = "copy", !.ref = r, !.flags = flags]

RO == {"host", "readonly"}
RW == {"host"}

Calls(x, y) == [v \in {v1, v2} |-> IF v = v1 THEN x ELSE y]

\* Two vCPUs of one domain map and copy while the guest grants and revokes.
Base ==
  [version |-> 1, external |-> TRUE, hypercalls |-> FALSE, dies |-> FALSE, perPage |-> 2, maxFrames |-> 1,
   domain |-> [v \in ThreeVcpus |-> IF v = v3 THEN d2 ELSE d1],
   granted |-> [r \in Refs |-> IF r = 11 THEN Permit(d1, f1) ELSE Invalid],
   grants |-> {Permit(d1, f1), Permit(d1, f2)}, guest |-> 2,
   calls |-> Calls({Map(11, RO), Map(11, RW), Unmap(1, RW)}, {Copy(11, RO), Copy(11, RW)}),
   left |-> Calls(2, 1)]

BothGranted == [r \in Refs |-> IF r = 11 THEN Permit(d1, f1) ELSE Permit(d1, f2)]

Several ==
  { [Base EXCEPT !.guest = 3],
    [Base EXCEPT !.version = 2, !.guest = 3],
    \* a version change and a swap
    [Base EXCEPT !.hypercalls = TRUE, !.left = Calls(1, 1)],
    \* sub-page grants, grants to the other domain, a reference out of range
    [Base EXCEPT !.version = 2, !.left = Calls(1, 1),
                 !.grants = {Permit(d2, f1), [Permit(d1, f2) EXCEPT !.type = "sub_page"]},
                 !.calls[v1] = {Map(11, RO), Map(13, RO), Copy(11, RO)}],
    \* a handle is unmapped twice and used again in between
    [Base EXCEPT !.granted = BothGranted, !.guest = 0, !.left = Calls(1, 6),
                 !.calls = Calls({Unmap(1, RW)}, {Map(11, RO), Map(12, RW), Unmap(1, RW), Unmap(2, RW)})],
    \* entries are stolen and come back
    [Base EXCEPT !.guest = 0, !.left = Calls(3, 3), !.perPage = 4,
                 !.calls = [v \in {v1, v2} |-> {Map(11, RO), Unmap(1, RW), Unmap(3, RW)}]],
    \* pin counts at their limit, more than one page of maptrack entries
    [Base EXCEPT !.guest = 0, !.left = Calls(4, 1), !.maxFrames = 3,
                 !.calls = Calls({Map(11, RO)}, {Map(11, RW), Unmap(1, RW)})],
    \* a domain dies
    [Base EXCEPT !.guest = 1, !.left = Calls(3, 1), !.dies = TRUE, !.perPage = 4],
    \* host and device mappings, with an IOMMU
    [Base EXCEPT !.guest = 0, !.external = FALSE, !.perPage = 4, !.left = Calls(3, 2),
                 !.calls = Calls({Map(11, {"host", "dev"}), Unmap(1, {"dev"}), Unmap(1, RW)},
                                 {Map(11, RO), Map(11, {"dev"}), Unmap(2, Modes)})] }
=============================================================================
