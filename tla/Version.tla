------------------------------ MODULE Version -------------------------------
(***************************************************************************)
(* Protocol versions (src/src/koe_version.c): which builds may talk to     *)
(* each other and which version they then use.                             *)
(***************************************************************************)
EXTENDS Naturals

Versions == [major : 0 .. 255, minor : 0 .. 255]

(* Mutant: only a newer local version is looked at.                        *)
CompatibleNewerLocal(a, b) ==
    \/ a.major = b.major
    \/ a.major = b.major + 1 /\ a.minor = 0

koe_version_compatible(a, b) ==
    \/ a.major = b.major
    \/ a.major = b.major + 1 /\ a.minor = 0
    \/ b.major = a.major + 1 /\ b.minor = 0

Lower(a, b) ==
    \/ a.major < b.major
    \/ a.major = b.major /\ a.minor <= b.minor

(* Mutant: the newer of the two versions is chosen.                        *)
NegotiateHigher(local, remote) ==
    IF Lower(local, remote) THEN remote ELSE local

(* The version written to *out when the two are compatible.                *)
koe_version_negotiate(local, remote) ==
    IF Lower(local, remote) THEN local ELSE remote

=============================================================================
