--------------------------- MODULE MCIsoAcquisition ---------------------------
(* Images that differ in one respect each, two of which may be in the drive  *)
(* one after the other, and ISO files in some of the places looked into.     *)
EXTENDS IsoAcquisition

Final(a) == [ours |-> TRUE, arch |-> a, beta |-> FALSE, size |-> TRUE, listed |-> TRUE, intact |-> TRUE]
Good32 == Final("i686")
Good64 == Final("x86_64")
Amd64 == Final("amd64")
Large == [Good32 EXCEPT !.size = FALSE]
LargeBeta == [Large EXCEPT !.beta = TRUE]
Other == [Good32 EXCEPT !.ours = FALSE]
Corrupt == [Good32 EXCEPT !.intact = FALSE]
Unlistable == [Good32 EXCEPT !.listed = FALSE]

MCImage == {Good32, Good64, Amd64, Large, LargeBeta, Other, Corrupt, Unlistable}
MCFiles ==
    {f \in [Place -> MCImage \cup {None}] :
        /\ f["given"] \in {None, Good32}
        /\ f["folder"] \in {None, Good32, Good64, Other}
        /\ f["backup"] \in {None, Good64}
        /\ f["drive"] \in {None, Good32, Unlistable}}
=============================================================================
