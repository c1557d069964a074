--------------------------- MODULE MCRemediation ---------------------------
EXTENDS Remediation, TLC
CONSTANTS folder, file, l1
MCLinksOf == folder :> {l1} @@ file :> {}
MCParent  == folder :> NoEvent @@ file :> folder
MCLocated == folder :> {{}} @@ file :> SUBSET {file, folder}
=============================================================================
