-------------------------- MODULE MCSharingLinks --------------------------
EXTENDS SharingLinks, TLC
CONSTANTS e1, e2, l1
MCLinksOf == e1 :> {l1} @@ e2 :> {l1}
=============================================================================
