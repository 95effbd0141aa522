------------------------------ MODULE CVFamilies ------------------------------
(***************************************************************************)
(* The four families of master CVs.                                        *)
(***************************************************************************)

\* FAMILY_IDS, and the same in the order of their names, which breaks ties.
FamilyIds    == <<"digital_ic", "verification", "software", "ml">>
Alphabetical == <<"digital_ic", "ml", "software", "verification">>

Families == {"digital_ic", "verification", "software", "ml"}
=============================================================================
