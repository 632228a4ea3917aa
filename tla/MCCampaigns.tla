------------------------------ MODULE MCCampaigns -----------------------------
EXTENDS Campaigns, TLC

CONSTANTS p1, p2, r1, r1b, r2, junk, broken

\* Two spellings of one number, another number, a header and a broken row.
Normalize == (r1 :> p1) @@ (r1b :> p1) @@ (r2 :> p2) @@ (junk :> "invalid")
             @@ (broken :> "malformed")

Uploads == {<<junk, r1, r1b, r2>>, <<r1, broken, r2>>}

===============================================================================
