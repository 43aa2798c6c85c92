---------------------------- MODULE MCSecretCustody ----------------------------
(* Instance of SecretCustody for TLC.                                       *)
EXTENDS SecretCustody, TLC

CONSTANTS h1, h2, h3, k1, k2

\* A new profile, or one with the key file of an earlier version.
FirstStarts == {Absent, k1}

\* Requests arrive once the start has finished.
AfterStart == {"running"}

\* Requests also arrive while the start still reconciles.
DuringStart == {"eligibility", "unused eligibility", "grant", "unused grant", "running"}
===============================================================================
