----------------------------- MODULE MCSettings -----------------------------
(***************************************************************************)
(* Settings with one run, a user who changes a text that is a secret and a *)
(* flag, and programs started with no options or with a user and a         *)
(* repository.                                                             *)
(***************************************************************************)
EXTENDS Settings

UserAndRepository ==
    {Nothing,
     [Nothing EXCEPT !["username"] = Raw, !["repository"] = Plain]}
=============================================================================
