------------------------------ MODULE MCUsersPage ------------------------------
(***************************************************************************)
(* A small instance of UsersPage: an administrator, and one account that   *)
(* may have been there already.                                            *)
(***************************************************************************)
EXTENDS UsersPage

MCFirst == {<<"admin">>, <<"admin", "demo">>}

================================================================================
