------------------------------ MODULE MCSignIn ------------------------------
(* A small instance of SignIn.                                              *)
EXTENDS SignIn

MCThreads == Runs \union Polls
=============================================================================
