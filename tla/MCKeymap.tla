------------------------------ MODULE MCKeymap ------------------------------
(* Instances of Keymap: two applications, two contents; the older format     *)
(* maps both contents to one.                                                *)
EXTENDS Keymap

MCMigrated == [v \in Values |-> Default]
=============================================================================
