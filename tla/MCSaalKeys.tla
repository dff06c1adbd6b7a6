---------------------------- MODULE MCSaalKeys -----------------------------
(* Three places, so that a key can be cloned twice or replaced while a     *)
(* clone of it lives, three keys and two workers.                          *)
EXTENDS SaalKeys
=============================================================================
