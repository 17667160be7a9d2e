------------------------------- MODULE Parts --------------------------------
(* What the modules that put components together share: components that share no
   state are checked together by running any one of them.  part says which, and the
   variables are its, in the order in which its module declares them. *)

CONSTANTS None, Handler

VARIABLES part, v1, v2, v3, v4, v5, v6, v7, v8, v9, v10, v11, v12, v13, v14, v15, v16, v17, v18

from13 == <<v13, v14, v15, v16, v17, v18>>
from12 == <<v12, from13>>
from11 == <<v11, from12>>
from9  == <<v9, v10, from11>>
from7  == <<v7, v8, from9>>
from6  == <<v6, from7>>
from4  == <<v4, v5, from6>>
state  == <<v1, v2, v3, from4>>

Unused13 == v13 = None /\ v14 = None /\ v15 = None /\ v16 = None /\ v17 = None /\ v18 = None
Unused12 == v12 = None /\ Unused13
Unused11 == v11 = None /\ Unused12
Unused9  == v9 = None /\ v10 = None /\ Unused11
Unused7  == v7 = None /\ v8 = None /\ Unused9
Unused6  == v6 = None /\ Unused7
Unused4  == v4 = None /\ v5 = None /\ Unused6
=============================================================================
