------------------------------ MODULE MCFamezMsg ------------------------------
(* Addresses for the instances of FamezMsg that TLC checks.                  *)
EXTENDS FamezMsg

MCToServer == {<<CID_IS_PEER_ID, Server>>}

MCToSelf == {<<CID_IS_PEER_ID, 1>>}

\* Peer 2, an address below the first peer and a SID nobody has.
MCToSecond == {<<SID_DEFAULT, 200>>, <<SID_DEFAULT, 99>>, <<200, 27>>}
===============================================================================
