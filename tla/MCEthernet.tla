----------------------------- MODULE MCEthernet -----------------------------
(***************************************************************************)
(* Small instances of Ethernet: frames of one and of two buffers, pbufs    *)
(* that end elsewhere than the buffers, and sent chains of one or two      *)
(* pbufs.                                                                  *)
(***************************************************************************)
EXTENDS Ethernet

MCTxShapes == {<<2>>, <<1, 1>>}
=============================================================================
