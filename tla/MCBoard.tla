------------------------------ MODULE MCBoard ------------------------------
(* Instances of Board for TLC.                                              *)
EXTENDS Board

\* Of the gpios of attr_drv-overlay.dts the two that other drivers want, at the
\* ends as there, and one between them.
OverlayGpios == <<"gpio12", "gpio16", "gpio21">>
=============================================================================
