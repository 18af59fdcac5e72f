------------------------------- MODULE MCControl -------------------------------
(* Control on a small instance: three instructions, the last one large.    *)
EXTENDS Control

CONSTANTS i1, i2, i3
MCScript == <<i1, i2, i3>>
MCLarge == {i3}

===============================================================================
