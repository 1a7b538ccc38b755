-------------------------------- MODULE MCTexts --------------------------------
(* Texts for TLC: the numbers on both sides of a byte in what may be an    *)
(* address, and a port with and without 0 in what may be an URL.           *)
EXTENDS Texts

const_Alphabets ==
    {{Number(0), Number(7), Number(255), Number(256), Dot, Letter},
     {HTTP, Number(0), Number(80), Slash, Colon, Letter}}
const_Temps == -32 .. 200
===============================================================================
