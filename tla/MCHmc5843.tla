----------------------------- MODULE MCHmc5843 -----------------------------
EXTENDS Hmc5843

CONSTANTS u1, u2

MCUsers == {u1, u2}
\* The last has no entry in the tables of the HMC5883L.
MCSettings == {<<"conf", "negativebias">>, <<"rate", 7500>>, <<"rate", 22000>>}
=============================================================================
