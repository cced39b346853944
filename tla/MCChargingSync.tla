--------------------------- MODULE MCChargingSync ---------------------------
EXTENDS ChargingSync  \* one spot of the rider, one of another contributor

CONSTANTS Good, Bad

MCInputs == {Good, Bad}
MCRefused == {Bad}

=============================================================================
