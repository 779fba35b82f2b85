----------------------------- MODULE VtaConfig ------------------------------
(***************************************************************************)
(* config/vta_config.h: the columns of the CSV file, counted from 0.        *)
(***************************************************************************)
EXTENDS Integers

LAYER_POS == 0
PC_POS == 1
MODULE_POS == 3
DRAM_ADDRESS_POS == 21
SRAM_ADDRESS_POS == 22
CACHE_POS == 54

\* The columns taken as text or as an address, and all that are looked at.
TextColumns == {LAYER_POS, 2, MODULE_POS}
AddressColumns == {DRAM_ADDRESS_POS, SRAM_ADDRESS_POS}
Columns == (0..54) \ ({12, 23} \cup (17..20) \cup (24..29))
=============================================================================
