--------------------------- MODULE MCProfileSetup ---------------------------
(* PDUs of one and of three phases, without and with banks (one group and  *)
(* two), with metered outlets of one group, of several, and of a part.     *)
EXTENDS ProfileSetup

MCPdus ==
  {[c \in ToSet(Capabilities) |->
      CASE c \in {"num_phases", "num_metered_phases"} -> phases
        [] c = "num_banks"   -> banks
        [] c = "num_outlets" -> outlets[1]
        [] OTHER             -> outlets[2]] :
     phases \in {1, 3}, banks \in {0, 8}, outlets \in {<<8, 0>>, <<24, 10>>}}
=============================================================================
