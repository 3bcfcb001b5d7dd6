---------------------------- MODULE MCMAX77958 ----------------------------
(* MAX77958 for TLC. *)
EXTENDS MAX77958

MCNoCalls == <<>>
MCInit == <<"max77958_init">>
MCInitAndTest == <<"max77958_init", "opcode_test">>
MCAllCalls == <<"max77958_init", "read_reg", "snk_pdo_request">>
MCLatched == {"APCmdResI", "CCStat"}
MCNothing == {}
MCEvents == {"cc", "pd", "charger"}

\* The properties of the run that uses this claim nothing once cores clashed;
\* of events and drops, a behaviour has one.
NoClash == ~Clashed /\ events + drops <= 1
=============================================================================
