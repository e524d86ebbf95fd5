---------------------------- MODULE MCMulticore ----------------------------
(* Instances of the SMP example for TLC. *)
EXTENDS MulticoreExample, FiniteSetsExt

MCCore == 0 .. NumCpus - 1
MCMaskOf == [S \in SUBSET Core |-> MapThenSumSet(LAMBDA c : 2 ^ c, S)]
MCCaller == MCCore \X {"thread", "handler"}
MCHandler == MCCore \X {"handler"}
MCCoreOf == [x \in MCCaller |-> x[1]]
OneBank == {"shared"}
SharedBank == [c \in MCCore |-> "shared"]
MCCalls == [x \in MCCaller |-> {check_core_id, ici_check_src}
              \cup UNION {{ici_generate(c), ici_read_status(c), ici_ack(c)} : c \in MCCore}]
=============================================================================
