-------------------------- MODULE MCServiceConsole --------------------------
(* ServiceConsole with one collector, an agent that does not lie under the root, and the
   statistics. *)
EXTENDS ServiceConsole

MCPipeline == <<"adapter", "agent", "stats">>

=============================================================================
