------------------------------ MODULE MCWriter ------------------------------
(* One goroutine sends enough to overflow a queue of two by itself (the    *)
(* pipeline), another sends once and may take the slot the first one freed *)
(* (a handler answering a command).                                        *)
EXTENDS Writer, TLC

CONSTANTS pipeline, handler

MCProducers == {pipeline, handler}
MCSpectrum == {pipeline}
MCMaxSend == pipeline :> 4 @@ handler :> 1
=============================================================================
