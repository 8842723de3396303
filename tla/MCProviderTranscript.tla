------------------------ MODULE MCProviderTranscript ------------------------
(* The instances of MCToolLoop, with the steps rebuilt from the turns and the *)
(* messages for the provider.                                                 *)
EXTENDS MCToolLoop, ProviderTranscript

MCRequestMessages ==
  {<<UserMessage>>, <<UserMessage, AssistantMessage(<<>>)>>}
=============================================================================
