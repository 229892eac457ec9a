------------------------ MODULE MCTelemetryPipeline ------------------------
EXTENDS TelemetryPipeline

MCPollList == <<"speed", "lot">>
=============================================================================
