--------------------------- MODULE MCLiveCampaign ---------------------------
EXTENDS LiveCampaign

\* config/architecture/command-fault-case.json
AllCases == <<"caller_reply_lost", "before_write_disconnect", "commit_dropped",
              "native_ack_lost", "writer_restart_after_effect", "delayed_expired_command">>
=============================================================================
