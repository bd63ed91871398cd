-------------------------- MODULE MCEpisodeRunners --------------------------
EXTENDS EpisodeRunners

AllRunners == {"exploitgym", "harbor", "livecvebench", "dtap", "clawenvkit", "openrt",
               "wildclawbench", "cyberrange", "openclaw", "geo3k", "strict", "claudecode",
               "openhands", "cybergym"}
=============================================================================
