------------------------ MODULE PcmPluginProperties -------------------------
(***************************************************************************)
(* What must hold of a stream whose device is a plugin.                    *)
(***************************************************************************)
EXTENDS PcmPlugin

(* The parameters pcm_params_get reported allow a configuration: a client  *)
(* that asks pcm_params_get_min, _max and pcm_params_format_test before it *)
(* opens the stream passes none but these.                                 *)
Reported(cfg) ==
  /\ reported # None
  /\ reported.mask.ACCESS \cap ConfigParams(cfg, flags).mask.ACCESS # {}
  /\ pcm_params_format_test(reported, cfg.format)
  /\ Allows(reported, "CHANNELS", cfg.channels)
  /\ Allows(reported, "RATE", cfg.rate)
  /\ Allows(reported, "PERIODS", cfg.period_count)
  /\ Allows(reported, "PERIOD_SIZE", cfg.period_size)

Positive(cfg) ==
  \A field \in {"channels", "rate", "period_size", "period_count"} :
    cfg[field] > 0

Selected(n, value) ==
  params.interval[n].min = value /\ params.interval[n].max = value

(* What pcm_params_get reports, pcm_open grants: the plugin is set up with *)
(* exactly the configuration asked for, and with a buffer of so many       *)
(* periods.                                                                *)
GrantsWhatIsReported ==
  params # None /\ Reported(asked) /\ Positive(asked) =>
    /\ Selected("CHANNELS", asked.channels)
    /\ Selected("RATE", asked.rate)
    /\ Selected("PERIODS", asked.period_count)
    /\ Selected("PERIOD_SIZE", asked.period_size)
    /\ params.mask.FORMAT = {asked.format}
    /\ reported.interval["BUFFER_SIZE"].min > 0 =>
         Selected("BUFFER_SIZE", UInt(asked.period_size * asked.period_count))

(* A handle whose last pcm_set_config succeeded has the configuration its  *)
(* plugin was set up with, and client and plugin mean the same bytes by a  *)
(* frame; no plugin is prepared, started or written to that was not set    *)
(* up.  The exception is a failure while errno was zero, which             *)
(* pcm_set_config returns as success.                                      *)
PluginAgrees ==
  pc # "closed" /\ ~silent =>
    /\ state # "OPEN" => params # None
    /\ pc = "idle" /\ agreed =>
         /\ config.period_size = param_get_int(params, "PERIOD_SIZE")
         /\ config.period_count = param_get_int(params, "PERIODS")
         /\ Reported(config) /\ Reported(asked) /\ Positive(asked) =>
              config = asked /\ FrameBits(config) = PluginFrameBits(params)

FinitelyManyStops ==
  <>[][state' = "SETUP" => state = "SETUP"]_vars

(* A transfer on a plugin's stream ends, also when the plugin answers each *)
(* request with EPIPE, or left EPIPE in errno for the library to find, as  *)
(* long as it is not stopped for ever.                                     *)
PluginCallReturns ==
  FinitelyManyStops => [](pc = "entry" => <>(pc = "idle"))
==============================================================================
