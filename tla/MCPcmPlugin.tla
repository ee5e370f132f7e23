----------------------------- MODULE MCPcmPlugin ------------------------------
(***************************************************************************)
(* Plugins and configurations for TLC.                                     *)
(***************************************************************************)
EXTENDS PcmPluginProperties

Between(least, most) == [min |-> least, max |-> most]

(* The sample plugin's constraints, with smaller numbers. *)
SamplePlugin ==
  [access |-> {"RW_INTERLEAVED"},
   format |-> {"S16_LE", "S24_LE", "S24_3LE", "S32_LE"},
   bit_width |-> Between(16, 32), channels |-> Between(1, 2),
   rate |-> Between(8, 48), periods |-> Between(1, 4),
   period_bytes |-> Between(8, 64)]

(* Its smallest period is less than a frame, its greatest buffer more than *)
(* an unsigned int can count the bits of.                                  *)
OddPlugin ==
  [SamplePlugin EXCEPT !.channels = Between(2, 8), !.periods = Between(2, 8),
                       !.period_bytes = Between(1, 128), !.format = {"S16_LE"}]

Sound == [channels |-> 2, rate |-> 48, period_size |-> 4,
          period_count |-> 2, format |-> "S16_LE"]

(* In range; a wide format; a period to be rounded up; too many channels   *)
(* and too low a rate; no period and a format no plugin has; no format at  *)
(* all.                                                                    *)
ModelConfigs ==
  {Sound,
   [Sound EXCEPT !.format = "S24_LE"],
   [Sound EXCEPT !.period_size = 2],
   [Sound EXCEPT !.channels = 9, !.rate = 4],
   [Sound EXCEPT !.period_size = 0, !.format = "FLOAT_LE"],
   [Sound EXCEPT !.format = "other"]}

ModelConstraints == {SamplePlugin, OddPlugin}
ModelFlagSets == {{}, {"PCM_IN", "PCM_NORESTART"}, {"PCM_MMAP"}}
ModelFormat == AlsaFormat \cup {"other"}
==============================================================================
