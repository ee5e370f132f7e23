------------------------------ MODULE HwParams ------------------------------
(***************************************************************************)
(* The hardware parameters: how pcm_set_config (src/src/pcm.c) writes down *)
(* what it asks for, how the plugin wrapper (src/src/pcm_plugin.c) narrows *)
(* that to what a plugin can do and picks one value of what is left, and   *)
(* how pcm_params_get and its accessors read the result.                   *)
(*                                                                         *)
(* A mask is the set of its bits.  An interval has a least and a greatest  *)
(* value; nothing in this code opens one of its ends.  An interval may     *)
(* become empty, with min above max, and a mask too: no line looks.        *)
(***************************************************************************)
EXTENDS Integers, FiniteSetsExt

CONSTANTS
  Format,      \* the values of enum pcm_format, and one that is none of them
  Access,      \* the bits of the access mask
  UIntMax      \* the largest unsigned int

AlsaFormat ==
  {"S8", "S16_LE", "S16_BE", "S24_LE", "S24_BE", "S24_3LE", "S24_3BE",
   "S32_LE", "S32_BE", "FLOAT_LE", "FLOAT_BE"}

ASSUME HwParamsAssumption ==
  /\ {"RW_INTERLEAVED", "MMAP_INTERLEAVED"} \subseteq Access
  /\ UIntMax \in Nat

UInt(n) == n % (UIntMax + 1)

pcm_format_to_alsa(format) == IF format \in AlsaFormat THEN format ELSE "S16_LE"

pcm_format_to_bits(format) ==
  CASE format \in {"S32_LE", "S32_BE", "S24_LE", "S24_BE", "FLOAT_LE",
                   "FLOAT_BE"} -> 32
    [] format \in {"S24_3LE", "S24_3BE"} -> 24
    [] format = "S8" -> 8
    [] OTHER -> 16

MaskParam == {"ACCESS", "FORMAT", "SUBFORMAT"}
IntervalParam ==
  {"SAMPLE_BITS", "FRAME_BITS", "CHANNELS", "RATE", "PERIOD_TIME",
   "PERIOD_SIZE", "PERIOD_BYTES", "PERIODS", "BUFFER_TIME", "BUFFER_SIZE",
   "BUFFER_BYTES", "TICK_TIME"}

Interval(least, most) == [min |-> least, max |-> most, integer |-> FALSE]
Integral(least, most) == [min |-> least, max |-> most, integer |-> TRUE]

-----------------------------------------------------------------------------
(* What the library asks for: src/src/pcm.c *)

param_init ==
  [mask |-> [ACCESS |-> Access, FORMAT |-> AlsaFormat, SUBFORMAT |-> {"STD"}],
   interval |-> [n \in IntervalParam |-> Interval(0, UIntMax)]]

(* The configuration asked for, as pcm_set_config writes it down. *)
ConfigParams(config, flags) ==
  [mask |->
     [param_init.mask EXCEPT
        !.FORMAT = {pcm_format_to_alsa(config.format)},
        !.ACCESS = {IF "PCM_MMAP" \in flags THEN "MMAP_INTERLEAVED"
                                            ELSE "RW_INTERLEAVED"}],
   interval |->
     [param_init.interval EXCEPT
        !.PERIOD_SIZE.min = config.period_size,
        !.CHANNELS = Integral(config.channels, config.channels),
        !.PERIODS = Integral(config.period_count, config.period_count),
        !.RATE = Integral(config.rate, config.rate)]]

param_get_int(params, n) ==
  IF params.interval[n].integer THEN params.interval[n].max ELSE 0

(* What is read back into the handle. *)
RefinedConfig_Unread(config, params) == config
RefinedConfig(config, params) ==
  [config EXCEPT !.period_size = param_get_int(params, "PERIOD_SIZE"),
                 !.period_count = param_get_int(params, "PERIODS")]

(* pcm_frames_to_bytes, of one frame, in bits. *)
FrameBits(config) == config.channels * pcm_format_to_bits(config.format)

(* The accessors of a client: is a value between what pcm_params_get_min   *)
(* and pcm_params_get_max say, and is a format in the mask.                *)
Allows(params, n, value) ==
  params.interval[n].min <= value /\ value <= params.interval[n].max

pcm_params_format_test(params, format) ==
  /\ pcm_format_to_alsa(format) = "S16_LE" => format = "S16_LE"
  /\ pcm_format_to_alsa(format) \in params.mask.FORMAT

-----------------------------------------------------------------------------
(* What a plugin can do: src/src/pcm_plugin.c *)

(* (size * 8) / frame_bits, in unsigned arithmetic. *)
pcm_plug_bytes_to_frames(size, frame_bits) == UInt(size * 8) \div frame_bits
pcm_plug_frames_to_bytes(frames, frame_bits) ==
  UInt(frames * (frame_bits \div 8))

(* The constraints of a plugin.  The bit of SNDRV_PCM_SUBFORMAT_STD is     *)
(* given as a mask, and is zero; the times are left at zero.               *)
pcm_plug_get_params(cons) ==
  LET bits == UInt(cons.bit_width.min * cons.channels.min)
      least == UInt(cons.period_bytes.min * cons.periods.min)
      most == UInt(cons.period_bytes.max * cons.periods.max)
      set == [SAMPLE_BITS |-> Integral(cons.bit_width.min, cons.bit_width.max),
              CHANNELS |-> Integral(cons.channels.min, cons.channels.max),
              RATE |-> Integral(cons.rate.min, cons.rate.max),
              PERIODS |-> Integral(cons.periods.min, cons.periods.max),
              PERIOD_BYTES |->
                Interval(cons.period_bytes.min, cons.period_bytes.max),
              FRAME_BITS |->
                Integral(bits, UInt(cons.bit_width.max * cons.channels.max)),
              PERIOD_SIZE |->
                Integral(pcm_plug_bytes_to_frames(cons.period_bytes.min, bits),
                         pcm_plug_bytes_to_frames(cons.period_bytes.max, bits)),
              BUFFER_BYTES |-> Integral(least, most),
              BUFFER_SIZE |->
                Integral(pcm_plug_bytes_to_frames(least, bits),
                         pcm_plug_bytes_to_frames(most, bits))]
  IN  [mask |-> [ACCESS |-> cons.access, FORMAT |-> cons.format,
                 SUBFORMAT |-> {}],
       interval |-> [n \in IntervalParam |->
                       IF n \in DOMAIN set THEN set[n] ELSE Interval(0, 0)]]

(* One interval narrowed by another.  The caller asks for all of them to   *)
(* be refined, both for HW_REFINE and for HW_PARAMS.                       *)
IntervalRefine(r, c) ==
  LET least == Max({r.min, c.min})
      most == Min({r.max, c.max})
  IN  [min |-> least, max |-> most,
       integer |-> r.integer \/ c.integer \/ least = most]

pcm_plug_hw_params_refine(params, with) ==
  [mask |-> [m \in MaskParam |-> params.mask[m] \cap with.mask[m]],
   interval |->
     [n \in IntervalParam |->
        IntervalRefine(params.interval[n], with.interval[n])]]

pcm_plug_hrefine(cons, params) ==
  pcm_plug_hw_params_refine(params, pcm_plug_get_params(cons))

(* An interval that starts at zero is not touched, and the refusal is not  *)
(* looked at.                                                              *)
pcm_plug_interval_select(interval, value) ==
  IF interval.min = 0 THEN interval
  ELSE [interval EXCEPT !.min = value, !.max = value]

param_list == {"SAMPLE_BITS", "CHANNELS", "RATE", "PERIOD_SIZE", "PERIODS"}

pcm_plug_hw_params_set_Max(params) ==
  [params EXCEPT !.interval =
     [n \in IntervalParam |->
        IF n \in param_list
        THEN pcm_plug_interval_select(params.interval[n],
                                      params.interval[n].max)
        ELSE params.interval[n]]]

(* The least values first, then what follows from them. *)
pcm_plug_hw_params_set(params) ==
  LET low == [n \in IntervalParam |->
                IF n \in param_list
                THEN pcm_plug_interval_select(params.interval[n],
                                              params.interval[n].min)
                ELSE params.interval[n]]
      bits == UInt(low["SAMPLE_BITS"].min * low["CHANNELS"].min)
      size == low["PERIOD_SIZE"].min
      frames == UInt(size * low["PERIODS"].min)
      value == [FRAME_BITS |-> bits,
                PERIOD_BYTES |-> pcm_plug_frames_to_bytes(size, bits),
                BUFFER_SIZE |-> frames,
                BUFFER_BYTES |-> pcm_plug_frames_to_bytes(frames, bits)]
  IN  [params EXCEPT !.interval =
         [n \in IntervalParam |->
            IF n \in DOMAIN value
            THEN pcm_plug_interval_select(low[n], value[n]) ELSE low[n]]]

(* The parameters a plugin is given for a configuration. *)
Granted(cons, config, flags) ==
  pcm_plug_hw_params_set(pcm_plug_hrefine(cons, ConfigParams(config, flags)))

-----------------------------------------------------------------------------
(* What a plugin makes of them: examples/plugins/sample_pcm_plugin.c *)

alsaformat_to_bitwidth(format) ==
  CASE format \in {"S32_LE", "S24_LE"} -> 32
    [] format = "S8" -> 8
    [] format = "S24_3LE" -> 24
    [] OTHER -> 16

(* The mask holds the format asked for, or nothing: then it is read as the *)
(* format with number zero.                                                *)
snd_mask_val(mask) == IF mask = {} THEN "S8" ELSE CHOOSE f \in mask : TRUE

(* The bits of a frame, by which sample_pcm_writei_frames takes frames out *)
(* of the client's buffer.                                                 *)
PluginFrameBits(params) ==
  param_get_int(params, "CHANNELS")
    * alsaformat_to_bitwidth(snd_mask_val(params.mask.FORMAT))
=============================================================================
