-------------------------- MODULE PcmPlugin_proofs ---------------------------
(***************************************************************************)
(* What pcm_params_get reports of a plugin pcm_open grants, and a handle   *)
(* and its plugin agree, for all constraints, configurations and flags.    *)
(***************************************************************************)
EXTENDS PcmPluginProperties, TLAPS

------------------------------------------------------------------------------
(* Intervals                                                               *)

LEMMA MaxOfTwo ==
  ASSUME NEW a \in Int, NEW b \in Int
  PROVE  Max({a, b}) = IF a >= b THEN a ELSE b
<1>1. \E m \in {a, b} : \A y \in {a, b} : m >= y
  OBVIOUS
<1> QED BY <1>1 DEF Max

LEMMA MinOfTwo ==
  ASSUME NEW a \in Int, NEW b \in Int
  PROVE  Min({a, b}) = IF a <= b THEN a ELSE b
<1>1. \E m \in {a, b} : \A y \in {a, b} : m <= y
  OBVIOUS
<1> QED BY <1>1 DEF Min

(* What a plugin with values from a to b reports: an interval that allows  *)
(* v is left with v when v is asked for,                                   *)
LEMMA RefinePoint ==
  ASSUME NEW a \in Int, NEW b \in Int, NEW v \in Nat,
         NEW r, r = IntervalRefine(Interval(0, UIntMax), Integral(a, b)),
         r.min <= v, v <= r.max
  PROVE  IntervalRefine(Integral(v, v), Integral(a, b)) = Integral(v, v)
<1>1. /\ r.min = Max({0, a}) /\ r.max = Min({UIntMax, b})
  BY DEF IntervalRefine, Interval, Integral
<1>2. a <= v /\ v <= b
  BY <1>1, MaxOfTwo, MinOfTwo, HwParamsAssumption
<1>3. Max({v, a}) = v /\ Min({v, b}) = v
  BY <1>2, MaxOfTwo, MinOfTwo
<1> QED BY <1>3 DEF IntervalRefine, Integral

(* and begins with v when at least v is asked for.                         *)
LEMMA RefineLeast ==
  ASSUME NEW a \in Int, NEW b \in Int, NEW v \in Nat,
         NEW r, r = IntervalRefine(Interval(0, UIntMax), Integral(a, b)),
         r.min <= v, v <= r.max
  PROVE  IntervalRefine(Interval(v, UIntMax), Integral(a, b)).min = v
<1>1. r.min = Max({0, a})
  BY DEF IntervalRefine, Interval, Integral
<1>2. a <= v
  BY <1>1, MaxOfTwo
<1>3. Max({v, a}) = v
  BY <1>2, MaxOfTwo
<1> QED BY <1>3 DEF IntervalRefine, Interval, Integral

LEMMA SelectPoint ==
  ASSUME NEW v, NEW m, v # 0
  PROVE  pcm_plug_interval_select(Integral(v, m), v) = Integral(v, v)
BY DEF pcm_plug_interval_select, Integral

LEMMA UIntNat ==
  ASSUME NEW n \in Int
  PROVE  UInt(n) \in Nat
BY HwParamsAssumption DEF UInt

------------------------------------------------------------------------------
(* What is asked for, and what there is                                    *)

Points == {"CHANNELS", "RATE", "PERIODS"}

(* The value of a configuration for a parameter.                           *)
ValueOf(cfg, n) ==
  CASE n = "CHANNELS" -> cfg.channels
    [] n = "RATE" -> cfg.rate
    [] n = "PERIODS" -> cfg.period_count
    [] OTHER -> cfg.period_size

LEMMA Values ==
  ASSUME NEW cfg
  PROVE  /\ ValueOf(cfg, "CHANNELS") = cfg.channels
         /\ ValueOf(cfg, "RATE") = cfg.rate
         /\ ValueOf(cfg, "PERIODS") = cfg.period_count
         /\ ValueOf(cfg, "PERIOD_SIZE") = cfg.period_size
BY DEF ValueOf

LEMMA Refining ==
  ASSUME NEW cfg \in ConfigType, NEW p, NEW got, got = RefinedConfig(cfg, p)
  PROVE  /\ got.period_size = param_get_int(p, "PERIOD_SIZE")
         /\ got.period_count = param_get_int(p, "PERIODS")
         /\ param_get_int(p, "PERIOD_SIZE") = cfg.period_size
              /\ param_get_int(p, "PERIODS") = cfg.period_count => got = cfg
<1> DEFINE size == param_get_int(p, "PERIOD_SIZE")
           count == param_get_int(p, "PERIODS")
<1>1. got = [cfg EXCEPT !.period_size = size, !.period_count = count]
  BY DEF RefinedConfig
<1> HIDE DEF size, count
<1>2. got.period_size = size /\ got.period_count = count
  BY <1>1 DEF ConfigType
<1>3. size = cfg.period_size /\ count = cfg.period_count => got = cfg
  BY <1>1 DEF ConfigType
<1> QED BY <1>2, <1>3 DEF size, count

LEMMA Asking ==
  ASSUME NEW cfg, NEW f
  PROVE  LET p == ConfigParams(cfg, f)
         IN  /\ \A n \in Points :
                  p.interval[n] = Integral(ValueOf(cfg, n), ValueOf(cfg, n))
             /\ p.interval["PERIOD_SIZE"] = Interval(cfg.period_size, UIntMax)
             /\ p.interval["BUFFER_SIZE"] = Interval(0, UIntMax)
             /\ p.mask["FORMAT"] = {pcm_format_to_alsa(cfg.format)}
BY DEF ConfigParams, param_init, Points, ValueOf, Interval, IntervalParam

(* The ends of a plugin's interval are numbers.                            *)
Known == Points \cup {"PERIOD_SIZE", "BUFFER_SIZE"}

LEMMA Constraining ==
  ASSUME NEW c \in Constraints
  PROVE  LET p == pcm_plug_get_params(c)
         IN  /\ \A n \in Known :
                  \E a, b \in Int : p.interval[n] = Integral(a, b)
             /\ p.mask["FORMAT"] = c.format
<1> DEFINE bits == UInt(c.bit_width.min * c.channels.min)
           frames(size) == pcm_plug_bytes_to_frames(size, bits)
           least == UInt(c.period_bytes.min * c.periods.min)
           most == UInt(c.period_bytes.max * c.periods.max)
           p == pcm_plug_get_params(c)
<1>1. c \in ConstraintType
  BY PluginAssumption
<1>2. /\ c.channels.min \in Nat /\ c.channels.max \in Nat
      /\ c.rate.min \in Nat /\ c.rate.max \in Nat
      /\ c.periods.min \in Nat /\ c.periods.max \in Nat
      /\ c.period_bytes.min \in Nat /\ c.period_bytes.max \in Nat
      /\ c.bit_width.min \in Nat
  BY <1>1 DEF ConstraintType, MinMax
<1>3. bits \in Nat \ {0}
  <2>1. c.bit_width.min * c.channels.min \in Int
    BY <1>2
  <2> QED BY <2>1, UIntNat, PluginAssumption
<1>4. least \in Nat /\ most \in Nat
  <2>1. /\ c.period_bytes.min * c.periods.min \in Int
        /\ c.period_bytes.max * c.periods.max \in Int
    BY <1>2
  <2> QED BY <2>1, UIntNat
<1>5. ASSUME NEW size \in Nat PROVE frames(size) \in Int
  <2>1. UInt(size * 8) \in Nat
    BY UIntNat
  <2> HIDE DEF bits
  <2> QED BY <2>1, <1>3 DEF pcm_plug_bytes_to_frames
<1> HIDE DEF bits, least, most
<1>6. /\ p.interval["CHANNELS"] = Integral(c.channels.min, c.channels.max)
      /\ p.interval["RATE"] = Integral(c.rate.min, c.rate.max)
      /\ p.interval["PERIODS"] = Integral(c.periods.min, c.periods.max)
      /\ p.interval["PERIOD_SIZE"] =
           Integral(frames(c.period_bytes.min), frames(c.period_bytes.max))
      /\ p.interval["BUFFER_SIZE"] = Integral(frames(least), frames(most))
      /\ p.mask["FORMAT"] = c.format
  BY DEF pcm_plug_get_params, IntervalParam, bits, least, most
<1>7. /\ frames(c.period_bytes.min) \in Int /\ frames(c.period_bytes.max) \in Int
      /\ frames(least) \in Int /\ frames(most) \in Int
  BY <1>2, <1>4, <1>5
<1> HIDE DEF frames, p
<1>8. ASSUME NEW n \in Known
      PROVE  \E a, b \in Int : p.interval[n] = Integral(a, b)
  BY <1>2, <1>6, <1>7 DEF Known, Points
<1> QED BY <1>6, <1>8 DEF p

------------------------------------------------------------------------------
(* What is granted                                                         *)

(* Reported(cfg), of the plugin c.                                         *)
Offered(c, cfg) ==
  LET r == pcm_plug_hrefine(c, param_init)
  IN  /\ pcm_params_format_test(r, cfg.format)
      /\ \A n \in Points : Allows(r, n, ValueOf(cfg, n))
      /\ Allows(r, "PERIOD_SIZE", cfg.period_size)

LEMMA ConfigTypes ==
  ASSUME NEW cfg \in Configs
  PROVE  /\ \A n \in Points : ValueOf(cfg, n) \in Nat
         /\ cfg.period_size \in Nat /\ cfg.period_count \in Nat
         /\ cfg.channels \in Nat
<1>1. cfg \in ConfigType
  BY PluginAssumption
<1> QED BY <1>1 DEF ConfigType, Points, ValueOf

LEMMA AnythingIntervals ==
  ASSUME NEW c \in Constraints
  PROVE  LET r == pcm_plug_hrefine(c, param_init)
         IN  /\ \A n \in IntervalParam :
                  r.interval[n] = IntervalRefine(Interval(0, UIntMax),
                                    pcm_plug_get_params(c).interval[n])
             /\ r.mask["FORMAT"] = AlsaFormat \cap c.format
<1>1. pcm_plug_get_params(c).mask["FORMAT"] = c.format
  BY Constraining
<1> QED
  BY <1>1 DEF pcm_plug_hrefine, pcm_plug_hw_params_refine, param_init, MaskParam

(* What is left of a request that is offered.                              *)
LEMMA RefinedExact ==
  ASSUME NEW c \in Constraints, NEW f, NEW cfg \in Configs, Offered(c, cfg)
  PROVE  LET p == pcm_plug_hrefine(c, ConfigParams(cfg, f))
             r == pcm_plug_hrefine(c, param_init)
         IN  /\ \A n \in Points :
                  p.interval[n] = Integral(ValueOf(cfg, n), ValueOf(cfg, n))
             /\ \E m : p.interval["PERIOD_SIZE"] = Integral(cfg.period_size, m)
             /\ p.interval["BUFFER_SIZE"] = r.interval["BUFFER_SIZE"]
             /\ p.mask["FORMAT"] = {cfg.format}
<1> DEFINE q == ConfigParams(cfg, f)
           g == pcm_plug_get_params(c)
           p == pcm_plug_hrefine(c, q)
           r == pcm_plug_hrefine(c, param_init)
<1>1. /\ \A n \in IntervalParam :
           p.interval[n] = IntervalRefine(q.interval[n], g.interval[n])
      /\ p.mask["FORMAT"] = q.mask["FORMAT"] \cap g.mask["FORMAT"]
  BY DEF pcm_plug_hrefine, pcm_plug_hw_params_refine, MaskParam
<1>2. /\ \A n \in IntervalParam :
           r.interval[n] = IntervalRefine(Interval(0, UIntMax), g.interval[n])
      /\ r.mask["FORMAT"] = AlsaFormat \cap c.format
  BY AnythingIntervals
<1>3. /\ \A n \in Points :
           q.interval[n] = Integral(ValueOf(cfg, n), ValueOf(cfg, n))
      /\ q.interval["PERIOD_SIZE"] = Interval(cfg.period_size, UIntMax)
      /\ q.interval["BUFFER_SIZE"] = Interval(0, UIntMax)
      /\ q.mask["FORMAT"] = {pcm_format_to_alsa(cfg.format)}
  BY Asking
<1>4. /\ \A n \in Known : \E a, b \in Int : g.interval[n] = Integral(a, b)
      /\ g.mask["FORMAT"] = c.format
  BY Constraining
<1>5. /\ pcm_params_format_test(r, cfg.format)
      /\ \A n \in Points : Allows(r, n, ValueOf(cfg, n))
      /\ Allows(r, "PERIOD_SIZE", cfg.period_size)
  BY DEF Offered
<1>6. Known \subseteq IntervalParam
  BY DEF Known, Points, IntervalParam
<1> HIDE DEF p, q, r, g
<1>7. ASSUME NEW n \in Points
      PROVE  p.interval[n] = Integral(ValueOf(cfg, n), ValueOf(cfg, n))
  <2>1. n \in Known /\ n \in IntervalParam
    BY <1>6 DEF Known
  <2>2. PICK a, b \in Int : g.interval[n] = Integral(a, b)
    BY <1>4, <2>1
  <2>3. ValueOf(cfg, n) \in Nat
    BY ConfigTypes
  <2>4. r.interval[n] = IntervalRefine(Interval(0, UIntMax), Integral(a, b))
    BY <1>2, <2>1, <2>2
  <2>5. /\ r.interval[n].min <= ValueOf(cfg, n)
        /\ ValueOf(cfg, n) <= r.interval[n].max
    BY <1>5 DEF Allows
  <2>6. IntervalRefine(Integral(ValueOf(cfg, n), ValueOf(cfg, n)), Integral(a, b))
          = Integral(ValueOf(cfg, n), ValueOf(cfg, n))
    BY <2>3, <2>4, <2>5, RefinePoint
  <2> QED BY <1>1, <1>3, <2>1, <2>2, <2>6
<1>8. \E m : p.interval["PERIOD_SIZE"] = Integral(cfg.period_size, m)
  <2>1. "PERIOD_SIZE" \in Known /\ "PERIOD_SIZE" \in IntervalParam
    BY <1>6 DEF Known
  <2>2. PICK a, b \in Int : g.interval["PERIOD_SIZE"] = Integral(a, b)
    BY <1>4, <2>1
  <2>3. r.interval["PERIOD_SIZE"]
          = IntervalRefine(Interval(0, UIntMax), Integral(a, b))
    BY <1>2, <2>1, <2>2
  <2>4. /\ r.interval["PERIOD_SIZE"].min <= cfg.period_size
        /\ cfg.period_size <= r.interval["PERIOD_SIZE"].max
    BY <1>5 DEF Allows
  <2>5. p.interval["PERIOD_SIZE"]
          = IntervalRefine(Interval(cfg.period_size, UIntMax), Integral(a, b))
    BY <1>1, <1>3, <2>1, <2>2
  <2>6. IntervalRefine(Interval(cfg.period_size, UIntMax), Integral(a, b)).min
          = cfg.period_size
    BY <2>3, <2>4, ConfigTypes, RefineLeast
  <2> QED BY <2>5, <2>6 DEF IntervalRefine, Integral
<1>9. p.interval["BUFFER_SIZE"] = r.interval["BUFFER_SIZE"]
  BY <1>1, <1>2, <1>3 DEF IntervalParam
<1>10. p.mask["FORMAT"] = {cfg.format}
  BY <1>1, <1>2, <1>3, <1>4, <1>5
     DEF pcm_params_format_test, pcm_format_to_alsa, AlsaFormat
<1> QED BY <1>7, <1>8, <1>9, <1>10 DEF p, q, r

(* The parameters p are those asked for, and so is the buffer, if what is  *)
(* reported has a least buffer.                                            *)
Exact(p, r, cfg) ==
  /\ \A n \in Points \cup {"PERIOD_SIZE"} :
       /\ p.interval[n].min = ValueOf(cfg, n)
       /\ p.interval[n].max = ValueOf(cfg, n)
       /\ p.interval[n].integer = TRUE
  /\ r.interval["BUFFER_SIZE"].min > 0 =>
       /\ p.interval["BUFFER_SIZE"].min
            = UInt(cfg.period_size * cfg.period_count)
       /\ p.interval["BUFFER_SIZE"].max
            = UInt(cfg.period_size * cfg.period_count)
  /\ p.mask["FORMAT"] = {cfg.format}

(* The values picked of an offered request are the request's.              *)
LEMMA GrantedExact ==
  ASSUME NEW c \in Constraints, NEW f, NEW cfg \in Configs,
         Offered(c, cfg), Positive(cfg)
  PROVE  Exact(Granted(c, cfg, f), pcm_plug_hrefine(c, param_init), cfg)
<1> DEFINE q == pcm_plug_hrefine(c, ConfigParams(cfg, f))
           p == pcm_plug_hw_params_set(q)
           r == pcm_plug_hrefine(c, param_init)
           low == [n \in IntervalParam |->
                     IF n \in param_list
                     THEN pcm_plug_interval_select(q.interval[n],
                                                   q.interval[n].min)
                     ELSE q.interval[n]]
           frames == UInt(low["PERIOD_SIZE"].min * low["PERIODS"].min)
<1>1. /\ \A n \in Points :
           q.interval[n] = Integral(ValueOf(cfg, n), ValueOf(cfg, n))
      /\ \E m : q.interval["PERIOD_SIZE"] = Integral(cfg.period_size, m)
      /\ q.interval["BUFFER_SIZE"] = r.interval["BUFFER_SIZE"]
      /\ q.mask["FORMAT"] = {cfg.format}
  BY RefinedExact
<1>2. /\ \A n \in Points : ValueOf(cfg, n) # 0
      /\ cfg.period_size # 0
  BY ConfigTypes DEF Positive, Points, ValueOf
<1>3. /\ \A n \in Points \cup {"PERIOD_SIZE"} : p.interval[n] = low[n]
      /\ p.interval["BUFFER_SIZE"]
           = pcm_plug_interval_select(low["BUFFER_SIZE"], frames)
      /\ p.mask = q.mask
  BY DEF pcm_plug_hw_params_set, Points, IntervalParam
<1>4. low["BUFFER_SIZE"] = q.interval["BUFFER_SIZE"]
  BY DEF IntervalParam, param_list
<1>5. ASSUME NEW n \in Points \cup {"PERIOD_SIZE"}
      PROVE  /\ low[n].min = ValueOf(cfg, n)
             /\ low[n].max = ValueOf(cfg, n)
             /\ low[n].integer = TRUE
  <2>1. n \in param_list /\ n \in IntervalParam
    BY DEF Points, param_list, IntervalParam
  <2>2. PICK m : q.interval[n] = Integral(ValueOf(cfg, n), m)
    BY <1>1, Values
  <2>3. ValueOf(cfg, n) # 0
    BY <1>2, Values
  <2>4. q.interval[n].min = ValueOf(cfg, n)
    BY <2>2 DEF Integral
  <2>5. low[n] = pcm_plug_interval_select(q.interval[n], q.interval[n].min)
    BY <2>1
  <2>6. low[n] = Integral(ValueOf(cfg, n), ValueOf(cfg, n))
    BY <2>2, <2>3, <2>4, <2>5, SelectPoint
  <2> QED BY <2>6 DEF Integral
<1>6. ASSUME r.interval["BUFFER_SIZE"].min > 0
      PROVE  /\ p.interval["BUFFER_SIZE"].min = frames
             /\ p.interval["BUFFER_SIZE"].max = frames
  <2>1. PICK i : r.interval["BUFFER_SIZE"]
                   = IntervalRefine(Interval(0, UIntMax), i)
    BY AnythingIntervals DEF IntervalParam
  <2> DEFINE b == r.interval["BUFFER_SIZE"]
  <2>2. b.min # 0
    BY <1>6
  <2>3. p.interval["BUFFER_SIZE"] = [b EXCEPT !.min = frames, !.max = frames]
    BY <1>1, <1>3, <1>4, <2>2 DEF pcm_plug_interval_select
  <2> HIDE DEF frames
  <2> QED BY <2>1, <2>3 DEF IntervalRefine
<1>7. frames = UInt(cfg.period_size * cfg.period_count)
  <2>1. "PERIODS" \in Points
    BY DEF Points
  <2>2. /\ low["PERIOD_SIZE"].min = cfg.period_size
        /\ low["PERIODS"].min = cfg.period_count
    BY <1>5, <2>1, Values
  <2> QED BY <2>2
<1> HIDE DEF frames, low, p, q, r
<1>8. Exact(p, r, cfg)
  BY <1>1, <1>3, <1>5, <1>6, <1>7 DEF Exact
<1> QED BY <1>8 DEF Granted, p, q, r

------------------------------------------------------------------------------
(* The invariant                                                           *)

Configuring == {"hw_params", "map", "sw_params"}
Calling == {"entry", "prepare", "start_sync", "start", "again", "failed"}

Constant ==
  /\ cons \in Constraints /\ flags \in FlagSets
  /\ reported # None => reported = pcm_plug_hrefine(cons, param_init)

Places ==
  /\ pc \in {"closed", "idle"} \cup Configuring \cup Calling
  /\ pc \in Calling => caller \in {"pcm_transfer", "pcm_start", "pcm_prepare"}
  /\ pc \in Configuring => caller \in {"pcm_open", "pcm_set_config"}
  /\ silent \in BOOLEAN

(* A plugin that was set up was set up with what was asked for, and a new  *)
(* configuration is not taken for it until the plugin is opened again.     *)
SetUp ==
  /\ params # None => /\ state # "OPEN"
                      /\ asked \in Configs
                      /\ params = Granted(cons, asked, flags)
  /\ pc = "hw_params" /\ state = "OPEN" => config = asked /\ asked \in Configs
  /\ pc = "hw_params" /\ caller = "pcm_open" => state = "OPEN"

(* While a configuration succeeds, and after it has, the handle shows what *)
(* the plugin was set up with; no call is made on a plugin that was not,   *)
(* but after a failure that was returned as success.                       *)
Shown ==
  /\ pc \in {"map", "sw_params"} =>
       params # None /\ config = RefinedConfig(asked, params)
  /\ ~silent /\ pc \in {"idle"} \cup Calling =>
       /\ params # None
       /\ agreed => config = RefinedConfig(asked, params)
  /\ ~silent /\ pc = "hw_params" /\ caller = "pcm_set_config" =>
       params # None

IInv == Constant /\ Places /\ SetUp /\ Shown

LEMMA InitHolds == Init => IInv
BY DEF Init, IInv, Constant, Places, SetUp, Shown, Configuring, Calling

(* A step of a transfer, of a control call or of the other thread: it may  *)
(* change the stream's state, but nothing that was configured.             *)
Quiet ==
  /\ pc \in {"idle"} \cup Calling /\ pc' \in {"idle"} \cup Calling
  /\ pc' \in Calling => caller' \in {"pcm_transfer", "pcm_start", "pcm_prepare"}
  /\ state' \in {state, "SETUP", "PREPARED", "RUNNING"}
  /\ UNCHANGED <<cons, flags, reported, params, config, asked, history>>

LEMMA QuietHolds == IInv /\ Quiet => IInv'
BY DEF IInv, Quiet, Constant, Places, SetUp, Shown, Configuring, Calling, history

LEMMA TransferStep == IInv /\ Transfer => IInv'
<1> SUFFICES ASSUME IInv, Transfer PROVE Quiet
  BY QuietHolds
<1> USE DEF IInv, Places, Quiet, Calling, Goto, Return, plugin, handle, history
<1>1. CASE Entry
  BY <1>1 DEF Transfer, Entry, AfterPrepare
<1>2. CASE pcm_plug_prepare
  BY <1>2 DEF Transfer, pcm_plug_prepare, AfterPrepare
<1>3. CASE StartSync
  BY <1>3 DEF Transfer, StartSync
<1>4. CASE pcm_plug_start
  BY <1>4 DEF Transfer, pcm_plug_start
<1>5. CASE pcm_plug_transfer
  BY <1>5 DEF Transfer, pcm_plug_transfer
<1>6. CASE TransferFailed
  BY <1>6 DEF Transfer, TransferFailed
<1> QED
  BY <1>1, <1>2, <1>3, <1>4, <1>5, <1>6 DEF Transfer

LEMMA OtherStep == IInv /\ Other => IInv'
<1> SUFFICES ASSUME IInv, Other PROVE Quiet
  BY QuietHolds
<1> QED
  BY DEF IInv, Places, Quiet, Calling, Other, OtherDrop, handle, history

(* A configuration fails: it closes the handle of pcm_open, or errno was   *)
(* zero, or it was the plugin's second one.                                *)
LEMMA FailedStep ==
  ASSUME IInv, pc \in Configuring, SetConfigFails,
         UNCHANGED <<cons, flags, reported, state, params, config, asked>>
  PROVE  IInv'
<1>1. /\ silent' \in BOOLEAN
      /\ pc' \in {"closed", "idle"}
      /\ silent => silent'
  BY DEF SetConfigFails, Return, IInv, Places
<1>2. Constant' /\ Places' /\ SetUp'
  BY <1>1 DEF IInv, Constant, Places, SetUp, Configuring, Calling
<1>3. ASSUME ~silent', pc' = "idle"
      PROVE  params # None /\ ~agreed'
  <2>1. errno' # "none" /\ ~agreed' /\ ~silent
    BY <1>1, <1>3 DEF SetConfigFails, IInv, Places
  <2>2. caller = "pcm_set_config"
    BY <1>3, <2>1 DEF SetConfigFails, IInv, Places
  <2> QED
    BY <2>1, <2>2 DEF IInv, Shown, Configuring
<1>4. Shown'
  BY <1>1, <1>3 DEF Shown, Calling
<1> QED
  BY <1>2, <1>4 DEF IInv

LEMMA ConfigureStep == IInv /\ Configure => IInv'
<1> SUFFICES ASSUME IInv, Configure PROVE IInv'
  OBVIOUS
<1>1. CASE pcm_plug_hparams
  <2>1. ASSUME state = "OPEN", state' = "SETUP",
               params' = GrantedTo[cons][flags][config],
               config' = RefinedConfig(config, params'),
               pc' = IF "PCM_MMAP" \in flags THEN "map" ELSE "sw_params",
               UNCHANGED <<caller, cons, flags, reported, asked, history>>
        PROVE  IInv'
    <3>1. pc = "hw_params"
      BY <1>1 DEF pcm_plug_hparams
    <3>2. config = asked /\ asked \in Configs
      BY <2>1, <3>1 DEF IInv, SetUp
    <3>3. cons \in Constraints /\ flags \in FlagSets
      BY DEF IInv, Constant
    <3>4. params' = Granted(cons, asked, flags)
      BY <2>1, <3>2, <3>3 DEF GrantedTo
    <3>5. params' # None
      BY <3>2, <3>3, <3>4, PluginAssumption
    <3> QED
      BY <2>1, <3>1, <3>2, <3>4, <3>5
         DEF IInv, Constant, Places, SetUp, Shown, Configuring, Calling, history
  <2>2. ASSUME SetConfigFails, UNCHANGED <<plugin, config>> PROVE IInv'
    BY <1>1, <2>2, FailedStep
       DEF Configure, pcm_plug_hparams, plugin, Configuring
  <2> QED
    BY <1>1, <2>1, <2>2 DEF Configure, pcm_plug_hparams, Goto, history
<1>2. CASE pcm_plug_mmap
  BY <1>2, FailedStep DEF Configure, pcm_plug_mmap, plugin, handle, Configuring
<1>3. CASE pcm_plug_sparams
  <2>1. ASSUME SetConfigFails PROVE IInv'
    BY <1>3, <2>1, FailedStep
       DEF Configure, pcm_plug_sparams, plugin, handle, Configuring
  <2>2. ASSUME Return, agreed', UNCHANGED silent PROVE IInv'
    BY <1>3, <2>2
       DEF Configure, pcm_plug_sparams, plugin, handle, Return,
           IInv, Constant, Places, SetUp, Shown, Configuring, Calling
  <2> QED
    BY <1>3, <2>1, <2>2 DEF pcm_plug_sparams
<1> QED
  BY <1>1, <1>2, <1>3 DEF Configure

LEMMA ClientStep == IInv /\ Client => IInv'
<1> SUFFICES ASSUME IInv, Client PROVE IInv'
  OBVIOUS
<1> USE DEF IInv, Constant, Places, SetUp, Shown, Configuring, Calling,
            plugin, handle, history
<1>1. CASE pcm_params_get
  BY <1>1 DEF Client, pcm_params_get, Anything
<1>2. ASSUME NEW cfg \in Configs, pcm_open(cfg) PROVE IInv'
  BY <1>2 DEF Client, pcm_open
<1>3. ASSUME NEW cfg \in Configs, pcm_set_config(cfg) PROVE IInv'
  BY <1>3 DEF Client, pcm_set_config
<1>4. CASE pcm_close
  BY <1>4 DEF Client, pcm_close, Goto
<1>5. CASE pcm_transfer \/ pcm_start \/ pcm_prepare
  <2>1. Quiet
    BY <1>5 DEF Client, pcm_transfer, pcm_start, pcm_prepare, Enter, Quiet
  <2> QED BY <2>1, QuietHolds
<1>6. CASE pcm_drain \/ pcm_plug_drop
  <2>1. Quiet
    BY <1>6 DEF Client, pcm_drain, pcm_plug_drop, Return, Quiet
  <2> QED BY <2>1, QuietHolds
<1> QED
  BY <1>1, <1>2, <1>3, <1>4, <1>5, <1>6 DEF Client

LEMMA Inductive == IInv /\ [Next]_vars => IInv'
<1>1. IInv /\ UNCHANGED vars => IInv'
  BY DEF vars, IInv, Constant, Places, SetUp, Shown, plugin, handle, history
<1> QED
  BY <1>1, TransferStep, OtherStep, ConfigureStep, ClientStep DEF Next

LEMMA Invariant == Spec => []IInv
BY InitHolds, Inductive, PTL DEF Spec

------------------------------------------------------------------------------
(* The theorems                                                            *)

LEMMA ReportedOffered ==
  ASSUME IInv, NEW cfg, Reported(cfg)
  PROVE  Offered(cons, cfg)
<1>1. reported = pcm_plug_hrefine(cons, param_init)
  BY DEF IInv, Constant, Reported
<1> QED
  BY <1>1, Values DEF Reported, Offered, Points

(* Whatever pcm_params_get reports of a plugin, pcm_open sets it up with:  *)
(* exactly the channels, rate, periods, period and format asked for, and a *)
(* buffer of so many periods.                                              *)
THEOREM GrantsWhatIsReportedCorrect == Spec => []GrantsWhatIsReported
<1>1. IInv => GrantsWhatIsReported
  <2> SUFFICES ASSUME IInv, params # None, Reported(asked), Positive(asked)
               PROVE  /\ \A n \in Points \cup {"PERIOD_SIZE"} :
                           Selected(n, ValueOf(asked, n))
                      /\ params.mask.FORMAT = {asked.format}
                      /\ reported.interval["BUFFER_SIZE"].min > 0 =>
                           Selected("BUFFER_SIZE",
                             UInt(asked.period_size * asked.period_count))
    BY Values DEF GrantsWhatIsReported, Points
  <2>1. /\ params = Granted(cons, asked, flags)
        /\ cons \in Constraints /\ asked \in Configs
        /\ reported = pcm_plug_hrefine(cons, param_init)
    BY DEF IInv, Constant, SetUp, Reported
  <2>2. Offered(cons, asked)
    BY ReportedOffered
  <2>3. Exact(params, reported, asked)
    BY <2>1, <2>2, GrantedExact
  <2> QED
    BY <2>3 DEF Exact, Selected
<1> QED
  BY <1>1, Invariant, PTL

(* The formats whose width sample_pcm_plugin.c and pcm.c agree on.         *)
SampleFormats == {"S8", "S16_LE", "S16_BE", "S24_LE", "S24_3LE", "S32_LE"}

(* The handle of a configured stream has the configuration its plugin was  *)
(* set up with, and a frame is the same bytes to both.                     *)
THEOREM PluginAgreesCorrect ==
  ASSUME \A c \in Constraints : c.format \subseteq SampleFormats
  PROVE  Spec => []PluginAgrees
<1>1. IInv => PluginAgrees
  <2> SUFFICES ASSUME IInv, pc # "closed", ~silent PROVE PluginAgrees
    BY DEF PluginAgrees
  <2>1. state # "OPEN" => params # None
    <3>1. CASE pc = "hw_params"
      BY <3>1 DEF IInv, Places, SetUp, Shown, Configuring
    <3>2. CASE pc # "hw_params"
      BY <3>2 DEF IInv, Places, Shown, Configuring
    <3> QED
      BY <3>1, <3>2
  <2>2. ASSUME pc = "idle", agreed
        PROVE  /\ params # None /\ asked \in Configs
               /\ config = RefinedConfig(asked, params)
    BY <2>2 DEF IInv, SetUp, Shown
  <2>3. ASSUME pc = "idle", agreed
        PROVE  /\ config.period_size = param_get_int(params, "PERIOD_SIZE")
               /\ config.period_count = param_get_int(params, "PERIODS")
    <3>1. asked \in ConfigType
      BY <2>2, <2>3, PluginAssumption
    <3> QED
      BY <2>2, <2>3, <3>1, Refining
  <2>4. ASSUME pc = "idle", agreed, Reported(asked), Positive(asked)
        PROVE  config = asked /\ FrameBits(config) = PluginFrameBits(params)
    <3>1. /\ params = Granted(cons, asked, flags)
          /\ cons \in Constraints /\ asked \in Configs
          /\ reported = pcm_plug_hrefine(cons, param_init)
      BY <2>2, <2>4 DEF IInv, Constant, SetUp, Reported
    <3>2. Offered(cons, asked)
      BY <2>4, ReportedOffered
    <3>3. /\ param_get_int(params, "CHANNELS") = asked.channels
          /\ param_get_int(params, "PERIOD_SIZE") = asked.period_size
          /\ param_get_int(params, "PERIODS") = asked.period_count
          /\ params.mask["FORMAT"] = {asked.format}
      <4>1. Exact(params, reported, asked)
        BY <2>4, <3>1, <3>2, GrantedExact
      <4> QED
        BY <4>1, Values DEF Exact, Points, param_get_int
    <3>4. config = asked
      <4>1. asked \in ConfigType
        BY <3>1, PluginAssumption
      <4> QED
        BY <2>2, <2>4, <3>3, <4>1, Refining
    <3>5. asked.format \in SampleFormats
      BY <3>1, <3>2, AnythingIntervals
         DEF Offered, pcm_params_format_test, pcm_format_to_alsa, AlsaFormat
    <3>6. snd_mask_val(params.mask["FORMAT"]) = asked.format
      BY <3>3 DEF snd_mask_val
    <3>7. alsaformat_to_bitwidth(asked.format) = pcm_format_to_bits(asked.format)
      BY <3>5 DEF SampleFormats, alsaformat_to_bitwidth, pcm_format_to_bits
    <3> QED
      BY <3>3, <3>4, <3>6, <3>7 DEF FrameBits, PluginFrameBits
  <2> QED
    BY <2>1, <2>3, <2>4 DEF PluginAgrees
<1> QED
  BY <1>1, Invariant, PTL
==============================================================================
