---------------------------- MODULE MCFanControl ----------------------------
(* FanControl for TLC on a small scale: five temperatures, speeds to 10,    *)
(* a ramp that needs several ticks, and a quantum the points of the curves *)
(* are not multiples of; the second curve has two points at one            *)
(* temperature.  LowPwm is under MinPwm, FanSafePwm between.               *)
EXTENDS FanControl

MCCurves == { << <<0, 2>>, <<3, 3>>, <<6, 10>> >>,
              << <<1, 3>>, <<3, 4>>, <<3, 8>>, <<4, 8>> >> }

\* Off, within the limits, and above them.
MCBootPwms == {0, 4, 12}
=============================================================================
