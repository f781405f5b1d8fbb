---------------------------- MODULE MCBrowserClient ----------------------------
(* Two callers and two hosts of one identity slot.  The five workloads reach
   late answers, hosts that share a slot, restarts and failed saves, challenges, and login
   sessions; mixed in one run they would only multiply. *)
EXTENDS ChallengeSolver
CONSTANTS c1, c2
MCSlotOf == [h \in Hosts |-> 0]
Load(ks, hs, ps, n) ==
  [kinds |-> ks, hosts |-> hs, pages |-> ps, calls |-> n,
   sessions |-> 0, restarts |-> 0, failedSaves |-> 0]
MCWorkloads ==
  {Load({"fetch"}, {"a"}, {"refused"}, 4),
   Load({"fetch"}, {"a", "b"}, {"fine", "refused"}, 3),
   [Load({"explore"}, {"a"}, {"refused"}, 3) EXCEPT !.restarts = 1, !.failedSaves = 1],
   Load({"fetch"}, {"a"}, {"recaptcha", "datadome"}, 2),
   [Load({"profile", "cloudflare"}, {"a"}, {"recaptcha"}, 1)
      EXCEPT !.restarts = 1, !.sessions = 2]}
=============================================================================
