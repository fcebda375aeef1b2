---------------------------- MODULE HeadlessBackend ----------------------------
(***************************************************************************)
(* HeadlessStreamBackend (aegis/services/detection/headless.py): one       *)
(* browser, launched when a page is first probed and used for all others.  *)
(* A probe is a chain of calls to Playwright, any of which may raise: the  *)
(* probe is kept as it is then, with an error, and its context stays open. *)
(***************************************************************************)
EXTENDS Naturals, FiniteSets

CONSTANTS Urls,
          Embeds,         \* hosts of the frames a page may load
          NoProbe         \* not a probe

VARIABLES held,           \* does _pw hold a driver?
          browser,        \* is _browser set?
          probes,         \* _cache, NoProbe where a URL is not in it
          step,           \* where in probe() the backend is
          draft,          \* the local result
          seen,           \* is anything in the local seen_manifests?
          drivers,        \* drivers that are running
          contexts,       \* contexts that are open
          requested,      \* history: pages seen to request a manifest
          restarted,      \* history: was a driver started while one was held?
          stuck           \* history: did close() raise?

probeVars == <<held, browser, probes, step, draft, seen, drivers, contexts,
               requested, restarted, stuck>>
processes == <<held, browser, drivers, contexts, restarted, stuck>>

Probe == [manifests : BOOLEAN, embeds : SUBSET Embeds, player : BOOLEAN, error : BOOLEAN]
EmptyProbe == [manifests |-> FALSE, embeds |-> {}, player |-> FALSE, error |-> FALSE]

ASSUME NoProbeIsNone == NoProbe \notin Probe

Steps == {"idle", "driver", "launch", "context", "page", "goto", "look", "frames", "close"}

HeadlessTypeOK ==
  /\ held \in BOOLEAN /\ browser \in BOOLEAN /\ (browser => held)
  /\ probes \in [Urls -> Probe \union {NoProbe}]
  /\ step \in Steps
  /\ draft \in Probe
  /\ seen \in BOOLEAN
  /\ drivers \in Nat /\ contexts \in Nat
  /\ requested \subseteq Urls
  /\ restarted \in BOOLEAN /\ stuck \in BOOLEAN

HeadlessInit ==
  /\ held = FALSE /\ browser = FALSE
  /\ probes = [u \in Urls |-> NoProbe]
  /\ step = "idle"
  /\ draft = EmptyProbe
  /\ seen = FALSE
  /\ drivers = 0 /\ contexts = 0
  /\ requested = {}
  /\ restarted = FALSE /\ stuck = FALSE

Probed(url) == probes[url] # NoProbe

-----------------------------------------------------------------------------
(* probe(url)                                                              *)

BeginProbe(url) ==
  /\ step = "idle"
  /\ ~Probed(url)
  /\ step' = IF browser THEN "context" ELSE "driver"
  /\ draft' = EmptyProbe
  /\ UNCHANGED <<processes, probes, seen, requested>>

(* sync_playwright().start(): when an earlier launch has failed, _pw holds *)
(* a driver already.                                                       *)
StartDriver ==
  /\ step = "driver"
  /\ drivers' = drivers + 1
  /\ restarted' = (restarted \/ held)
  /\ held' = TRUE
  /\ step' = "launch"
  /\ UNCHANGED <<browser, contexts, stuck, probes, draft, seen, requested>>

LaunchBrowser ==
  /\ step = "launch"
  /\ browser' = TRUE
  /\ step' = "context"
  /\ UNCHANGED <<held, drivers, contexts, restarted, stuck, probes, draft, seen, requested>>

OpenContext ==
  /\ step = "context"
  /\ contexts' = contexts + 1
  /\ step' = "page"
  /\ UNCHANGED <<held, browser, drivers, restarted, stuck, probes, draft, seen, requested>>

(* context.route(), new_page(), page.on("request", _on_request)            *)
OpenPage ==
  /\ step = "page"
  /\ seen' = FALSE
  /\ step' = "goto"
  /\ UNCHANGED <<processes, probes, draft, requested>>

(* _on_request: the page asks for a manifest while it loads or settles.    *)
RequestManifest(url) ==
  /\ step \in {"goto", "look"}
  /\ ~seen
  /\ seen' = TRUE
  /\ requested' = requested \union {url}
  /\ UNCHANGED <<processes, probes, step, draft>>

(* page.goto(), which raises after nav_timeout_ms                          *)
Load ==
  /\ step = "goto"
  /\ step' = "look"
  /\ UNCHANGED <<processes, probes, draft, seen, requested>>

(* wait_for_timeout(), query_selector(), whose exception is swallowed      *)
LookForPlayer(found) ==
  /\ step = "look"
  /\ draft' = [draft EXCEPT !.player = found]
  /\ step' = "frames"
  /\ UNCHANGED <<processes, probes, seen, requested>>

ReadFrames(hosts) ==
  /\ step = "frames"
  /\ draft' = [draft EXCEPT !.manifests = seen, !.embeds = hosts]
  /\ step' = "close"
  /\ UNCHANGED <<processes, probes, seen, requested>>

Keep(url, probe) ==
  /\ probes' = [probes EXCEPT ![url] = probe]
  /\ step' = "idle"
  /\ UNCHANGED <<draft, seen, requested, held, browser, drivers, restarted, stuck>>

CloseContext(url) ==
  /\ step = "close"
  /\ contexts' = contexts - 1
  /\ Keep(url, draft)

(* A probe that is not kept when a call raises.                            *)
FailForgetting(url) ==
  /\ step # "idle"
  /\ step' = "idle"
  /\ UNCHANGED <<processes, probes, draft, seen, requested>>

(* except Exception: any of the calls of the chain raises.                 *)
Fail(url) ==
  /\ step # "idle"
  /\ Keep(url, [draft EXCEPT !.error = TRUE])
  /\ UNCHANGED contexts

ProbeNext(url) ==
  \/ BeginProbe(url)
  \/ StartDriver \/ LaunchBrowser \/ OpenContext \/ OpenPage
  \/ RequestManifest(url)
  \/ Load
  \/ \E found \in BOOLEAN : LookForPlayer(found)
  \/ \E hosts \in SUBSET Embeds : ReadFrames(hosts)
  \/ CloseContext(url)
  \/ Fail(url)

-----------------------------------------------------------------------------
(* A close() that looks for a browser before it stops the driver.          *)
CloseBrowserOnly ==
  /\ contexts' = 0
  /\ drivers' = IF browser THEN drivers - 1 ELSE drivers
  /\ UNCHANGED stuck

(* close(): the browser, with all its contexts, then the driver, ...       *)
CloseAll ==
  /\ contexts' = 0
  /\ drivers' = IF held THEN drivers - 1 ELSE drivers
  /\ UNCHANGED stuck

(* ... unless closing or stopping raises.                                  *)
CloseSome ==
  /\ held
  /\ contexts' \in {0, contexts}
  /\ stuck' = TRUE
  /\ UNCHANGED drivers

(* A finally that lets go of the driver only.                              *)
LetGoOfDriver == held' = FALSE /\ UNCHANGED browser

(* finally: whatever happens the backend lets go of both.                  *)
LetGo == held' = FALSE /\ browser' = FALSE

Close ==
  /\ CloseAll \/ CloseSome
  /\ LetGo
  /\ step' = "idle"
  /\ UNCHANGED <<probes, draft, seen, requested, restarted>>
=============================================================================
