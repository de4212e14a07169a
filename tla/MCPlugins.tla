----------------------------- MODULE MCPlugins -----------------------------
(* A behaviour is that of one plugin: the MQTT bridge or an SDK plugin.      *)
EXTENDS MqttBridge, PluginRunner

VARIABLE plugin
all == <<plugin, vars, runner>>

MCInit == plugin \in {"mqtt", "sdk"} /\ Init /\ RunnerInit
MqttNext == plugin = "mqtt" /\ Next /\ UNCHANGED <<plugin, runner>>
SdkNext == plugin = "sdk" /\ RunnerNext /\ UNCHANGED <<plugin, vars>>
MCSpec == MCInit /\ [][MqttNext \/ SdkNext]_all /\ RunnerFairness
=============================================================================
