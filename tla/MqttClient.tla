----------------------------- MODULE MqttClient -----------------------------
(***************************************************************************)
(* pico_w/wifi/mqtt: a client that subscribes to four topics, obeys what is *)
(* published to them, reports its temperature, and on "/exit" cancels all  *)
(* subscriptions and disconnects.  lwIP holds a limited number of requests *)
(* that the broker has not answered; one more is refused, which the client *)
(* does not look at.  The broker answers requests in order; one that it     *)
(* leaves unanswered for 30 s fails.                                        *)
(***************************************************************************)
EXTENDS Integers, Sequences, FiniteSets

CONSTANTS
  MQTT_REQ_MAX_IN_FLIGHT,
  Temperatures,     \* what the sensor may read
  MaxEvents         \* bound: messages published to the client's topics, and changes
                    \* of the temperature

\* 0 is what old_temperature starts with; a real reading differs from it.
ASSUME SizesAssumption ==
  /\ {MQTT_REQ_MAX_IN_FLIGHT, MaxEvents} \subseteq Nat
  /\ Temperatures \subseteq Nat \ {0}

VARIABLES
  patient,               \* commands come one at a time, each when no request is
                         \* unanswered, and the broker answers a request in time: within
                         \* 30 s, and a temperature within 10 s
  conn,                  \* "connecting", "connected" or "disconnected"
  connect_done, subscribe_count, stop_client,
  led, sensor, old_temperature,
  worker,                \* temperature_worker is scheduled
  panicked, exited,      \* a callback has panicked, main has returned
  pending,               \* requests not yet acknowledged to the client
  served,                \* how many of them the broker has carried out
  subscribed,            \* topics subscribed at the broker
  incoming,              \* messages on the way to the client
  board,                 \* what the broker was told of led and temperature
  lost_report,           \* the latest report of the LED was refused, or one has timed out since
  events                 \* messages and changes so far, for the bound

clientVars == <<connect_done, subscribe_count, stop_client, led, old_temperature, worker>>
endVars == <<panicked, exited>>
wireVars == <<pending, served, subscribed, incoming, board, lost_report>>
mqttVars == <<patient, conn, clientVars, sensor, endVars, wireVars, events>>

Topics == <<"led", "print", "ping", "exit">>
Messages == {"led_on", "led_off", "print", "ping", "exit"}
Topic(m) == IF m \in {"led_on", "led_off"} THEN "led" ELSE m

Sub(t) == [kind |-> "sub", what |-> t, value |-> 0]
Unsub(t) == [kind |-> "unsub", what |-> t, value |-> 0]
Pub(name, value) == [kind |-> "pub", what |-> name, value |-> value]
OnOff(on) == IF on THEN 1 ELSE 0

Running == ~ panicked /\ ~ exited

-----------------------------------------------------------------------------
(* The client.  mqtt_sub_unsub and mqtt_publish take what there is room for. *)

mqtt_request(requests) ==
  LET room == MQTT_REQ_MAX_IN_FLIGHT - Len(pending)
  IN pending' = pending \o SubSeq(requests, 1, IF room < Len(requests) THEN room ELSE Len(requests))

sub_unsub_topics(sub) == [i \in DOMAIN Topics |-> IF sub THEN Sub(Topics[i]) ELSE Unsub(Topics[i])]

\* mqtt_connection_cb: subscribe, say "online", report the temperature at once.
mqtt_connection_cb ==
  /\ Running /\ conn = "connecting"
  /\ conn' = "connected" /\ connect_done' = TRUE
  /\ mqtt_request(Append(sub_unsub_topics(TRUE), Pub("online", 1)))
  /\ worker' = TRUE
  /\ UNCHANGED <<patient, subscribe_count, stop_client, led, old_temperature, sensor, endVars,
                 served, subscribed, incoming, board, lost_report, events>>

\* The connection ends: closed, or with a status of another kind (refused by the broker, no
\* answer to CONNECT, nothing heard for the time of the keep-alive), which is "unexpected".
mqtt_connection_cb_disconnected ==
  /\ Running /\ conn # "disconnected"
  /\ conn' = "disconnected"
  /\ \E status \in {"MQTT_CONNECT_DISCONNECTED", "other"} :
       panicked' = (status = "other" \/ ~ connect_done)
  /\ pending' = <<>> /\ served' = 0 /\ incoming' = <<>>
  /\ subscribed' = {}
  /\ UNCHANGED <<patient, clientVars, sensor, exited, board, lost_report, events>>

M_CountEvery(r) == IF r.kind = "sub" THEN subscribe_count + 1 ELSE subscribe_count - 1

NewCount(r) == CASE r.kind = "sub" -> subscribe_count + 1
                 [] r.kind = "unsub" -> subscribe_count - 1
                 [] r.kind = "pub" -> subscribe_count

M_DisconnectBelowZero(count) == count < 0 /\ stop_client

Disconnect(count) == count <= 0 /\ stop_client

\* sub_request_cb, unsub_request_cb or pub_request_cb; the last unsubscription of a
\* stopping client disconnects, and lwIP then drops every other request.
RequestAnswered ==
  /\ Running /\ conn = "connected" /\ served > 0
  /\ LET r == Head(pending)
         count == NewCount(r)
     IN /\ subscribe_count' = count
        /\ IF r.kind = "unsub" /\ Disconnect(count)
           THEN /\ conn' = "disconnected" /\ pending' = <<>> /\ served' = 0
                /\ subscribed' = {} /\ incoming' = <<>>
           ELSE /\ pending' = Tail(pending) /\ served' = served - 1
                /\ UNCHANGED <<conn, subscribed, incoming>>
  /\ UNCHANGED <<patient, connect_done, stop_client, led, old_temperature, worker, sensor, endVars,
                 board, lost_report, events>>

\* The same callbacks with an error, because the broker refuses a subscription or does not
\* answer for 30 s: fatal but for a publication, which is given up.
RequestFails ==
  /\ Running /\ conn = "connected" /\ pending # <<>>
  /\ LET r == Head(pending)
     IN \/ /\ r.kind # "pub" /\ (served > 0 \/ ~ patient)
           /\ panicked' = TRUE /\ UNCHANGED <<pending, lost_report>>
        \/ /\ r.kind = "pub" /\ served = 0 /\ ~ patient
           /\ pending' = Tail(pending)
           /\ lost_report' = (lost_report \/ r.what = "led")
           /\ UNCHANGED panicked
  /\ UNCHANGED <<patient, conn, clientVars, sensor, exited, served, subscribed, incoming, board,
                 events>>

M_LedSaysBefore(m) ==
  /\ led' = (m = "led_on")
  /\ mqtt_request(<<Pub("led", OnOff(led))>>)
  /\ lost_report' = (Len(pending) >= MQTT_REQ_MAX_IN_FLIGHT)

control_led(m) ==
  /\ led' = (m = "led_on")
  /\ mqtt_request(<<Pub("led", OnOff(m = "led_on"))>>)
  /\ lost_report' = (Len(pending) >= MQTT_REQ_MAX_IN_FLIGHT)

mqtt_incoming_data_cb ==
  /\ Running /\ conn = "connected" /\ incoming # <<>>
  /\ incoming' = Tail(incoming)
  /\ LET m == Head(incoming)
     IN CASE Topic(m) = "led" -> control_led(m) /\ UNCHANGED stop_client
          [] m = "ping" -> /\ mqtt_request(<<Pub("uptime", 0)>>)
                           /\ UNCHANGED <<led, lost_report, stop_client>>
          [] m = "exit" -> /\ stop_client' = TRUE /\ mqtt_request(sub_unsub_topics(FALSE))
                           /\ UNCHANGED <<led, lost_report>>
          [] m = "print" -> UNCHANGED <<led, lost_report, pending, stop_client>>
  /\ UNCHANGED <<patient, conn, connect_done, subscribe_count, old_temperature, worker, sensor,
                 endVars, served, subscribed, board, events>>

M_WorkerOnce ==
  /\ Running /\ worker /\ worker' = FALSE
  /\ patient => \A i \in DOMAIN pending : pending[i].what # "temperature"
  /\ old_temperature' = sensor
  /\ IF sensor # old_temperature /\ conn = "connected"
     THEN mqtt_request(<<Pub("temperature", sensor)>>) ELSE UNCHANGED pending
  /\ UNCHANGED <<patient, conn, connect_done, subscribe_count, stop_client, led, sensor,
                 endVars, served, subscribed, incoming, board, lost_report, events>>

\* publish_temperature notes the temperature as published before it asks for it to be,
\* and is scheduled again; a request without a connection is refused.
temperature_worker_fn ==
  /\ Running /\ worker
  /\ patient => \A i \in DOMAIN pending : pending[i].what # "temperature"
  /\ old_temperature' = sensor
  /\ IF sensor # old_temperature /\ conn = "connected"
     THEN mqtt_request(<<Pub("temperature", sensor)>>) ELSE UNCHANGED pending
  /\ UNCHANGED <<patient, conn, connect_done, subscribe_count, stop_client, led, worker, sensor,
                 endVars, served, subscribed, incoming, board, lost_report, events>>

\* main polls every 10 s.
MainExits ==
  /\ Running /\ connect_done /\ conn # "connected"
  /\ exited' = TRUE
  /\ UNCHANGED <<patient, conn, clientVars, sensor, panicked, wireVars, events>>

-----------------------------------------------------------------------------
(* The broker, whoever publishes to the client, and the temperature. *)

BrokerServes ==
  /\ Running /\ conn = "connected" /\ served < Len(pending)
  /\ served' = served + 1
  /\ LET r == pending[served + 1]
     IN /\ subscribed' = CASE r.kind = "sub" -> subscribed \cup {r.what}
                           [] r.kind = "unsub" -> subscribed \ {r.what}
                           [] r.kind = "pub" -> subscribed
        /\ board' = IF r.kind = "pub" /\ r.what \in DOMAIN board
                    THEN [board EXCEPT ![r.what] = r.value] ELSE board
  /\ UNCHANGED <<patient, conn, clientVars, sensor, endVars, pending, incoming, lost_report, events>>

Publish(m) ==
  /\ Running /\ conn = "connected" /\ events < MaxEvents /\ events' = events + 1
  /\ Topic(m) \in subscribed
  /\ patient => pending = <<>> /\ incoming = <<>>
  /\ incoming' = Append(incoming, m)
  /\ UNCHANGED <<patient, conn, clientVars, sensor, endVars, pending, served, subscribed, board,
                 lost_report>>

SensorChanges ==
  /\ Running /\ events < MaxEvents /\ events' = events + 1
  /\ sensor' \in Temperatures \ {sensor}
  /\ UNCHANGED <<patient, conn, clientVars, endVars, wireVars>>

-----------------------------------------------------------------------------

MqttInit ==
  /\ patient \in BOOLEAN
  /\ conn = "connecting" /\ connect_done = FALSE
  /\ subscribe_count = 0 /\ stop_client = FALSE
  /\ led = FALSE /\ sensor \in Temperatures /\ old_temperature = 0 /\ worker = FALSE
  /\ panicked = FALSE /\ exited = FALSE
  /\ pending = <<>> /\ served = 0 /\ subscribed = {} /\ incoming = <<>>
  /\ board = [led |-> 0, temperature |-> 0] /\ lost_report = FALSE
  /\ events = 0

Callbacks == mqtt_connection_cb \/ RequestAnswered \/ mqtt_incoming_data_cb
MqttNext ==
  \/ Callbacks \/ RequestFails \/ mqtt_connection_cb_disconnected
  \/ temperature_worker_fn \/ MainExits
  \/ BrokerServes \/ (\E m \in Messages : Publish(m)) \/ SensorChanges

MqttFairness ==
  /\ WF_mqttVars(Callbacks) /\ WF_mqttVars(temperature_worker_fn) /\ WF_mqttVars(MainExits)
  /\ WF_mqttVars(BrokerServes)

MqttSpec == MqttInit /\ [][MqttNext]_mqttVars
MqttFairSpec == MqttSpec /\ MqttFairness

-----------------------------------------------------------------------------
(* Properties. *)

\* "assert(state->subscribe_count >= 0)".
CountNotNegative == subscribe_count >= 0

\* The counter is the number of subscriptions at the broker, up to the answers on
\* the way.
Answers(kind) == Cardinality({k \in 1..served : pending[k].kind = kind})
CountAgrees ==
  patient /\ conn = "connected" =>
    subscribe_count = Cardinality(subscribed) - Answers("sub") + Answers("unsub")

\* What the broker was told of the LED is what the LED shows, once every request is
\* answered, however the commands and their reports cross, if the last report got through.
LedReported ==
  conn = "connected" /\ pending = <<>> /\ ~ lost_report => board.led = OnOff(led)

\* "stop the client when ALL subscriptions are stopped": told to exit, it does, if it does not
\* panic before.
ExitStops == stop_client ~> exited \/ panicked

\* The same of commands that come one at a time.
ExitStopsPatient == patient /\ stop_client ~> exited \/ panicked

\* "The example checks its core temperature every ten seconds and if it has changed,
\* publishes it": a temperature that stays gets to the broker, the one that is read
\* while the requests of the connection are unanswered excepted.
TemperatureFollows ==
  \A t \in Temperatures :
    patient /\ conn = "connected" /\ pending = <<>> /\ sensor = t /\ old_temperature # t
      ~> board.temperature = t \/ sensor # t \/ stop_client \/ conn # "connected" \/ panicked

=============================================================================
