------------------------------- MODULE Devices -------------------------------
(***************************************************************************)
(* The init functions and destructors of the devices main() opens, as      *)
(* data: the calls an init makes in their order, what each takes hold of,  *)
(* and what becomes of main() when it is refused (midi_source_*.cpp,       *)
(* udp_sink.cpp, key_sink_xcb.cpp, audio_*.cpp).  Calls that only print,   *)
(* and those whose result nobody looks at, are left out, and so is memory  *)
(* that runs out.                                                          *)
(***************************************************************************)
EXTENDS Sequences

\* The empty string: that of an option that is not given.
Empty == ""

\* A call: the handles it takes and those it gives back, whether it can be
\* granted, and what happens if it is not: init "fails", the process "exits",
\* or it is "never" refused.
Call(takes, gives, possible, refusal) ==
  [takes |-> takes, gives |-> gives, possible |-> possible, refusal |-> refusal]

Take(handle) == Call({handle}, {}, TRUE, "fails")
Try == Call({}, {}, TRUE, "fails")

\* A condition on the arguments.
Require(condition) == Call({}, {}, condition, IF condition THEN "never" ELSE "fails")

\* init_socket_api: nothing to do but on Windows, where WSAStartup takes a
\* reference to Winsock, of its own for each device that calls it.
SocketApi(platform, reference) ==
  IF platform = "win32" THEN <<Take(reference)>> ELSE <<>>

\* MIDISourceALSA::init: snd_seq_open, snd_seq_create_simple_port,
\* snd_seq_parse_address (which takes no empty name), snd_seq_connect_from.
AlsaCalls(client) ==
  <<Take("sequencer"), Try, Call({}, {}, client # Empty, "fails"), Try>>

\* MIDISourceMM::init: the name, midiInGetNumDevs, the device of that name,
\* midiInOpen.  A midiInStart that fails is reported and no more.
WinmmCalls(client) == <<Require(client # Empty), Try, Try, Take("midi_input")>>

\* MIDISourceUDP::init: the name, the socket API, socket, setsockopt, bind.
UdpSourceCalls(client, platform) ==
  <<Require(client # Empty)>> \o SocketApi(platform, "winsock_source")
    \o <<Take("source_socket"), Try, Try>>

\* KeySink::init: xcb_connect, xcb_test_get_version, xcb_key_symbols_alloc.
\* On Windows there is nothing to do.
KeySinkCalls(platform) ==
  IF platform = "win32" THEN <<>>
  ELSE <<Take("connection"), Try, Call({"key_symbols"}, {}, TRUE, "never")>>

\* A plausible bug: the addresses are freed only once one of them will do.
UdpSinkFreesLate(hasPort, platform) ==
  <<Require(hasPort)>> \o SocketApi(platform, "winsock_sink")
    \o <<Take("addresses"), Try, Call({}, {"addresses"}, TRUE, "never"), Take("sink_socket")>>

\* UDPSink::init: a port in the address, the socket API, getaddrinfo,
\* freeaddrinfo, an IPv4 address among those found, socket.
UdpSinkCalls(hasPort, platform) ==
  <<Require(hasPort)>> \o SocketApi(platform, "winsock_sink")
    \o <<Take("addresses"), Call({}, {"addresses"}, TRUE, "never"), Try, Take("sink_socket")>>

\* initialize_bind_table: a key that has no code, or two, ends the process
\* from within get_keycode.  On Windows every character has one.
BindCalls(platform) ==
  IF platform = "win32" THEN <<>> ELSE <<Call({}, {}, TRUE, "exits")>>

\* Pulse::init: the mainloop, the context, its connection, the start of the
\* mainloop, the context's state when it settles, the stream, its connection,
\* its state.  main()'s two channels are never too many.  (PulseBackend has
\* the threads, the lock and the waits.)
PulseCalls ==
  <<Take("mainloop"), Take("context"), Try, Try, Try, Take("stream"), Try, Try>>

\* WASAPI: the event of the constructor; then init, with CoInitialize, the
\* enumerator, the endpoint, the client, its format, two conditions on that,
\* Initialize, SetEventHandle, GetBufferSize, the render client.
WasapiCalls ==
  <<Call({"audio_event"}, {}, TRUE, "never"), Take("com"), Take("enumerator"),
    Take("endpoint"), Take("client"), Take("format"), Try, Try, Try, Try, Try,
    Take("render_client")>>

\* AudioBackend and its init.
BackendCalls(platform) == IF platform = "win32" THEN WasapiCalls ELSE PulseCalls

\* Handles that a destructor releases.
ReleasedBy(device) ==
  CASE device = "backend" ->
         {"mainloop", "context", "stream", "audio_event", "enumerator", "endpoint",
          "client", "format", "render_client"}
    [] device = "sink" -> {"sink_socket"}
    [] device = "keys" -> {"key_symbols", "connection"}
    [] device = "source" -> {"sequencer", "midi_input", "source_socket"}

\* Those that none does: there is no WSACleanup and no CoUninitialize.
NeverReleased == {"winsock_source", "winsock_sink", "com"}
=============================================================================
