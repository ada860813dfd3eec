---------------------------- MODULE MCDeviceScan ----------------------------
(* Device nodes for the runs of DeviceScan: a microphone with a node to play  *)
(* on, and cameras.                                                           *)
EXTENDS DeviceScan

Pcm(card, device, capture) == [card |-> card, device |-> device, capture |-> capture]

NoNodes == {}
Microphone == {Pcm(1, 0, TRUE), Pcm(1, 0, FALSE)}
Cameras(numbers) == {[number |-> n] : n \in numbers}
TwoCameras == Cameras({0, 10})
FiveCameras == Cameras(0..4)
=============================================================================
