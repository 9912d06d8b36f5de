SPECIFICATION FairSpec
CONSTANTS
  Leds = {Relay, System}
  HAL_LED_Relay = Relay
  HAL_LED_System = System
  Halves = {1, 3}
  PulseTime = 2
  GateTime = 6
  MaxPass = 3
  ClockSize = 16
  WaitSize = 4
 
PROPERTIES  GateReopens
