\* Two consumer threads poll with getCurrentFrame.
CONSTANTS
  Consumers = {c1, c2}
  Windows = FALSE
  MaxFrames = 2
SPECIFICATION Safe
PROPERTIES CurrentIsNew
