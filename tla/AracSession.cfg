\* One request beside another, two vehicles that may swap their plates, one captcha.
CONSTANTS
  Request = {q1, q2}
  Vehicle = {v1, v2}
  Plate = {p1, p2}
  Asked = {v1, p1}
  Captcha = {k1}
  MaxCookies = 1
  MaxMoved = 1
  None = None
SPECIFICATION FairSpec
INVARIANTS HashSentOnce AskedVehicle KeysVerified
PROPERTIES CaptchaConsumed LookupsEnd
